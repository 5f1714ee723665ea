----------------------- MODULE FrontConnectionManager -----------------------
(***************************************************************************)
(* The pool of TCP connections one voice session keeps to its front        *)
(* servers (src/xproto/front_connection.cpp), with the handlers of         *)
(* SessionImp.cpp that drive it.                                           *)
(*                                                                         *)
(* Sockets and timers deliver their events as window messages to the UI    *)
(* thread, so one handler, with every call it makes, is one action.  The   *)
(* helpers of the class are functions on the pool, and a handler applies   *)
(* them in the order in which the code calls them.                         *)
(***************************************************************************)
EXTENDS Naturals, Sequences, FiniteSets

CONSTANTS
  Addr,        \* addresses of front servers
  PoolLimit,   \* Start refuses a connection beyond this number; 4 in the code
  UdpEnabled   \* the entry [xproto] udp of rcEnv.ini

ASSUME PoolAssumption == /\ PoolLimit \in Nat \ {0}
                         /\ UdpEnabled \in BOOLEAN

VARIABLES
  pool,        \* the connections, and what was agreed with each front
  change,      \* change_: a change of the main connection was asked for
  backupTimer, \* backup_timer_ has been started; nothing stops it
  info         \* sinfo_front_: its two sockets for user-info requests

vars == <<pool, change, backupTimer, info>>

(***************************************************************************)
(* pool.conns    conntions_, in order; its head is the main connection     *)
(* pool.tcp      tcp_status_ of each connection, NONE when there is none   *)
(* pool.udp      udp_status_ of each connection                            *)
(* pool.msg      message_status_: the subscription the client believes in  *)
(* pool.told     the last PUserSubcribeMessage written to that front       *)
(* pool.waiting  connections whose key exchange or join is unanswered      *)
(* pool.asked    connections on which a request for backups is unanswered  *)
(* pool.old      those with an unanswered join of the old protocol         *)
(* pool.version  server_version_ = 200: fronts that know backup requests   *)
(* pool.cool     more than 10 seconds have passed since last_change_main_  *)
(***************************************************************************)
TcpStatus == {"NONE", "TCP_INIT", "TCP_CONNECT", "TCP_ENCODE", "TCP_LOGIN"}
UdpStatus == {"INIT", "UDP_CONNECT", "UDP_LOGIN"}
Message   == {"none", "ALL", "SEQUENCE"}
InfoStatus == {"NULL", "connecting", "alive", "dead"}

Members(p)  == {p.conns[i] : i \in 1 .. Len(p.conns)}
LoggedIn(p) == {a \in Addr : p.tcp[a] = "TCP_LOGIN"}

\* GetFirstConnection() # NULL: the head exists and has joined.
HeadReady(p) == /\ p.conns # << >>
                /\ p.tcp[p.conns[1]] = "TCP_LOGIN"

\* The session has a main connection and it carries the full subscription.
MainServes(p) == /\ HeadReady(p)
                 /\ p.msg[p.conns[1]] = "ALL"

EmptyPool == [conns   |-> << >>,
              tcp     |-> [a \in Addr |-> "NONE"],
              udp     |-> [a \in Addr |-> "INIT"],
              msg     |-> [a \in Addr |-> "none"],
              told    |-> [a \in Addr |-> "none"],
              waiting |-> {},
              asked   |-> {},
              old     |-> {},
              version |-> FALSE,
              cool    |-> FALSE]

Init ==
  /\ pool = EmptyPool
  /\ change = FALSE
  /\ backupTimer = FALSE
  /\ info = [s \in {"main", "vice"} |-> "NULL"]

-----------------------------------------------------------------------------
(* The helpers of FrontConnectionManager.                                  *)

\* The joined connections behind the head.
Successors(p) == {i \in 2 .. Len(p.conns) : p.tcp[p.conns[i]] = "TCP_LOGIN"}

First(S) == CHOOSE i \in S : \A j \in S : i <= j

SwapFirst(p) ==
  IF Successors(p) = {} THEN p
  ELSE LET k == First(Successors(p))
       IN  [p EXCEPT !.conns = [@ EXCEPT ![1] = p.conns[k], ![k] = p.conns[1]]]

\* SetSyncMessage with ChangeOtherAsSlave: the head, once joined, gets ALL and
\* every other joined connection is told SEQUENCE unless it already has it.  A
\* head that has not joined only makes way for one that has.
Slaves(p) == LoggedIn(p) \ {p.conns[1]}

\* Fault: the main connection is promoted and the others are not told.
PromoteAlone(p) == [p EXCEPT !.msg  = [@ EXCEPT ![p.conns[1]] = "ALL"],
                             !.told = [@ EXCEPT ![p.conns[1]] = "ALL"]]

Promote(p) ==
  LET told(a) == IF a = p.conns[1] THEN "ALL"
                 ELSE IF a \in Slaves(p) /\ p.msg[a] # "SEQUENCE" THEN "SEQUENCE"
                 ELSE p.told[a]
      msg(a)  == IF a = p.conns[1] THEN "ALL"
                 ELSE IF a \in Slaves(p) THEN "SEQUENCE"
                 ELSE p.msg[a]
  IN  [p EXCEPT !.msg  = [a \in Addr |-> msg(a)],
                !.told = [a \in Addr |-> told(a)]]

\* Fault: a head that has not joined is left where it is.
SetSyncMessageNoSwap(p) ==
  IF HeadReady(p) /\ p.msg[p.conns[1]] # "ALL" THEN Promote(p) ELSE p

SetSyncMessage(p) ==
  IF p.conns = << >> THEN p
  ELSE IF ~ HeadReady(p) THEN SwapFirst(p)
  ELSE IF p.msg[p.conns[1]] # "ALL" THEN Promote(p)
  ELSE p

\* SessionImp::GetBackUpFronts: sent on the head, dropped unless it has joined.
GetBackUpFronts(p) ==
  IF p.version /\ HeadReady(p) THEN [p EXCEPT !.asked = @ \cup {p.conns[1]}]
  ELSE p

\* The connection's object goes: a later one to this address starts afresh.
Forget(p, a) == [p EXCEPT !.tcp     = [@ EXCEPT ![a] = "NONE"],
                          !.udp     = [@ EXCEPT ![a] = "INIT"],
                          !.msg     = [@ EXCEPT ![a] = "none"],
                          !.told    = [@ EXCEPT ![a] = "none"],
                          !.waiting = @ \ {a},
                          !.asked   = @ \ {a},
                          !.old     = @ \ {a}]

Position(p, a) == CHOOSE i \in 1 .. Len(p.conns) : p.conns[i] = a

Without(s, k) == [i \in 1 .. Len(s) - 1 |-> IF i < k THEN s[i] ELSE s[i + 1]]

EraseConnection(p, a) ==
  [Forget(p, a) EXCEPT !.conns = Without(p.conns, Position(p, a))]

\* A connection that has been started: StartTcp leaves it in FS_TCP_INIT.
Insert(p, s) ==
  [p EXCEPT !.conns = p.conns \o s,
            !.tcp   = [a \in Addr |-> IF \E i \in 1 .. Len(s) : s[i] = a
                                      THEN "TCP_INIT" ELSE p.tcp[a]]]

\* The end of TcpConnectionClose, once the connection is out of the list (the
\* call to Relogin when nothing is left belongs to the session), and of
\* CheckBackup.
Refresh(p) ==
  SetSyncMessage(IF Len(p.conns) = 1 THEN GetBackUpFronts(p) ELSE p)

\* Faults: no throttle; two joined connections are enough to close one; the new
\* head is not subscribed.
ChangeFirstAtOnce(p) ==
  IF Cardinality(LoggedIn(p)) <= 2
  THEN SetSyncMessage(SwapFirst(GetBackUpFronts(p)))
  ELSE SetSyncMessage(SwapFirst(EraseConnection(p, p.conns[1])))

ChangeFirstOfTwo(p) ==
  LET q == [p EXCEPT !.cool = FALSE]
  IN  IF ~ p.cool THEN p
      ELSE IF Cardinality(LoggedIn(p)) < 2
           THEN SetSyncMessage(SwapFirst(GetBackUpFronts(q)))
           ELSE SetSyncMessage(SwapFirst(EraseConnection(q, p.conns[1])))

ChangeFirstSilent(p) ==
  LET q == [p EXCEPT !.cool = FALSE]
  IN  IF ~ p.cool THEN p
      ELSE IF Cardinality(LoggedIn(p)) <= 2
           THEN SetSyncMessage(SwapFirst(GetBackUpFronts(q)))
           ELSE SwapFirst(EraseConnection(q, p.conns[1]))

\* With more than two joined connections ChangeFirst erases and closes what
\* GetFirstConnection returns.  That is NULL when the head has not joined, and the
\* program ends there.  No handler runs after such a call, so it is no step here;
\* another handler may still run instead of it.
NullClose(p) == /\ p.cool
                /\ Cardinality(LoggedIn(p)) > 2
                /\ ~ HeadReady(p)

\* ChangeFirst: at most one forced change in ten seconds; with fewer than three
\* joined connections the main one is only moved back, not closed.
ChangeFirst(p) ==
  LET q == [p EXCEPT !.cool = FALSE]
  IN  IF ~ p.cool THEN p
      ELSE IF Cardinality(LoggedIn(p)) <= 2
           THEN SetSyncMessage(SwapFirst(GetBackUpFronts(q)))
           ELSE SetSyncMessage(SwapFirst(EraseConnection(q, p.conns[1])))

-----------------------------------------------------------------------------
(* SInfoFront: two sockets that carry requests for user information.       *)

InfoAllAlive(i) == \A s \in DOMAIN i : i[s] = "alive"

\* A socket whose connect call fails at once is kept, and gets no more events.
\* Fault: the second socket is never opened.
InfoStartMain(i, fails) ==
  IF i["main"] = "NULL"
  THEN [i EXCEPT !["main"] = IF fails THEN "dead" ELSE "connecting"]
  ELSE i

InfoStart(i, fails) ==
  LET new == IF fails THEN "dead" ELSE "connecting"
  IN  IF InfoAllAlive(i) THEN i
      ELSE IF i["main"] = "NULL" THEN [i EXCEPT !["main"] = new]
      ELSE IF i["vice"] = "NULL" THEN [i EXCEPT !["vice"] = new]
      ELSE i

\* The sockets after n calls; from the third on a call changes nothing.
InfoStarts(n) ==
  IF n = 0 THEN {info}
  ELSE LET once == {InfoStart(info, fails) : fails \in BOOLEAN}
       IN  IF n = 1 THEN once
           ELSE {InfoStart(i, fails) : i \in once, fails \in BOOLEAN}

InfoConnected(s) ==
  /\ info[s] = "connecting"
  /\ info' = [info EXCEPT ![s] = "alive"]
  /\ UNCHANGED <<pool, change, backupTimer>>

InfoClosed(s) ==
  /\ info[s] \in {"connecting", "alive"}
  /\ info' = [info EXCEPT ![s] = "NULL"]
  /\ UNCHANGED <<pool, change, backupTimer>>

-----------------------------------------------------------------------------
(* Starting connections.                                                   *)

\* Fault: the address is not looked up.
CanStartTwice(a) == Len(pool.conns) < PoolLimit

CanStart(a) == Len(pool.conns) < PoolLimit /\ a \notin Members(pool)

\* Start, called with the address the LBS returned.  AsynConnect may fail at
\* once: onclose then runs inside StartTcp and the connection is gone again.
Start(a, fails) ==
  /\ info' \in InfoStarts(1)
  /\ IF CanStart(a)
     THEN /\ pool' = IF fails THEN Refresh(pool) ELSE Insert(pool, <<a>>)
          /\ backupTimer' = TRUE
     ELSE UNCHANGED <<pool, backupTimer>>
  /\ UNCHANGED change

\* Lists without repetition over S, of at most n elements.
Lists(S, n) ==
  UNION {{s \in [1 .. k -> S] : \A i, j \in 1 .. k : s[i] = s[j] => i = j}
           : k \in 0 .. n}

\* OnGetBackUpProtocolFrontsRes: Start for up to four addresses in turn.  What
\* is new in the reply, and fits, ends up behind the connections there are.  A
\* connect that fails at once matters only while the pool is still as it was:
\* later on there is nothing for Refresh to do.  Every call may start a socket
\* of sinfo_front_.  More than one request can be open.
BackupRes(a, added, fails, last) ==
  /\ a \in pool.asked
  /\ fails => Len(pool.conns) < PoolLimit
  /\ LET p == IF fails THEN Refresh(pool) ELSE pool
         q == Insert(p, added)
     IN  pool' = IF last THEN [q EXCEPT !.asked = @ \ {a}] ELSE q
  /\ \E n \in 0 .. 2 : /\ n = 2 \/ n >= Len(added) + (IF fails THEN 1 ELSE 0)
                       /\ info' \in InfoStarts(n)
  /\ UNCHANGED <<change, backupTimer>>

NewFronts == Lists(Addr \ Members(pool), PoolLimit - Len(pool.conns))

-----------------------------------------------------------------------------
(* The life of one connection.                                             *)

\* oncreate: the key exchange is sent.
Connected(a) ==
  /\ pool.tcp[a] = "TCP_INIT"
  /\ pool' = [pool EXCEPT !.tcp = [@ EXCEPT ![a] = "TCP_CONNECT"],
                          !.waiting = @ \cup {a}]
  /\ UNCHANGED <<change, backupTimer, info>>

\* OnExchangeKeyRes, success: SessionImp::Login sends the join at once.  Which of
\* four joins depends on the port and the token the session has by then, which a
\* later reply of the LBS may change: PJoinSession is of the new protocol and marks
\* the server as one that answers requests for backups, the two others are old.
KeyExchanged(a, modern) ==
  /\ pool.tcp[a] = "TCP_CONNECT"
  /\ a \in pool.waiting
  /\ pool' = [pool EXCEPT !.tcp = [@ EXCEPT ![a] = "TCP_ENCODE"],
                          !.version = @ \/ modern,
                          !.old = IF modern THEN @ ELSE @ \cup {a}]
  /\ UNCHANGED <<change, backupTimer, info>>

\* OnExchangeKeyRes, and both kinds of answers to a join, failure: the connection
\* stays as it is and nothing else will be sent on it.
Refused(a) ==
  /\ a \in pool.waiting
  /\ pool' = [pool EXCEPT !.waiting = @ \ {a}, !.old = @ \ {a}]
  /\ UNCHANGED <<change, backupTimer, info>>

\* LoginSuccess: tcp_status_ moves on and the UDP socket is started.
LoginSuccess(p, a) ==
  [p EXCEPT !.tcp     = [@ EXCEPT ![a] = "TCP_LOGIN"],
            !.udp     = [@ EXCEPT ![a] = IF UdpEnabled THEN "UDP_CONNECT"
                                         ELSE p.udp[a]],
            !.waiting = @ \ {a},
            !.old     = @ \ {a}]

\* OnJoinSesionRes, success: the first connection of the session to join asks for
\* everything, the others for the sequenced messages only.  message_status_ is
\* set, SetSyncMessage runs, and only then the subscription is written, whatever
\* SetSyncMessage has made of it.
\* Fault: the subscription is recorded and not written.
SubscribeSilently(p, a, m) ==
  SetSyncMessage([p EXCEPT !.msg = [@ EXCEPT ![a] = m]])

Subscribe(p, a, m) ==
  LET q == SetSyncMessage([p EXCEPT !.msg = [@ EXCEPT ![a] = m]])
  IN  [q EXCEPT !.told = [@ EXCEPT ![a] = m]]

Joined(a) ==
  /\ pool.tcp[a] = "TCP_ENCODE"
  /\ a \in pool.waiting \ pool.old
  /\ LET m == IF LoggedIn(pool) = {} THEN "ALL" ELSE "SEQUENCE"
     IN  pool' = Subscribe(LoginSuccess(pool, a), a, m)
  /\ UNCHANGED <<change, backupTimer, info>>

\* _onSync, which answers a join of the old protocol, does no more with the pool:
\* the connection has joined, is given no subscription, and a head that has not
\* joined stays the head until something else runs SetSyncMessage.
Synced(a) ==
  /\ pool.tcp[a] = "TCP_ENCODE"
  /\ a \in pool.old
  /\ pool' = LoginSuccess(pool, a)
  /\ UNCHANGED <<change, backupTimer, info>>

\* OnGetSessionMainRes: the answer to the first connection that joined makes the
\* session ask for a backup, however many fronts it has by then.  It may come
\* more often here than it is asked for.
SessionMain ==
  /\ LoggedIn(pool) # {}
  /\ pool' = GetBackUpFronts(pool)
  /\ UNCHANGED <<change, backupTimer, info>>

\* onclose on the TCP socket, then TcpConnectionClose.
Closed(a) ==
  /\ a \in Members(pool)
  /\ pool' = Refresh(EraseConnection(pool, a))
  /\ UNCHANGED <<change, backupTimer, info>>

\* Fault: the enumerator of the TCP side is assigned to udp_status_.
UdpTimeoutTcp(a) ==
  /\ pool.udp[a] # "INIT"
  /\ pool' = [pool EXCEPT !.udp = [@ EXCEPT ![a] = "TCP_INIT"]]
  /\ UNCHANGED <<change, backupTimer, info>>

\* onUdpConnected, then RegisterUdpSuccess: three registrations were sent, so
\* an answer may come at any time, also after the client gave UDP up.
UdpRegistered(a) ==
  /\ pool.udp[a] = "UDP_CONNECT"
  /\ pool' = [pool EXCEPT !.udp = [@ EXCEPT ![a] = "UDP_LOGIN"]]
  /\ UNCHANGED <<change, backupTimer, info>>

\* UdpKeepAlive after ten silent periods: PUdpClose, and the timer is stopped.
UdpTimeout(a) ==
  /\ pool.udp[a] # "INIT"
  /\ pool' = [pool EXCEPT !.udp = [@ EXCEPT ![a] = "INIT"]]
  /\ UNCHANGED <<change, backupTimer, info>>

-----------------------------------------------------------------------------
(* Changing the main connection, and the ten-second timer.                 *)

\* OnPacketLossChangeBad and OnPacketLossTooMuch call ChangeMain.
ChangeMain ==
  /\ ~ NullClose(pool)
  /\ pool' = ChangeFirst(pool)
  /\ UNCHANGED <<change, backupTimer, info>>

\* OnVoiceRes, with too few acknowledgements.
ChangeFirstNextTime ==
  /\ change' = TRUE
  /\ UNCHANGED <<pool, backupTimer, info>>


\* The request is served now or, within ten seconds of the last change, dropped.
CheckBackup ==
  /\ backupTimer
  /\ ~ (change /\ NullClose(pool))
  /\ change' = FALSE
  /\ UNCHANGED backupTimer
  /\ \E p \in {IF change THEN ChangeFirst(pool) ELSE pool} :
       /\ pool' = Refresh(p)
       /\ info' \in InfoStarts(IF p.conns = << >> THEN 0 ELSE 1)

\* Ten seconds have passed since the last forced change.
Cooled ==
  /\ pool' = [pool EXCEPT !.cool = TRUE]
  /\ UNCHANGED <<change, backupTimer, info>>

-----------------------------------------------------------------------------
Handshake(a) == \/ Connected(a)
                \/ \E modern \in BOOLEAN : KeyExchanged(a, modern)
                \/ Refused(a)
                \/ Joined(a)
                \/ Synced(a)
                \/ Closed(a)

Udp(a) == UdpRegistered(a) \/ UdpTimeout(a)

Grow == \/ \E a \in Addr, fails \in BOOLEAN : Start(a, fails)
        \/ \E a \in pool.asked, added \in NewFronts, fails, last \in BOOLEAN :
             BackupRes(a, added, fails, last)

Next == \/ Grow
        \/ \E a \in Addr : Handshake(a) \/ Udp(a)
        \/ \E s \in {"main", "vice"} : InfoConnected(s) \/ InfoClosed(s)
        \/ SessionMain
        \/ ChangeMain
        \/ ChangeFirstNextTime
        \/ CheckBackup
        \/ Cooled

Spec == Init /\ [][Next]_vars

\* backup_timer_ posts its message again every ten seconds until it is stopped,
\* and nothing stops it.
FairSpec == Spec /\ WF_vars(CheckBackup)

-----------------------------------------------------------------------------
(* Safety.                                                                 *)

TypeOK ==
  /\ pool \in [conns   : Seq(Addr),
               tcp     : [Addr -> TcpStatus],
               udp     : [Addr -> UdpStatus],
               msg     : [Addr -> Message],
               told    : [Addr -> Message],
               waiting : SUBSET Addr,
               asked   : SUBSET Addr,
               old     : SUBSET Addr,
               version : BOOLEAN,
               cool    : BOOLEAN]
  /\ change \in BOOLEAN
  /\ backupTimer \in BOOLEAN
  /\ info \in [{"main", "vice"} -> InfoStatus]

\* No front is connected twice, whatever mix of LBS replies, backup replies and
\* failing connects fills the list, and the list stays within its limit.
NoDuplicates ==
  /\ Len(pool.conns) <= PoolLimit
  /\ \A i, j \in 1 .. Len(pool.conns) : pool.conns[i] = pool.conns[j] => i = j

\* Once any joined connection has been given a subscription, as every join of the
\* new protocol does, the head of the list has joined: otherwise every request would
\* be dropped (SendRequest goes through GetFirstConnection).  So ChangeFirst calls
\* Close on a null connection only while everybody who has joined did so in the old
\* protocol and has heard nothing since: _onSync does not call SetSyncMessage.
HeadLoggedIn ==
  (\E a \in LoggedIn(pool) : pool.msg[a] # "none") => HeadReady(pool)

\* At most one connection is subscribed to all messages, and it is the joined
\* head; a second one would deliver every unsequenced message twice.
OneMain ==
  \A a \in Addr : pool.msg[a] = "ALL" => /\ HeadReady(pool)
                                         /\ a = pool.conns[1]

\* What a front was last told is what the client believes, and who has joined in
\* the new protocol was told something: the join handler sets message_status_, lets
\* SetSyncMessage run and writes only then.  One order of joins breaks it: the head
\* joins in the new protocol after others joined in the old one.  It is taken for
\* a second one, promoted within the handler, and then told SEQUENCE; it stays so
\* for as long as it is the head, and no other step lets belief and word part.
ToldAgrees ==
  [][\A a \in LoggedIn(pool') :
       /\ Joined(a) => pool'.msg[a] # "none"
       /\ \/ pool'.told[a] = pool'.msg[a]
          \/ /\ a = pool'.conns[1]
             /\ \/ pool.told[a] # pool.msg[a]
                \/ Joined(a) /\ a = pool.conns[1] /\ LoggedIn(pool) # {}]_vars

\* The session loses its main connection only when that one's own socket closes:
\* no change of the main connection, backup reply, failed connect or join of
\* another front leaves a gap, not even within a handler's step.
MainLostOnlyByClose ==
  [][MainServes(pool) /\ ~ MainServes(pool)' => Closed(pool.conns[1])]_vars

\* front_connection.h:298, "to prevent too many changes of the main link": a main
\* connection that works is replaced only after ten quiet seconds, which start
\* again; no other path moves a working head.
ChangesThrottled ==
  [][HeadReady(pool) /\ pool'.conns # << >> /\ pool'.conns[1] # pool.conns[1]
       => (pool.cool /\ ~ pool'.cool) \/ Closed(pool.conns[1])]_vars

\* A connection is given up on purpose only while two others remain joined.
GiveUpLeavesTwo ==
  [][\A a \in LoggedIn(pool) :
       a \notin Members(pool') => \/ Cardinality(LoggedIn(pool')) >= 2
                                 \/ Closed(a)]_vars

-----------------------------------------------------------------------------
(* Liveness.                                                               *)


\* A lost socket for user information is opened again (the second one, once the
\* first is there) as long as there are fronts to ask.
InfoRestored ==
  \A s \in {"main", "vice"} :
    info[s] = "NULL" /\ pool.conns # << >>
      ~> \/ info[s] # "NULL"
         \/ pool.conns = << >>
         \/ s = "vice" /\ info["main"] = "NULL"
=============================================================================
