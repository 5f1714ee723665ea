------------------------------- MODULE Login --------------------------------
(***************************************************************************)
(* The login on the main link (src/xproto/Login.cpp): classes Login and    *)
(* LbsFetcher, and what Login starts in PingServerManager.                 *)
(*                                                                         *)
(* A login asks the LBS for a link server, connects to it, exchanges keys  *)
(* and sends the credentials.  Four repeating timers watch over it: one for*)
(* the answer of the LBS, one for the attempt, one for the heartbeat and   *)
(* one that waits before the next attempt.  Servers that served earlier    *)
(* logins are pinged when the LBS is late, and the first that answers is   *)
(* used.  Sockets, timers and pings deliver to the UI thread, so a handler *)
(* with every call it makes is one action.  notifyStatus, cancel, reLogin  *)
(* and realLogin call one another: they are functions on the record login, *)
(* and realLogin, whose connect may fail at once, gives a set of results.  *)
(***************************************************************************)
EXTENDS Naturals

CONSTANTS
  MaxRetime,   \* MAX_RETIME, 5 in the code
  PingMax,     \* heartbeats without an answer before ping logs in again; 3
  Histories    \* bound of the model: history pings under way at a time

ASSUME LoginAssumption == /\ MaxRetime \in Nat \ {0}
                          /\ PingMax \in Nat
                          /\ Histories \in Nat

VARIABLES
  login,   \* the object, its socket and timers
  pings    \* pings of history servers that will still call back

vars == <<login, pings>>

(***************************************************************************)
(* login.stat        __stat                                                *)
(* login.told        the status onLoginStatus last gave to the watchers    *)
(* login.succ        __logSuccTime # 0                                     *)
(* login.fails       __relogFailTime                                       *)
(* login.pingCount   __pingCount                                           *)
(* login.ip          __linkIp is set                                       *)
(* login.ports       __linkPorts is not empty                              *)
(* login.sock        __socket: none, or how far its connection has come    *)
(* login.lbs         a socket of LbsFetcher is open and may bring an answer*)
(* login.loginTimer, pingTimer, waitTimer, lbsTimer: __loginTimer,         *)
(*                   __pingTimer, __relogWaitTimer and lbs_timer_ run      *)
(*                                                                         *)
(* status_ of LbsFetcher is not kept: it is 1 only while its sockets are   *)
(* closed and its timer is stopped, when nobody looks at it.               *)
(***************************************************************************)
\* Statuses that notifyStatus treats as the loss of the connection, those after
\* which it gives up the attempt, and the others.
NetErrors == {"LBS_NET_ERROR", "LINK_NET_ERROR", "NET_BROKEN"}

\* Fault: logging out does not cancel.
FinalButLogout == {"PASSWD_ERROR", "KICKOFF", "PROTOCOL_OLD", "LINK_KEY_ERROR"}

Final == {"PASSWD_ERROR", "KICKOFF", "LOGOUT", "PROTOCOL_OLD", "LINK_KEY_ERROR"}

Others == {"LINK_LBS", "LINK_AUTH", "EXCHANGE_PASSWORD", "LOGIN_SUCCESS",
           "LBS_ERROR", "LBS_SHUTDOWN", "BLACK_ACCOUNT", "UNKNOWN", "LOGIN_TIMEOUT"}
Status == {"LINK_INIT", "LOGOUT"} \cup NetErrors \cup Final \cup Others
Successes == {"LOGIN_SUCCESS", "RELOGIN_SUCCESS"}
Sock      == {"none", "connecting", "keying", "entering", "in", "refused"}

\* __stat is not initialised: the object may start with any value in it.
Init ==
  /\ \E s \in Status :
       login = [stat |-> s, told |-> "none", succ |-> FALSE, fails |-> 0,
                pingCount |-> 0, ip |-> FALSE, ports |-> FALSE, sock |-> "none",
                lbs |-> FALSE, loginTimer |-> FALSE, pingTimer |-> FALSE,
                waitTimer |-> FALSE, lbsTimer |-> FALSE]
  /\ pings = 0

-----------------------------------------------------------------------------
(* Methods that the handlers share.                                        *)

\* Faults: the count of heartbeats, or the status, outlives the attempt.
CancelKeepsCount(l) ==
  LET q == [l EXCEPT !.loginTimer = FALSE, !.stat = "LINK_INIT"]
  IN  IF l.stat = "LOGIN_SUCCESS" THEN q
      ELSE [q EXCEPT !.sock = "none", !.lbs = FALSE, !.lbsTimer = FALSE]

CancelKeepsStatus(l) ==
  LET q == [l EXCEPT !.pingCount = 0, !.loginTimer = FALSE]
  IN  IF l.stat = "LOGIN_SUCCESS" THEN q
      ELSE [q EXCEPT !.sock = "none", !.lbs = FALSE, !.lbsTimer = FALSE]

\* cancel: an established login keeps its socket, and a lookup that may be under
\* way.
Cancel(l) ==
  LET q == [l EXCEPT !.pingCount = 0, !.loginTimer = FALSE, !.stat = "LINK_INIT"]
  IN  IF l.stat = "LOGIN_SUCCESS" THEN q
      ELSE [q EXCEPT !.sock = "none", !.lbs = FALSE, !.lbsTimer = FALSE]

\* Fault: the attempt is not counted.
ReLoginUncounted(l) ==
  [Cancel(l) EXCEPT !.ip = FALSE, !.ports = FALSE,
                    !.waitTimer = TRUE, !.pingTimer = FALSE]

\* reLogin(true): the next attempt waits for a timer.
ReLogin(l) ==
  [Cancel(l) EXCEPT !.ip = FALSE, !.ports = FALSE, !.fails = @ + 1,
                    !.waitTimer = TRUE, !.pingTimer = FALSE]

\* What the watchers hear: nothing of the attempts to log in again, unless one
\* succeeds.
Report(l, s) ==
  IF l.fails = 0 THEN [l EXCEPT !.told = s]
  ELSE IF s = "LOGIN_SUCCESS" THEN [l EXCEPT !.told = "RELOGIN_SUCCESS", !.fails = 0]
  ELSE l

\* Fault: there is no limit to the attempts.
MayRetryAlways(l) == l.succ

MayRetry(l) == l.succ /\ l.fails < MaxRetime

\* notifyStatus.
Notify(l, s) ==
  LET n == [l EXCEPT !.stat = s]
  IN  IF s \in NetErrors
      THEN IF MayRetry(n) THEN ReLogin(n) ELSE Cancel([n EXCEPT !.told = s])
      ELSE IF s \in Final THEN Report(Cancel(n), s)
      ELSE Report(n, s)

\* LbsFetcher::start.  A connect that fails is not reported to Login.
LbsStart(l) == Notify([l EXCEPT !.lbs = TRUE, !.lbsTimer = TRUE], "LINK_LBS")

\* realLogin.  The socket there was is destroyed by the assignment; the connect
\* of the new one goes on, or fails at once and calls onclose.
RealLogin(l) ==
  IF l.stat \in {"EXCHANGE_PASSWORD", "LOGIN_SUCCESS"} THEN {l}
  ELSE IF ~ l.ip THEN {LbsStart(l)}
  ELSE IF ~ l.ports THEN {Notify(l, "LBS_NET_ERROR")}
  ELSE LET c == [l EXCEPT !.sock = "connecting"]
       IN  {c, Notify(c, "LINK_NET_ERROR")}

\* doLbs.
DoLbs(l, ports) ==
  RealLogin(Notify([l EXCEPT !.ip = TRUE, !.ports = ports], "LINK_AUTH"))

-----------------------------------------------------------------------------
(* The user.                                                               *)

\* doLogin and doLoginByToken, with reLogin(false).
DoLogin ==
  /\ IF login.stat = "LOGIN_SUCCESS" THEN login' = [login EXCEPT !.succ = FALSE]
     ELSE login' = LbsStart([Cancel(login) EXCEPT !.succ = FALSE, !.fails = 0,
                                                  !.ip = FALSE, !.ports = FALSE])
  /\ UNCHANGED pings

\* CProtoLink::cancelLogin.
CancelLogin ==
  /\ login' = Cancel(login)
  /\ UNCHANGED pings

LoggedOut(l) ==
  Notify([Cancel(l) EXCEPT !.sock = "none", !.fails = 0, !.pingTimer = FALSE], "LOGOUT")

DoLogout ==
  /\ login' = LoggedOut(login)
  /\ UNCHANGED pings

-----------------------------------------------------------------------------
(* The LBS and the history servers.                                        *)

LbsDone(l) == [l EXCEPT !.lbs = FALSE, !.lbsTimer = FALSE]

\* onLbs, success: the reply names a link server and, in general, its ports.
LbsRes(ports) ==
  /\ login.lbs
  /\ login' \in {LbsDone(l) : l \in DoLbs(login, ports)}
  /\ UNCHANGED pings

\* onLbs, failure: the client is too old, or something else is wrong.
LbsRefused(s) ==
  /\ login.lbs
  /\ login' = LbsDone(Notify(login, s))
  /\ UNCHANGED pings

\* onServerShutDown: the timer goes on.
LbsShutDown ==
  /\ login.lbs
  /\ login' = [Notify(login, "LBS_SHUTDOWN") EXCEPT !.lbs = FALSE]
  /\ UNCHANGED pings

\* onclose of LbsFetcher does nothing.
LbsLost ==
  /\ login.lbs
  /\ login' = [login EXCEPT !.lbs = FALSE]
  /\ UNCHANGED pings

\* OnLbsTimeout and TryHistorys: the servers on record are pinged.
LbsTimeout ==
  /\ login.lbsTimer
  /\ login' = LbsDone(login)
  /\ pings' \in pings .. Histories

\* OnPingCallBack, with an answer: the server is used if none is known by now.
HistoryAnswers ==
  /\ pings > 0
  /\ pings' = pings - 1
  /\ IF login.ip THEN UNCHANGED login ELSE login' \in DoLbs(login, TRUE)

\* OnPingCallBack without an answer, after five seconds.
HistorySilent ==
  /\ pings > 0
  /\ pings' = pings - 1
  /\ UNCHANGED login

-----------------------------------------------------------------------------
(* The connection to the link server.                                      *)

\* Fault: the timer of the attempt is not started.
ConnectedUntimed ==
  /\ login.sock = "connecting"
  /\ login' = Notify([login EXCEPT !.sock = "keying"], "EXCHANGE_PASSWORD")
  /\ UNCHANGED pings

\* oncreate: the public key is sent.
Connected ==
  /\ login.sock = "connecting"
  /\ login' = Notify([login EXCEPT !.sock = "keying", !.loginTimer = TRUE],
                     "EXCHANGE_PASSWORD")
  /\ UNCHANGED pings

\* onclose.
Closed ==
  /\ login.sock # "none"
  /\ login' = Notify(login, "LINK_NET_ERROR")
  /\ UNCHANGED pings

\* onExchangeKey: the credentials are sent.
KeyExchanged ==
  /\ login.sock = "keying"
  /\ login' = [login EXCEPT !.sock = "entering"]
  /\ UNCHANGED pings

KeyRefused ==
  /\ login.sock = "keying"
  /\ login' = Notify(login, "LINK_KEY_ERROR")
  /\ UNCHANGED pings

\* onLogin, success: onLoginSuccess.
LoginSuccess ==
  /\ login.sock = "entering"
  /\ LET l == [login EXCEPT !.sock = "in", !.loginTimer = FALSE, !.pingTimer = TRUE]
     IN  login' = [Notify(l, "LOGIN_SUCCESS") EXCEPT !.succ = TRUE]
  /\ UNCHANGED pings

\* onLogin, an error of the login itself: onLoginError.  Of the two kinds one
\* cancels the attempt and one leaves the socket as it is.
LoginError(s) ==
  /\ login.sock = "entering"
  /\ login' = Notify([login EXCEPT !.sock = "refused", !.loginTimer = FALSE], s)
  /\ UNCHANGED pings

\* onLogin, the request failed.
LoginFailed ==
  /\ login.sock = "entering"
  /\ login' = Notify([login EXCEPT !.sock = "refused"], "UNKNOWN")
  /\ UNCHANGED pings

\* onKick: a logout, then the news of the kick.
Kicked ==
  /\ login.sock = "in"
  /\ login' = Notify(LoggedOut(login), "KICKOFF")
  /\ UNCHANGED pings

\* onPing: the server has answered a heartbeat.
Pong ==
  /\ login.sock \in {"keying", "entering", "in"} /\ login.pingCount > 0
  /\ login' = [login EXCEPT !.pingCount = 0]
  /\ UNCHANGED pings

-----------------------------------------------------------------------------
(* Timers.                                                                 *)

\* ping.
Ping ==
  /\ login.pingTimer
  /\ login' = LET l == [login EXCEPT !.pingCount = @ + 1]
              IN  IF login.pingCount >= PingMax THEN ReLogin(l) ELSE l
  /\ UNCHANGED pings

\* Fault: the timer is stopped and the attempt left alone.
LoginTimeoutQuiet ==
  /\ login.loginTimer
  /\ login' = [login EXCEPT !.loginTimer = FALSE]
  /\ UNCHANGED pings

\* onLoginTimeout.
LoginTimeout ==
  /\ login.loginTimer
  /\ login' = IF login.stat = "LOGIN_SUCCESS" THEN [login EXCEPT !.loginTimer = FALSE]
              ELSE Notify(Cancel(login),
                          IF login.fails = 0 THEN "LOGIN_TIMEOUT" ELSE "NET_BROKEN")
  /\ UNCHANGED pings

\* realRelog: the timer is stopped last, even if realLogin has just started it.
RealRelog ==
  /\ login.waitTimer
  /\ login' \in {[l EXCEPT !.waitTimer = FALSE] :
                   l \in RealLogin([login EXCEPT !.loginTimer = TRUE])}
  /\ UNCHANGED pings

-----------------------------------------------------------------------------
User == DoLogin \/ CancelLogin \/ DoLogout

Lbs == \/ \E ports \in BOOLEAN : LbsRes(ports)
       \/ \E s \in {"PROTOCOL_OLD", "LBS_ERROR"} : LbsRefused(s)
       \/ LbsShutDown \/ LbsLost \/ LbsTimeout
       \/ HistoryAnswers \/ HistorySilent

Link == \/ Connected \/ Closed
        \/ KeyExchanged \/ KeyRefused
        \/ LoginSuccess \/ LoginFailed
        \/ \E s \in {"PASSWD_ERROR", "BLACK_ACCOUNT"} : LoginError(s)
        \/ Kicked \/ Pong

Timers == Ping \/ LoginTimeout \/ RealRelog

Next == User \/ Lbs \/ Link \/ Timers

Spec == Init /\ [][Next]_vars

\* The timers repeat until they are stopped, and a TCP connect is accepted or
\* fails in the end.
FairSpec == /\ Spec
            /\ WF_vars(LbsTimeout) /\ WF_vars(LoginTimeout) /\ WF_vars(RealRelog)
            /\ WF_vars(Connected \/ (login.sock = "connecting" /\ Closed))

-----------------------------------------------------------------------------
TypeOK ==
  /\ login \in [stat : Status, told : Status \cup {"none", "RELOGIN_SUCCESS"},
                succ : BOOLEAN, fails : Nat, pingCount : 0 .. PingMax,
                ip : BOOLEAN, ports : BOOLEAN, sock : Sock, lbs : BOOLEAN,
                loginTimer : BOOLEAN, pingTimer : BOOLEAN,
                waitTimer : BOOLEAN, lbsTimer : BOOLEAN]
  /\ pings \in 0 .. Histories

\* Something has been done with the object: __stat has a value of the program's.
Begun == login.told # "none"

\* MAX_RETIME bounds the attempts, although only notifyStatus compares with it:
\* ping() starts attempts too, and never when others are counted.
RetriesBounded == /\ login.fails <= MaxRetime
                  /\ login.pingTimer => login.fails = 0

\* Who is logged in has a connection that is, a heartbeat that watches it, no
\* open retry count, and watchers who know.
LoggedInWhole ==
  Begun /\ login.stat = "LOGIN_SUCCESS" =>
    /\ login.sock = "in" /\ login.pingTimer
    /\ login.fails = 0
    /\ login.told \in Successes

\* From the key exchange on, an attempt has its timer.
AttemptGuarded == Begun /\ login.stat = "EXCHANGE_PASSWORD" => login.loginTimer

\* A logout, or a kick, leaves nothing of the login behind but the timer of a
\* pending retry and pings: cancel() alone would, as it spares the socket and
\* the lookup of an established login.
LogoutComplete ==
  [][DoLogout \/ Kicked =>
       /\ login'.stat = "LINK_INIT" /\ login'.sock = "none" /\ ~ login'.lbs
       /\ ~ (login'.loginTimer \/ login'.pingTimer \/ login'.lbsTimer)
       /\ login'.fails = 0 /\ login'.told \in {"LOGOUT", "KICKOFF"}]_vars

\* An attempt that has found a server ends, whatever the server does.
Attempting == Begun /\ login.stat \in {"LINK_AUTH", "EXCHANGE_PASSWORD"}

AttemptEnds == Attempting ~> ~ Attempting

\* A client that gets no login through stops trying, unless the user keeps asking
\* for another, or keeps resetting the count by a logout.
RetriesStop ==
  \/ []<><<DoLogin \/ DoLogout>>_vars
  \/ []<>(login.stat = "LOGIN_SUCCESS")
  \/ <>[] ~ (login.waitTimer \/ login.loginTimer \/ login.lbsTimer)

\* Login.cpp:663, of realLogin: "if success or login , return".  A reply of the
\* LBS leaves a login that is established or under way as it is.
LoginNotRestarted ==
  [][login.stat \in {"EXCHANGE_PASSWORD", "LOGIN_SUCCESS"} /\ Begun
     /\ (\E ports \in BOOLEAN : LbsRes(ports)) => login'.stat = login.stat]_vars
=============================================================================
