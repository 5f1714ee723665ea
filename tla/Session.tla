------------------------------- MODULE Session -------------------------------
(***************************************************************************)
(* A voice session as a whole: the manager that looks its front server up  *)
(* (SessionManager) and the pool of connections of the session object it   *)
(* holds (FrontConnectionManager).                                         *)
(*                                                                         *)
(* The two meet in SessionImp: a reply of the LBS starts a connection, the *)
(* loss of the last connection asks the LBS again, within one handler, and *)
(* the pool lives and dies with the session object.                        *)
(***************************************************************************)
EXTENDS Naturals, Sequences

CONSTANTS Addr, PoolLimit, UdpEnabled, Room, NoRoom, LbsMaxTime, LookupBound

\* What the two components assume of them.
ASSUME SessionAssumption == /\ PoolLimit \in Nat \ {0}
                            /\ UdpEnabled \in BOOLEAN
                            /\ NoRoom \notin Room
                            /\ LbsMaxTime \in Nat
                            /\ LookupBound \in Nat /\ LookupBound > LbsMaxTime

VARIABLES pool, change, backupTimer, info,
          session, sid, status, relbstime, logTimer, asked, link, notice

\* The pool, with the lemmas about it.
Pool == INSTANCE FrontConnectionManager_proofs

\* The lookup, with the theorems about it.
Manager == INSTANCE SessionManager_proofs

poolvars == <<pool, change, backupTimer, info>>
mvars == <<session, sid, status, relbstime, logTimer, asked, link, notice>>
vars == <<pool, change, backupTimer, info,
          session, sid, status, relbstime, logTimer, asked, link, notice>>

Fresh(p, c, t) == p = Pool!EmptyPool /\ c = FALSE /\ t = FALSE

\* The two sockets for user information influence nothing else.  They stay here
\* as they are after failing both, and FrontConnectionManager looks at them.
Init ==
  /\ Manager!Init
  /\ Fresh(pool, change, backupTimer)
  /\ info = [s \in {"main", "vice"} |-> "dead"]

\* The session object is made, or let go, and its pool with it.
NewPool == Fresh(pool', change', backupTimer') /\ UNCHANGED info

-----------------------------------------------------------------------------
(* The user, the main link and the lookup timer.                           *)

Join(s) == Manager!Join(s) /\ NewPool

\* Fault: leaving starts a lookup whether or not there was a front to close.
LeaveClosing == (Manager!Leave \/ Manager!LeaveClosing) /\ NewPool

\* SessionImp::leave.
Leave ==
  /\ \/ Manager!Leave
     \/ Len(pool.conns) = 1 /\ Pool!HeadReady(pool) /\ Manager!LeaveClosing
  /\ NewPool

LinkChange == (Manager!LinkUp \/ Manager!LinkDown) /\ UNCHANGED poolvars

TimeOut ==
  /\ Manager!TimeOut
  /\ IF session' = NoRoom THEN NewPool ELSE UNCHANGED poolvars

-----------------------------------------------------------------------------
(* The replies of the LBS.                                                 *)

ReplyIgnored(s) ==
  /\ Manager!ReplyNoSession(s) \/ Manager!ReplyNoPorts(s)
  /\ UNCHANGED poolvars

ReplyError(s) == Manager!ReplyError(s) /\ NewPool

\* Fault: nobody notices that the first connection has failed at once.
ReplyStartUnnoticed(s, a, fails) ==
  /\ Pool!Start(a, fails)
  /\ Manager!ReplyStart(s)

\* onJoin, up to SessionImp::Start.  A first connection that fails at once sends
\* the session back to the LBS before onJoin returns.
ReplyStart(s, a, fails) ==
  /\ Pool!Start(a, fails)
  /\ IF pool'.conns = << >> THEN Manager!ReplyStartFails(s)
     ELSE Manager!ReplyStart(s)

-----------------------------------------------------------------------------
(* The pool.                                                               *)

\* Fault: the session is looked up again when one front is left.
ClosedEarly(a) ==
  /\ Pool!Closed(a)
  /\ IF Len(pool'.conns) <= 1 THEN Manager!Relogin
     ELSE UNCHANGED mvars

\* TcpConnectionClose.
Closed(a) ==
  /\ Pool!Closed(a)
  /\ IF pool'.conns = << >> THEN Manager!Relogin
     ELSE UNCHANGED mvars

\* Everything else the pool does on its own.
PoolStep ==
  /\ session # NoRoom
  /\ \/ \E a \in Addr :
          \/ Pool!Connected(a)
          \/ \E modern \in BOOLEAN : Pool!KeyExchanged(a, modern)
          \/ Pool!Refused(a)
          \/ Pool!Joined(a)
          \/ Pool!Synced(a)
          \/ Pool!Udp(a)
     \/ \E a \in pool.asked, added \in Pool!NewFronts, fails, last \in BOOLEAN :
          Pool!BackupRes(a, added, fails, last)
     \/ Pool!SessionMain
     \/ Pool!ChangeMain
     \/ Pool!ChangeFirstNextTime
     \/ Pool!CheckBackup
     \/ Pool!Cooled
  /\ UNCHANGED mvars

Next ==
  \/ \E s \in Room : \/ Join(s) \/ ReplyIgnored(s) \/ ReplyError(s)
                     \/ \E a \in Addr, fails \in BOOLEAN : ReplyStart(s, a, fails)
  \/ Leave \/ LinkChange \/ TimeOut
  \/ \E a \in Addr : Closed(a)
  \/ PoolStep

Spec == Init /\ [][Next]_vars

\* The timer of a lookup repeats until it is stopped.
FairSpec == Spec /\ WF_vars(TimeOut)

-----------------------------------------------------------------------------
\* A session without any front is being looked up, with the timer armed, unless
\* its user has been told that the LBS knew no port for it: no order of joins,
\* late replies, closes and failing connects strands it silently.
NotStranded ==
  session # NoRoom /\ pool.conns = << >> => logTimer \/ notice = "NETBROKEN"

\* While a session has a front the timer that would erase it in the end is not
\* running, so giving up on a lookup never takes a connected session down.
TimerOnlyIdle == session # NoRoom /\ logTimer => pool.conns = << >>

\* The manager sees of its session what SessionManager assumes: connections are
\* lost, and the lookup is forced, only after an earlier lookup has succeeded.
ManagerSpec == Manager!Spec

\* With the real pool, too, a lookup comes to an end, by a reply or by giving up,
\* unless the user keeps joining, the main link keeps logging in, or the LBS keeps
\* naming fronts to which no connection can be opened.
LookupEnds == Manager!LookupEnds
=============================================================================
