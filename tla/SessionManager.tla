--------------------------- MODULE SessionManager ---------------------------
(***************************************************************************)
(* Looking up a session's front server (src/xproto/SessionManager.cpp).    *)
(*                                                                         *)
(* The manager asks the LBS, over the main link, where a room is served,   *)
(* repeats the question when a timer expires and gives up after a few      *)
(* times.  It asks again when the session has lost all its fronts and when *)
(* the main link has logged in anew.  All handlers run on the UI thread.   *)
(*                                                                         *)
(* The session itself (SessionImp) is seen here through what it does to    *)
(* the manager: it may report that its last front is gone (Relogin), and   *)
(* it is told its room's number and where to connect.  Module Session      *)
(* puts the connection pool in its place.                                  *)
(***************************************************************************)
EXTENDS Naturals

CONSTANTS
  Room,         \* room numbers
  NoRoom,       \* no session
  LbsMaxTime,   \* LBS_MAX_TIME, 2 in the code
  LookupBound   \* bound of the model: lookups counted in one episode

\* What is assumed of them; module Session, which gives them values, does.
LbsAssumption ==
  /\ NoRoom \notin Room
  /\ LbsMaxTime \in Nat
  /\ LookupBound \in Nat /\ LookupBound > LbsMaxTime

VARIABLES
  session,    \* __session: the room it was created for, or NoRoom
  sid,        \* the session's number as the last LBS reply gave it
  status,     \* _sl_status
  relbstime,  \* _relbstime
  logTimer,   \* sessionLogTimer is running
  asked,      \* rooms with an unanswered PSessionLbs
  link,       \* the main link has logged in
  notice      \* what the session's handler was last told

smvars == <<session, sid, status, relbstime, logTimer, asked, link, notice>>

Notices == {"none", "JOIN1", "JOIN2", "NETBROKEN", "RECONNECTING", "GONE"}

Init ==
  /\ session = NoRoom /\ sid = NoRoom
  /\ status = "e_init"
  /\ relbstime = 0
  /\ logTimer = FALSE
  /\ asked = {}
  /\ link = FALSE
  /\ notice = "none"

-----------------------------------------------------------------------------
\* A request written while the main link has no socket is lost.
Ask(s) == asked' \in {asked, asked \cup {s}}

\* join: a session object for the room replaces the one there was.
Join(s) ==
  /\ session' = s /\ sid' = s
  /\ status' = "e_lbs"
  /\ relbstime' = 0
  /\ logTimer' = TRUE
  /\ notice' = "JOIN1"
  /\ Ask(s)
  /\ UNCHANGED link

\* Fault: a forced reconnect keeps the status of the finished lookup.
CanReconnectUnforced(force) == session # NoRoom /\ status # "e_succ"

CanReconnect(force) == session # NoRoom /\ (status # "e_succ" \/ force)

\* Fault: the repeated lookup is not counted.
ReconnectUncounted(told) ==
  /\ status' = "e_relbs"
  /\ relbstime' = relbstime
  /\ logTimer' = TRUE
  /\ notice' = told
  /\ Ask(sid)
  /\ UNCHANGED <<session, sid>>

\* The body of reconnect: the next lookup, for the number the session has now.
Reconnect(told) ==
  /\ status' = "e_relbs"
  /\ relbstime' = relbstime + 1
  /\ logTimer' = TRUE
  /\ notice' = told
  /\ Ask(sid)
  /\ UNCHANGED <<session, sid>>

\* SessionImp::Relogin and ReSessionLbs, after the last front has closed.
Relogin ==
  /\ IF CanReconnect(TRUE) THEN Reconnect("RECONNECTING")
     ELSE /\ notice' = "GONE"
          /\ UNCHANGED <<session, sid, status, relbstime, logTimer, asked>>
  /\ UNCHANGED link

\* CProtoLink::reConnSession, when the main link has logged in.
LinkUp ==
  /\ ~ link /\ link' = TRUE
  /\ relbstime < LookupBound
  /\ IF CanReconnect(FALSE) THEN Reconnect(notice)
     ELSE UNCHANGED <<session, sid, status, relbstime, logTimer, asked, notice>>

\* The main link is lost, in general with the answers it still owed.
LinkDown ==
  /\ link /\ link' = FALSE
  /\ asked' \in {asked, {}}
  /\ UNCHANGED <<session, sid, status, relbstime, logTimer, notice>>

\* initialEraseSession: the session object goes; timer and status stay.
EraseSession ==
  /\ session' = NoRoom /\ sid' = NoRoom
  /\ UNCHANGED <<status, relbstime>>

Leave ==
  /\ session # NoRoom
  /\ EraseSession
  /\ notice' = "none"
  /\ UNCHANGED <<logTimer, asked, link>>

\* PLeaveSession is flushed at once.  If that closes the last front, the session
\* starts a lookup on its way out, and leaves its timer running.
LeaveClosing ==
  /\ CanReconnect(TRUE)
  /\ session' = NoRoom /\ sid' = NoRoom
  /\ status' = "e_relbs"
  /\ relbstime' = relbstime + 1
  /\ logTimer' = TRUE
  /\ notice' = "none"
  /\ Ask(sid)
  /\ UNCHANGED link

TryAgain == relbstime < LbsMaxTime

\* onSessionTimeOut.
TimeOut ==
  /\ logTimer
  /\ UNCHANGED link
  /\ \/ /\ TryAgain /\ CanReconnect(FALSE)
        /\ Reconnect(notice)
     \/ /\ TryAgain /\ ~ CanReconnect(FALSE)
        /\ logTimer' = FALSE
        /\ UNCHANGED <<session, sid, status, relbstime, asked, notice>>
     \/ /\ ~ TryAgain
        /\ EraseSession
        /\ notice' = IF session # NoRoom THEN "GONE" ELSE notice
        /\ logTimer' = FALSE
        /\ UNCHANGED asked

\* onJoin, its common part.  Nothing ties a reply to the request it answers,
\* and one request of several to the same room may still be open afterwards.
Reply(s) ==
  /\ s \in asked
  /\ asked' \in {asked, asked \ {s}}
  /\ UNCHANGED link

ReplyNoSession(s) ==
  /\ Reply(s)
  /\ session = NoRoom
  /\ UNCHANGED <<session, sid, status, relbstime, logTimer, notice>>

Answered ==
  /\ session # NoRoom
  /\ logTimer' = FALSE
  /\ status' = "e_succ"

\* The room does not exist, or the LBS failed: the session is erased.
ReplyError(s) ==
  /\ Reply(s)
  /\ Answered
  /\ relbstime' = 0
  /\ session' = NoRoom /\ sid' = NoRoom
  /\ notice' = "GONE"

\* The reply names no port: the user is told and the session stays.
ReplyNoPorts(s) ==
  /\ Reply(s)
  /\ Answered
  /\ relbstime' = 0
  /\ sid' = s
  /\ notice' = "NETBROKEN"
  /\ UNCHANGED session

\* The session is started on the address of the reply.
ReplyStart(s) ==
  /\ Reply(s)
  /\ Answered
  /\ relbstime' = 0
  /\ sid' = s
  /\ notice' = "JOIN2"
  /\ UNCHANGED session

\* The same, but the first connection fails at once and the session, left with
\* none, asks the LBS again.
ReplyStartFails(s) ==
  /\ Reply(s)
  /\ session # NoRoom
  /\ logTimer' = TRUE
  /\ status' = "e_relbs"
  /\ relbstime' = 1
  /\ sid' = s
  /\ notice' = "RECONNECTING"
  /\ UNCHANGED session

-----------------------------------------------------------------------------
Next ==
  \/ \E s \in Room : \/ Join(s) \/ ReplyNoSession(s) \/ ReplyError(s)
                     \/ ReplyNoPorts(s) \/ ReplyStart(s) \/ ReplyStartFails(s)
  \/ session # NoRoom /\ status = "e_succ" /\ (Relogin \/ LeaveClosing)
  \/ LinkUp \/ LinkDown
  \/ Leave
  \/ TimeOut

Spec == Init /\ [][Next]_smvars

-----------------------------------------------------------------------------
LookingUp == session # NoRoom /\ status \in {"e_lbs", "e_relbs"}

TypeOK ==
  /\ session \in Room \cup {NoRoom} /\ sid \in Room \cup {NoRoom}
  /\ status \in {"e_init", "e_lbs", "e_relbs", "e_succ"}
  /\ relbstime \in 0 .. LookupBound
  /\ logTimer \in BOOLEAN
  /\ asked \subseteq Room
  /\ link \in BOOLEAN
  /\ notice \in Notices

\* While a lookup is open the timer that repeats it, or gives up, is running: no
\* order of replies, logins, closes and leaves disarms it.
LookupGuarded == LookingUp => logTimer

\* A lookup comes to an end, by a reply or by giving up, unless the user keeps
\* joining rooms, the main link keeps logging in, or the LBS keeps naming fronts
\* to which no connection can be opened.
LookupEnds ==
  \/ []<><<\E s \in Room : Join(s)>>_smvars
  \/ []<><<LinkUp>>_smvars
  \/ []<><<\E s \in Room : ReplyStartFails(s)>>_smvars
  \/ LookingUp ~> ~ LookingUp
=============================================================================
