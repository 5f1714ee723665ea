----------------------- MODULE SessionManager_proofs ------------------------
(***************************************************************************)
(* Proofs about the lookup of a session's front, for every set of rooms    *)
(* and every limit.                                                        *)
(***************************************************************************)
EXTENDS SessionManager, TLAPS

\* A lookup that has succeeded has no attempts counted: the next episode, begun
\* when the session has lost its fronts, starts from zero.
Rested == status = "e_succ" => relbstime = 0

\* A session can always be asked for: it has a number.
Numbered == session # NoRoom => sid \in Room

Inv == TypeOK /\ LookupGuarded /\ Rested /\ Numbered

LEMMA InitInv == ASSUME LbsAssumption PROVE Init => Inv
<1> SUFFICES ASSUME Init PROVE Inv
  OBVIOUS
<1>1. TypeOK
  <2>1. 0 \in 0 .. LookupBound
    BY LbsAssumption DEF LbsAssumption
  <2> QED BY <2>1, Zenon DEF Init, TypeOK, Notices
<1>2. LookupGuarded /\ Rested /\ Numbered
  BY DEF Init, LookupGuarded, LookingUp, Rested, Numbered
<1> QED BY <1>1, <1>2 DEF Inv

-----------------------------------------------------------------------------
(* The body of reconnect, for every caller that has a session.             *)
LEMMA ReconnectInv ==
  ASSUME LbsAssumption, Inv, session # NoRoom, relbstime < LookupBound,
         NEW told \in Notices, Reconnect(told), link' \in BOOLEAN
  PROVE  Inv'
<1>1. /\ session' \in Room \cup {NoRoom} /\ sid' \in Room /\ asked' \subseteq Room
      /\ notice' \in Notices
  BY DEF Inv, TypeOK, Numbered, Reconnect, Ask
<1>2. relbstime' \in 0 .. LookupBound
  BY LbsAssumption DEF LbsAssumption, Inv, TypeOK, Reconnect
<1>3. status' = "e_relbs" /\ logTimer' = TRUE
  BY DEF Reconnect
<1> QED BY <1>1, <1>2, <1>3 DEF Inv, TypeOK, LookupGuarded, LookingUp, Rested, Numbered

\* A step after which nothing is looked up.
LEMMA QuietInv ==
  ASSUME LbsAssumption, Inv,
         session' \in Room \cup {NoRoom}, sid' \in Room \cup {NoRoom},
         session' # NoRoom => sid' \in Room,
         session' = NoRoom \/ status' = "e_succ",
         \/ UNCHANGED <<status, relbstime>>
         \/ status' = "e_succ" /\ relbstime' = 0
         \/ status' = "e_relbs" /\ status = "e_succ" /\ relbstime' = relbstime + 1,
         logTimer' \in BOOLEAN, asked' \subseteq Room,
         link' \in BOOLEAN, notice' \in Notices
  PROVE  Inv'
<1>1. relbstime' \in 0 .. LookupBound
  BY LbsAssumption DEF LbsAssumption, Inv, TypeOK, Rested
<1>2. status' \in {"e_init", "e_lbs", "e_relbs", "e_succ"} /\ Rested'
  BY DEF Inv, TypeOK, Rested
<1> QED BY <1>1, <1>2 DEF Inv, TypeOK, LookupGuarded, LookingUp, Numbered

LEMMA NextInv == ASSUME LbsAssumption PROVE Inv /\ [Next]_smvars => Inv'
<1> SUFFICES ASSUME Inv, [Next]_smvars PROVE Inv'
  OBVIOUS
<1> USE DEF Notices
<1>1. /\ session \in Room \cup {NoRoom} /\ sid \in Room \cup {NoRoom}
      /\ logTimer \in BOOLEAN /\ asked \subseteq Room /\ link \in BOOLEAN
      /\ notice \in Notices /\ (session # NoRoom => sid \in Room)
      /\ relbstime \in 0 .. LookupBound
  BY DEF Inv, TypeOK, Numbered
<1>2. ASSUME NEW s \in Room, Join(s) PROVE Inv'
  <2>1. asked' \subseteq Room /\ relbstime' \in 0 .. LookupBound
    BY <1>1, <1>2, LbsAssumption DEF LbsAssumption, Join, Ask
  <2> QED BY <1>1, <1>2, <2>1
          DEF Join, Inv, TypeOK, LookupGuarded, LookingUp, Rested, Numbered
<1>3. ASSUME NEW s \in Room, ReplyNoSession(s) PROVE Inv'
  BY <1>1, <1>3, QuietInv DEF ReplyNoSession, Reply
<1>4. ASSUME NEW s \in Room, ReplyError(s) PROVE Inv'
  BY <1>1, <1>4, QuietInv DEF ReplyError, Reply, Answered
<1>5. ASSUME NEW s \in Room, ReplyNoPorts(s) \/ ReplyStart(s) PROVE Inv'
  BY <1>1, <1>5, QuietInv DEF ReplyNoPorts, ReplyStart, Reply, Answered
<1>6. ASSUME NEW s \in Room, ReplyStartFails(s) PROVE Inv'
  <2>1. asked' \subseteq Room /\ relbstime' \in 0 .. LookupBound
    BY <1>1, <1>6, LbsAssumption DEF LbsAssumption, ReplyStartFails, Reply
  <2> QED BY <1>1, <1>6, <2>1
          DEF ReplyStartFails, Reply, Inv, TypeOK, LookupGuarded, LookingUp,
              Rested, Numbered
<1>7. ASSUME session # NoRoom, status = "e_succ", Relogin PROVE Inv'
  <2>1. relbstime < LookupBound
    BY <1>7, LbsAssumption DEF LbsAssumption, Inv, Rested
  <2>2. Reconnect("RECONNECTING") /\ link' = link
    BY <1>7 DEF Relogin, CanReconnect
  <2> QED BY <1>1, <1>7, <2>1, <2>2, ReconnectInv
<1>8. ASSUME session # NoRoom, status = "e_succ", LeaveClosing PROVE Inv'
  <2>1. asked' \subseteq Room
    BY <1>1, <1>8 DEF LeaveClosing, Ask
  <2> QED BY <1>1, <1>8, <2>1, QuietInv DEF LeaveClosing
<1>9. CASE LinkUp
  <2>1. CASE CanReconnect(FALSE)
    BY <1>1, <1>9, <2>1, ReconnectInv DEF LinkUp, CanReconnect
  <2>2. CASE ~ CanReconnect(FALSE)
    BY <1>1, <1>9, <2>2, QuietInv DEF LinkUp, CanReconnect
  <2> QED BY <2>1, <2>2
<1>10. CASE LinkDown
  BY <1>1, <1>10 DEF LinkDown, Inv, TypeOK, LookupGuarded, LookingUp, Rested, Numbered
<1>11. CASE Leave
  BY <1>1, <1>11, QuietInv DEF Leave, EraseSession
<1>12. CASE TimeOut
  <2>1. CASE TryAgain /\ CanReconnect(FALSE) /\ Reconnect(notice)
    <3>1. relbstime < LookupBound
      BY <1>1, <2>1, LbsAssumption DEF LbsAssumption, TryAgain
    <3> QED BY <1>1, <1>12, <2>1, <3>1, ReconnectInv DEF TimeOut, CanReconnect
  <2>2. CASE TryAgain /\ ~ CanReconnect(FALSE)
    BY <1>1, <1>12, <2>2, QuietInv DEF TimeOut, CanReconnect
  <2>3. CASE ~ TryAgain
    BY <1>1, <1>12, <2>3, QuietInv DEF TimeOut, EraseSession
  <2> QED BY <1>12, <2>1, <2>2, <2>3 DEF TimeOut
<1>13. CASE UNCHANGED smvars
  BY <1>13 DEF smvars, Inv, TypeOK, LookupGuarded, LookingUp, Rested, Numbered
<1> QED BY <1>2, <1>3, <1>4, <1>5, <1>6, <1>7, <1>8, <1>9, <1>10, <1>11, <1>12, <1>13
        DEF Next

LEMMA InvHolds == ASSUME LbsAssumption PROVE Spec => []Inv
<1> QED BY InitInv, NextInv, PTL DEF Spec

(* Every reachable state of the lookup has its declared type; in           *)
(* particular no episode counts beyond the bound that only guards a login  *)
(* of the main link.                                                       *)
THEOREM TypeCorrect == ASSUME LbsAssumption PROVE Spec => []TypeOK
<1>1. Inv => TypeOK
  BY DEF Inv
<1> QED BY <1>1, InvHolds, PTL

(* An open lookup has the timer that repeats it or gives it up, in every   *)
(* order of replies, logins of the main link, closes and leaves.           *)
THEOREM GuardedCorrect == ASSUME LbsAssumption PROVE Spec => []LookupGuarded
<1>1. Inv => LookupGuarded
  BY DEF Inv
<1> QED BY <1>1, InvHolds, PTL

-----------------------------------------------------------------------------
(* What of LookupEnds needs no fairness: a lookup that stays open is       *)
(* counted at every timeout, up to LbsMaxTime, and its count falls only by *)
(* the two steps, besides a login of the main link, that LookupEnds lets   *)
(* go on for ever.  So after LbsMaxTime + 1 timeouts it is closed.         *)
Counted == /\ LookingUp' /\ TimeOut
                => relbstime' = relbstime + 1 /\ relbstime' <= LbsMaxTime
           /\ LookingUp /\ LookingUp' /\ relbstime' < relbstime
                => \E s \in Room : Join(s) \/ ReplyStartFails(s)

LEMMA CountedStep == ASSUME LbsAssumption PROVE Inv /\ [Next]_smvars => Counted
<1> SUFFICES ASSUME Inv, [Next]_smvars PROVE Counted
  OBVIOUS
<1>1. relbstime \in Nat /\ LbsMaxTime \in Nat
  BY LbsAssumption DEF LbsAssumption, Inv, TypeOK
<1>2. ASSUME LookingUp', TimeOut
      PROVE  relbstime' = relbstime + 1 /\ relbstime' <= LbsMaxTime
  <2>1. CASE TryAgain /\ CanReconnect(FALSE) /\ Reconnect(notice)
    BY <1>1, <2>1 DEF TryAgain, Reconnect
  <2>2. CASE /\ TryAgain /\ ~ CanReconnect(FALSE)
             /\ UNCHANGED <<session, sid, status, relbstime, asked, notice>>
    BY <1>2, <2>2 DEF CanReconnect, LookingUp
  <2>3. CASE ~ TryAgain /\ EraseSession
    BY <1>2, <2>3 DEF EraseSession, LookingUp
  <2> QED BY <1>2, <2>1, <2>2, <2>3 DEF TimeOut
<1>3. ASSUME LookingUp, LookingUp', relbstime' < relbstime,
             \A s \in Room : ~ Join(s) /\ ~ ReplyStartFails(s)
      PROVE  FALSE
  <2>1. ~ (\E s \in Room : ReplyError(s) \/ ReplyNoPorts(s) \/ ReplyStart(s))
    BY <1>3 DEF ReplyError, ReplyNoPorts, ReplyStart, Answered, LookingUp
  <2>2. relbstime' # relbstime /\ relbstime' # relbstime + 1
    BY <1>1, <1>3
  <2>3. ~ (\E s \in Room : ReplyNoSession(s)) /\ ~ LinkDown /\ ~ Leave
    BY <2>2 DEF ReplyNoSession, LinkDown, Leave, EraseSession
  <2>4. ~ TimeOut
    BY <2>2 DEF TimeOut, Reconnect, EraseSession
  <2>5. ~ LinkUp
    BY <2>2 DEF LinkUp, Reconnect
  <2>6. status # "e_succ"
    BY <1>3 DEF LookingUp
  <2>7. relbstime' = relbstime \/ Next
    BY DEF smvars
  <2> QED BY <1>3, <2>1, <2>2, <2>3, <2>4, <2>5, <2>6, <2>7 DEF Next
<1> QED BY <1>2, <1>3 DEF Counted

(* For every set of rooms and every limit, an open lookup counts down.     *)
THEOREM LookupCounted == ASSUME LbsAssumption PROVE Spec => [][Counted]_smvars
<1> QED BY InvHolds, CountedStep, PTL DEF Spec
=============================================================================
