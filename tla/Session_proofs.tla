--------------------------- MODULE Session_proofs ---------------------------
(***************************************************************************)
(* Proofs about the session as a whole: lookup and pool agree on whether   *)
(* the session is connected, for every set of fronts and rooms, and each   *)
(* keeps in the other's company what it promises alone.                    *)
(***************************************************************************)
EXTENDS Session, TLAPS

LEMMA Assumptions == Pool!PoolAssumption /\ Manager!LbsAssumption
<1> QED BY SessionAssumption DEF Pool!PoolAssumption, Manager!LbsAssumption

Empty == pool.conns = << >>

\* A front is there only for a session whose lookup has succeeded, and then the
\* timer does not run.  A lookup that is open has its timer.  A session without
\* a front after a successful lookup is one without ports.
Agree == /\ ~ Empty => session # NoRoom /\ status = "e_succ"
         /\ session # NoRoom /\ status = "e_succ" => ~ logTimer
         /\ session # NoRoom /\ status # "e_succ" => logTimer
         /\ session # NoRoom /\ status = "e_succ" /\ Empty => notice = "NETBROKEN"

Inv == Pool!Inv /\ logTimer \in BOOLEAN /\ Agree

-----------------------------------------------------------------------------
(* The pool's side of a step.                                              *)

LEMMA FreshPool ==
  ASSUME Pool!Inv, NewPool
  PROVE  Pool!Inv' /\ Empty'
<1>1. Pool!PoolInv(pool') /\ pool'.conns = << >>
  BY Assumptions, Pool!FreshInv DEF NewPool, Fresh
<1> QED BY <1>1 DEF NewPool, Fresh, Empty, Pool!Inv, Pool!TypeOK, Pool!PoolInv,
                    Pool!Shape, Pool!PoolType

LEMMA SamePool ==
  ASSUME Pool!Inv, UNCHANGED poolvars
  PROVE  Pool!Inv' /\ (Empty' <=> Empty)
<1> QED BY DEF poolvars, Empty, Pool!Inv, Pool!TypeOK

LEMMA PoolNext ==
  ASSUME Pool!Inv, Pool!Next
  PROVE  Pool!Inv'
<1> QED BY Assumptions, Pool!NextInv

LEMMA QuietPool ==
  ASSUME Pool!Inv, PoolStep
  PROVE  Pool!Inv' /\ (Empty' <=> Empty) /\ UNCHANGED mvars
<1>1. Pool!Quiet /\ UNCHANGED mvars
  BY DEF PoolStep, Pool!Quiet
<1>2. Pool!Next
  BY <1>1 DEF Pool!Quiet, Pool!Next, Pool!Grow, Pool!Handshake
<1>3. pool'.conns = << >> <=> pool.conns = << >>
  BY <1>1, Assumptions, Pool!QuietKeepsList DEF Pool!Inv
<1> QED BY <1>1, <1>2, <1>3, PoolNext DEF Empty

LEMMA StartPool ==
  ASSUME Pool!Inv, NEW a \in Addr, NEW fails \in BOOLEAN, Pool!Start(a, fails)
  PROVE  Pool!Inv' /\ (~ Empty => ~ Empty')
<1>1. Pool!Next
  BY DEF Pool!Next, Pool!Grow
<1>2. ~ Empty => ~ Empty'
  BY Assumptions, Pool!StartKeepsList DEF Pool!Inv, Empty
<1> QED BY <1>1, <1>2, PoolNext

LEMMA ClosePool ==
  ASSUME Pool!Inv, NEW a \in Addr, Pool!Closed(a)
  PROVE  Pool!Inv' /\ ~ Empty
<1>1. Pool!Next
  BY DEF Pool!Next, Pool!Handshake
<1>2. a \in Pool!Members(pool)
  BY DEF Pool!Closed
<1>3. ~ Empty
  BY <1>2 DEF Pool!Members, Empty
<1> QED BY <1>1, <1>3, PoolNext

-----------------------------------------------------------------------------
(* The invariant, and the manager's view of each step.                     *)

LEMMA InitInv == Init => Inv
<1> SUFFICES ASSUME Init PROVE Inv
  OBVIOUS
<1>1. Pool!PoolInv(pool) /\ pool.conns = << >>
  BY Assumptions, Pool!FreshInv DEF Init, Fresh
<1>2. info \in [{"main", "vice"} -> Pool!InfoStatus]
  BY DEF Init, Pool!InfoStatus
<1>3. Pool!Inv
  BY <1>1, <1>2 DEF Init, Fresh, Pool!Inv, Pool!TypeOK, Pool!PoolInv,
                    Pool!Shape, Pool!PoolType
<1> QED BY <1>1, <1>3 DEF Init, Manager!Init, Inv, Agree, Empty

ManagerStep == Manager!Next \/ UNCHANGED mvars

LEMMA StepInv ==
  ASSUME Inv, Next
  PROVE  Inv' /\ ManagerStep
<1> USE DEF Inv
<1>1. ASSUME NEW s \in Room, Join(s) PROVE Inv' /\ ManagerStep
  <2>1. Pool!Inv' /\ Empty'
    BY <1>1, FreshPool DEF Join
  <2> QED BY <1>1, <2>1 DEF Join, Manager!Join, Agree, ManagerStep, Manager!Next
<1>2. ASSUME NEW s \in Room, ReplyIgnored(s) PROVE Inv' /\ ManagerStep
  <2>1. Pool!Inv' /\ (Empty' <=> Empty)
    BY <1>2, SamePool DEF ReplyIgnored
  <2>2. ManagerStep
    BY <1>2 DEF ReplyIgnored, ManagerStep, Manager!Next
  <2> QED BY <1>2, <2>1, <2>2
          DEF ReplyIgnored, Manager!ReplyNoSession, Manager!ReplyNoPorts,
              Manager!Reply, Manager!Answered, Agree
<1>3. ASSUME NEW s \in Room, ReplyError(s) PROVE Inv' /\ ManagerStep
  <2>1. Pool!Inv' /\ Empty'
    BY <1>3, FreshPool DEF ReplyError
  <2>2. ManagerStep
    BY <1>3 DEF ReplyError, ManagerStep, Manager!Next
  <2>3. session' = NoRoom /\ logTimer' = FALSE
    BY <1>3 DEF ReplyError, Manager!ReplyError, Manager!Answered
  <2> QED BY <2>1, <2>2, <2>3 DEF Agree
<1>4. ASSUME NEW s \in Room, NEW a \in Addr, NEW fails \in BOOLEAN,
             ReplyStart(s, a, fails)
      PROVE  Inv' /\ ManagerStep
  <2>1. Pool!Inv' /\ (~ Empty => ~ Empty')
    BY <1>4, StartPool DEF ReplyStart
  <2>2. ManagerStep
    BY <1>4 DEF ReplyStart, ManagerStep, Manager!Next
  <2> QED BY <1>4, <2>1, <2>2
          DEF ReplyStart, Manager!ReplyStart, Manager!ReplyStartFails,
              Manager!Reply, Manager!Answered, Agree, Empty
<1>5. CASE Leave
  <2>1. Pool!Inv' /\ Empty'
    BY <1>5, FreshPool DEF Leave
  <2>2. Manager!Leave \/ (~ Empty /\ Manager!LeaveClosing)
    BY <1>5 DEF Leave, Empty, Pool!HeadReady
  <2>3. ManagerStep
    BY <2>2 DEF ManagerStep, Manager!Next, Agree
  <2> QED BY <2>1, <2>2, <2>3
          DEF Manager!Leave, Manager!LeaveClosing, Manager!EraseSession, Agree
<1>6. CASE LinkChange
  <2>1. Pool!Inv' /\ (Empty' <=> Empty)
    BY <1>6, SamePool DEF LinkChange
  <2>2. ManagerStep
    BY <1>6 DEF LinkChange, ManagerStep, Manager!Next
  <2>3. CASE UNCHANGED <<session, status, logTimer, notice>>
    BY <2>1, <2>2, <2>3 DEF Agree
  <2>4. CASE /\ session # NoRoom /\ status # "e_succ" /\ session' = session
             /\ status' = "e_relbs" /\ logTimer' = TRUE
    BY <2>1, <2>2, <2>4 DEF Agree
  <2> QED BY <1>6, <2>3, <2>4
          DEF LinkChange, Manager!LinkUp, Manager!LinkDown, Manager!CanReconnect,
              Manager!Reconnect
<1>7. CASE TimeOut
  <2>1. ManagerStep
    BY <1>7 DEF TimeOut, ManagerStep, Manager!Next
  <2>2. CASE session' = NoRoom
    <3>1. Pool!Inv' /\ Empty'
      BY <1>7, <2>2, FreshPool DEF TimeOut
    <3>2. logTimer' \in BOOLEAN
      BY <1>7 DEF TimeOut, Manager!TimeOut, Manager!Reconnect
    <3> QED BY <2>1, <2>2, <3>1, <3>2 DEF Agree
  <2>3. CASE session' # NoRoom
    <3>1. Pool!Inv' /\ (Empty' <=> Empty)
      BY <1>7, <2>3, SamePool DEF TimeOut
    <3>2. Manager!CanReconnect(FALSE) /\ Manager!Reconnect(notice)
      BY <1>7, <2>3
         DEF TimeOut, Manager!TimeOut, Manager!EraseSession, Manager!CanReconnect, Agree
    <3> QED BY <2>1, <3>1, <3>2 DEF Manager!CanReconnect, Manager!Reconnect, Agree
  <2> QED BY <2>2, <2>3
<1>8. ASSUME NEW a \in Addr, Closed(a) PROVE Inv' /\ ManagerStep
  <2>1. Pool!Inv' /\ ~ Empty
    BY <1>8, ClosePool DEF Closed
  <2>2. session # NoRoom /\ status = "e_succ" /\ ~ logTimer
    BY <2>1 DEF Agree
  <2>3. CASE Empty'
    <3>1. Manager!Relogin
      BY <1>8, <2>3 DEF Closed, Empty
    <3>2. ManagerStep
      BY <3>1, <2>2 DEF ManagerStep, Manager!Next
    <3> QED BY <2>1, <2>2, <2>3, <3>1, <3>2
            DEF Manager!Relogin, Manager!CanReconnect, Manager!Reconnect, Agree
  <2>4. CASE ~ Empty'
    <3>1. UNCHANGED mvars
      BY <1>8, <2>4 DEF Closed, Empty
    <3> QED BY <2>1, <2>2, <2>4, <3>1 DEF mvars, ManagerStep, Agree
  <2> QED BY <2>3, <2>4
<1>9. CASE PoolStep
  <2>1. Pool!Inv' /\ (Empty' <=> Empty) /\ UNCHANGED mvars
    BY <1>9, QuietPool
  <2> QED BY <2>1 DEF mvars, ManagerStep, Agree
<1> QED BY <1>1, <1>2, <1>3, <1>4, <1>5, <1>6, <1>7, <1>8, <1>9 DEF Next

LEMMA NextInv == Inv /\ [Next]_vars => Inv' /\ ManagerStep
<1>1. Inv /\ Next => Inv' /\ ManagerStep
  BY StepInv
<1>2. Inv /\ UNCHANGED vars => Inv' /\ ManagerStep
  <2> SUFFICES ASSUME Inv, UNCHANGED vars PROVE Inv' /\ ManagerStep
    OBVIOUS
  <2>1. UNCHANGED poolvars /\ UNCHANGED mvars
    BY DEF vars, poolvars, mvars
  <2>2. Pool!Inv' /\ (Empty' <=> Empty)
    BY <2>1, SamePool DEF Inv
  <2> QED BY <2>1, <2>2 DEF Inv, Agree, mvars, ManagerStep
<1> QED BY <1>1, <1>2

LEMMA InvHolds == Spec => []Inv
<1>1. Inv /\ [Next]_vars => Inv'
  BY NextInv
<1> QED BY <1>1, InitInv, PTL DEF Spec

(* A session without any front is being looked up with its timer armed, or *)
(* its user was told that the LBS knew no port: for every set of fronts,   *)
(* no order of joins, late replies, closes and failing connects strands it.*)
THEOREM NeverStranded == Spec => []NotStranded
<1>1. Inv => NotStranded
  BY DEF Inv, Agree, Empty, NotStranded
<1> QED BY <1>1, InvHolds, PTL

(* Giving up on a lookup never takes a connected session down.             *)
THEOREM IdleTimer == Spec => []TimerOnlyIdle
<1>1. Inv => TimerOnlyIdle
  BY DEF Inv, Agree, Empty, TimerOnlyIdle
<1> QED BY <1>1, InvHolds, PTL

(* With the real pool in the place of the session, the manager behaves as  *)
(* SessionManager says: the composition implements it.                     *)
THEOREM ImplementsManager == Spec => ManagerSpec
<1>1. Init => Manager!Init
  BY DEF Init
<1>2. Inv /\ [Next]_vars => [Manager!Next]_(Manager!smvars)
  BY NextInv DEF ManagerStep, mvars, Manager!smvars
<1> QED BY <1>1, <1>2, InvHolds, PTL DEF Spec, ManagerSpec, Manager!Spec

(* So the theorems about the lookup hold of the session as a whole: while  *)
(* the lookup is open its timer runs, whatever the pool does.              *)
THEOREM LookupGuardedHere == Spec => [](Manager!TypeOK /\ Manager!LookupGuarded)
<1> QED BY Assumptions, ImplementsManager, Manager!TypeCorrect, Manager!GuardedCorrect, PTL
        DEF ManagerSpec

-----------------------------------------------------------------------------
(* The other way round: what the pool promises on its own it keeps when    *)
(* lookups, joins, leaves and late replies start it and take it down.      *)

\* Who takes a pool down that has connections: the user, or the LBS with the
\* news that the room is gone; giving up on a lookup never does.
Dismissed == \/ \E s \in Room : Join(s) \/ ReplyError(s)
             \/ Leave

PoolSide == \/ Pool!Next
            \/ UNCHANGED poolvars
            \/ NewPool /\ (~ Empty => Dismissed)

LEMMA StepPoolSide == Inv /\ [Next]_vars => PoolSide
<1> SUFFICES ASSUME Inv, [Next]_vars PROVE PoolSide
  OBVIOUS
<1>1. ASSUME NEW s \in Room, Join(s) \/ ReplyIgnored(s) \/ ReplyError(s)
      PROVE  PoolSide
  BY <1>1 DEF Join, ReplyIgnored, ReplyError, PoolSide, Dismissed
<1>2. ASSUME NEW s \in Room, NEW a \in Addr, NEW fails \in BOOLEAN,
             ReplyStart(s, a, fails)
      PROVE  PoolSide
  BY <1>2 DEF ReplyStart, Pool!Next, Pool!Grow, PoolSide
<1>3. CASE Leave \/ LinkChange
  BY <1>3 DEF Leave, LinkChange, PoolSide, Dismissed
<1>4. CASE TimeOut
  <2>1. Empty
    BY <1>4 DEF TimeOut, Manager!TimeOut, Inv, Agree
  <2> QED BY <1>4, <2>1 DEF TimeOut, PoolSide
<1>5. ASSUME NEW a \in Addr, Closed(a) PROVE PoolSide
  BY <1>5 DEF Closed, Pool!Next, Pool!Handshake, PoolSide
<1>6. CASE PoolStep
  BY <1>6 DEF PoolStep, Pool!Next, Pool!Grow, Pool!Handshake, PoolSide
<1>7. CASE UNCHANGED vars
  BY <1>7 DEF vars, poolvars, PoolSide
<1> QED BY <1>1, <1>2, <1>3, <1>4, <1>5, <1>6, <1>7 DEF Next

(* For every set of fronts and rooms: the pool of the session keeps its    *)
(* invariants although it is started by replies of the LBS, however late,  *)
(* and asks the LBS again when it is empty; and what its fronts were told  *)
(* parts from what the client believes only as it does in the pool alone,  *)
(* since a pool that is made anew has told nothing to anybody.             *)
THEOREM PoolInvariants ==
  Spec => /\ [](Pool!TypeOK /\ Pool!NoDuplicates /\ Pool!HeadLoggedIn /\ Pool!OneMain)
          /\ Pool!ToldAgrees
<1>1. Inv => Pool!TypeOK /\ Pool!NoDuplicates /\ Pool!HeadLoggedIn /\ Pool!OneMain
  BY DEF Inv, Pool!Inv, Pool!PoolInv, Pool!Shape, Pool!Listed, Pool!HeadKnown,
         Pool!MainOK, Pool!NoDuplicates, Pool!HeadLoggedIn, Pool!OneMain
<1> DEFINE Agrees(a) ==
      /\ Pool!Joined(a) => pool'.msg[a] # "none"
      /\ \/ pool'.told[a] = pool'.msg[a]
         \/ /\ a = pool'.conns[1]
            /\ \/ pool.told[a] # pool.msg[a]
               \/ Pool!Joined(a) /\ a = pool.conns[1] /\ Pool!LoggedIn(pool) # {}
<1>2. ASSUME Inv, [Next]_vars, ~ UNCHANGED poolvars, NEW a \in Pool!LoggedIn(pool')
      PROVE  Agrees(a)
  <2>1. CASE Pool!Next
    BY <1>2, <2>1, Assumptions, Pool!ToldStep DEF Inv
  <2>2. CASE NewPool
    BY <1>2, <2>2 DEF NewPool, Fresh, Pool!EmptyPool, Pool!LoggedIn
  <2> QED BY <1>2, <2>1, <2>2, StepPoolSide DEF PoolSide
<1>3. Inv /\ [Next]_vars => [\A a \in Pool!LoggedIn(pool') : Agrees(a)]_(Pool!vars)
  BY <1>2 DEF poolvars, Pool!vars
<1> QED BY <1>1, <1>3, InvHolds, PTL DEF Spec, Pool!ToldAgrees

(* For every set of fronts and rooms: a session with a connection has its  *)
(* ten-second timer running, also after it was taken down and started anew.*)
THEOREM TimerArmedHere == Spec => []Pool!Armed
<1>1. Init => Pool!Armed
  BY DEF Init, Fresh, Pool!EmptyPool, Pool!Armed
<1>2. ASSUME Inv, Pool!Armed, [Next]_vars PROVE Pool!Armed'
  <2>1. CASE Pool!Next
    BY <1>2, <2>1, Assumptions, Pool!ArmedStep DEF Inv
  <2>2. CASE UNCHANGED poolvars
    BY <1>2, <2>2 DEF poolvars, Pool!Armed
  <2>3. CASE NewPool
    BY <2>3 DEF NewPool, Fresh, Pool!EmptyPool, Pool!Armed
  <2> QED BY <1>2, <2>1, <2>2, <2>3, StepPoolSide DEF PoolSide
<1>3. Inv /\ Pool!Armed /\ [Next]_vars => Pool!Armed'
  BY <1>2
<1> QED BY <1>1, <1>3, InvHolds, PTL DEF Spec

(* For every set of fronts and rooms: a session that is served loses its   *)
(* main connection when that one's socket closes, when its user joins or   *)
(* leaves, or when the LBS answers that the room is gone.  No timeout of a *)
(* lookup, login of the main link or late reply with a front does it.      *)
THEOREM ServedUntilDismissed ==
  Spec => [][Pool!MainServes(pool) /\ ~ Pool!MainServes(pool')
               => Pool!Closed(pool.conns[1]) \/ Dismissed]_vars
<1>1. ASSUME Inv, [Next]_vars, Pool!MainServes(pool), ~ Pool!MainServes(pool')
      PROVE  Pool!Closed(pool.conns[1]) \/ Dismissed
  <2>1. CASE Pool!Next
    BY <1>1, <2>1, Assumptions, Pool!MainKeptStep DEF Inv
  <2>2. CASE UNCHANGED poolvars
    BY <1>1, <2>2 DEF poolvars
  <2>3. ~ Empty
    BY <1>1 DEF Pool!MainServes, Pool!HeadReady, Empty
  <2> QED BY <1>1, <2>1, <2>2, <2>3, StepPoolSide DEF PoolSide
<1>2. Inv /\ [Next]_vars
      => (Pool!MainServes(pool) /\ ~ Pool!MainServes(pool')
            => Pool!Closed(pool.conns[1]) \/ Dismissed)
  BY <1>1
<1> QED BY <1>2, InvHolds, PTL DEF Spec

(* For every set of fronts and rooms: of a pool that is not taken down as  *)
(* a whole, a joined connection is given up only where two joined ones     *)
(* remain.                                                                 *)
THEOREM TwoStayHere ==
  Spec => [][\A a \in Pool!LoggedIn(pool) : a \notin Pool!Members(pool')
               => \/ Pool!Cardinality(Pool!LoggedIn(pool')) >= 2
                  \/ Pool!Closed(a) \/ Dismissed]_vars
<1>1. ASSUME Inv, [Next]_vars, NEW a \in Pool!LoggedIn(pool),
             a \notin Pool!Members(pool'), ~ Pool!Closed(a)
      PROVE  Pool!Cardinality(Pool!LoggedIn(pool')) >= 2 \/ Dismissed
  <2>1. pool \in Pool!PoolType /\ Pool!Listed(pool)
    BY <1>1 DEF Inv, Pool!Inv, Pool!PoolInv, Pool!Shape
  <2>2. a \in Pool!Members(pool)
    BY <2>1, Assumptions, Pool!MembersLemma DEF Pool!LoggedIn, Pool!Shape
  <2>3. ~ Empty
    BY <2>2 DEF Pool!Members, Empty
  <2>4. CASE Pool!Next
    BY <1>1, <2>4, Assumptions, Pool!GiveUpStep DEF Inv
  <2>5. CASE UNCHANGED poolvars
    BY <1>1, <2>2, <2>5 DEF poolvars
  <2> QED BY <1>1, <2>3, <2>4, <2>5, StepPoolSide DEF PoolSide
<1>2. Inv /\ [Next]_vars
      => \A a \in Pool!LoggedIn(pool) : a \notin Pool!Members(pool')
           => \/ Pool!Cardinality(Pool!LoggedIn(pool')) >= 2
              \/ Pool!Closed(a) \/ Dismissed
  BY <1>1
<1> QED BY <1>2, InvHolds, PTL DEF Spec

(* For every set of fronts and rooms: changes of the main connection stay  *)
(* ten seconds apart.                                                      *)
THEOREM ChangesApartHere == Spec => Pool!ChangesThrottled
<1>1. ASSUME Inv, [Next]_vars, Pool!HeadReady(pool), pool'.conns # << >>,
             pool'.conns[1] # pool.conns[1]
      PROVE  (pool.cool /\ ~ pool'.cool) \/ Pool!Closed(pool.conns[1])
  <2>1. CASE Pool!Next
    BY <1>1, <2>1, Assumptions, Pool!ThrottledStep DEF Inv
  <2>2. CASE UNCHANGED poolvars
    BY <1>1, <2>2 DEF poolvars
  <2>3. ~ NewPool
    BY <1>1 DEF NewPool, Fresh, Pool!EmptyPool
  <2> QED BY <1>1, <2>1, <2>2, <2>3, StepPoolSide DEF PoolSide
<1>2. Inv /\ [Next]_vars
      => [Pool!HeadReady(pool) /\ pool'.conns # << >> /\ pool'.conns[1] # pool.conns[1]
            => (pool.cool /\ ~ pool'.cool) \/ Pool!Closed(pool.conns[1])]_(Pool!vars)
  BY <1>1
<1> QED BY <1>2, InvHolds, PTL DEF Spec, Pool!ChangesThrottled
=============================================================================
