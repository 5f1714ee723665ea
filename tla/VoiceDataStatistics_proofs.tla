--------------------- MODULE VoiceDataStatistics_proofs ---------------------
(***************************************************************************)
(* Proofs about the marks of a speaker's packets, for every ring that is   *)
(* longer than the greatest jump: that is what keeps a late packet from    *)
(* taking the place of a newer one.                                        *)
(***************************************************************************)
EXTENDS VoiceDataStatistics, Integers, TLAPS

TypeOK ==
  /\ lastseq \in Nat
  /\ marks \in [0 .. Ring - 1 -> [seq : Nat, state : State]]
  /\ taken \subseteq Seqs

\* A place without a number has no state yet.
Blank == \A i \in 0 .. Ring - 1 : marks[i].seq = 0 => marks[i].state = "init"

Inv == TypeOK /\ InOrder /\ NoStaleMark /\ Blank

-----------------------------------------------------------------------------
(* Places in the ring.                                                     *)
LEMMA PosType ==
  ASSUME NEW n \in Nat
  PROVE  Pos(n) \in 0 .. Ring - 1
<1> Ring \in Nat /\ Ring > 0
  BY StatisticsAssumption
<1> QED BY DEF Pos

\* A number is its place and a multiple of the ring's length.
LEMMA PosDivision ==
  ASSUME NEW n \in Nat
  PROVE  \E q \in Int : n = Ring * q + Pos(n)
<1> Ring \in Nat /\ Ring > 0
  BY StatisticsAssumption
<1> DEFINE d == n \div Ring
<1>1. d \in Int /\ n = Ring * d + (n % Ring)
  OBVIOUS
<1> HIDE DEF d
<1> QED BY <1>1 DEF Pos

\* No multiple of it is less, but for zero.
LEMMA Multiples ==
  ASSUME NEW e \in Int, Ring * e < Ring, Ring * e > 0 - Ring
  PROVE  e = 0
<1> Ring \in Nat /\ Ring > 0
  BY StatisticsAssumption
<1>1. CASE e <= 0 - 1
  <2>1. Ring * e <= Ring * (0 - 1)
    BY <1>1
  <2> QED BY <2>1
<1>2. CASE e >= 1
  <2>1. Ring * e >= Ring
    BY <1>2
  <2> QED BY <2>1
<1> QED BY <1>1, <1>2

\* Numbers that are closer than the ring is long have different places.
LEMMA PosDiffer ==
  ASSUME NEW m \in Nat, NEW n \in Nat, m < n, n < m + Ring
  PROVE  Pos(m) # Pos(n)
<1> Ring \in Nat /\ Ring > 0
  BY StatisticsAssumption
<1> SUFFICES ASSUME Pos(m) = Pos(n) PROVE FALSE
  OBVIOUS
<1>1. PICK p \in Int : m = Ring * p + Pos(m)
  BY PosDivision
<1>2. PICK q \in Int : n = Ring * q + Pos(n)
  BY PosDivision
<1> DEFINE e == q - p
<1>3. e \in Int /\ n - m = Ring * e
  BY <1>1, <1>2, PosType
<1> HIDE DEF e
<1>4. e = 0
  BY <1>3, Multiples
<1> QED BY <1>3, <1>4

\* A number one turn later has the same place.
LEMMA PosTurn ==
  ASSUME NEW n \in Nat
  PROVE  Pos(n + Ring) = Pos(n)
<1> Ring \in Nat /\ Ring > 0
  BY StatisticsAssumption
<1>1. PICK p \in Int : n = Ring * p + Pos(n)
  BY PosDivision
<1>2. PICK q \in Int : n + Ring = Ring * q + Pos(n + Ring)
  BY PosDivision
<1> DEFINE e == q - p - 1
<1>3. e \in Int /\ Pos(n) - Pos(n + Ring) = Ring * e
  BY <1>1, <1>2, PosType
<1> HIDE DEF e
<1>4. Pos(n) \in 0 .. Ring - 1 /\ Pos(n + Ring) \in 0 .. Ring - 1
  BY PosType
<1>5. e = 0
  BY <1>3, <1>4, Multiples
<1> QED BY <1>3, <1>4, <1>5

-----------------------------------------------------------------------------
(* The step that every operation takes: flush, for one number.             *)

\* What FirstMarkKept says of one step.
Kept == \A i \in 0 .. Ring - 1 :
          marks'[i].seq = marks[i].seq /\ marks[i].state \in {"succ", "resend_succ"} =>
            marks'[i].state \in Received

LEMMA ResetStep ==
  ASSUME Inv, lastseq' = 0, marks' = Unmarked, taken' \subseteq Seqs
  PROVE  Inv' /\ Kept
<1>1. \A i \in 0 .. Ring - 1 : marks'[i].seq = 0 /\ marks'[i].state = "init"
  BY DEF Unmarked
<1>2. TypeOK'
  BY DEF TypeOK, Unmarked, State
<1>3. InOrder' /\ NoStaleMark' /\ Blank'
  BY <1>1 DEF InOrder, Disordered, NoStaleMark, Blank
<1>4. Kept
  BY <1>1 DEF Inv, Blank, Kept
<1> QED BY <1>2, <1>3, <1>4 DEF Inv

LEMMA RemarkStep ==
  ASSUME Inv, NEW seq \in Nat \ {0}, NEW s \in State,
         marks[Pos(seq)].seq = seq, lastseq' = lastseq,
         marks' = [marks EXCEPT ![Pos(seq)].state = Remark(@, s)],
         taken' \subseteq Seqs
  PROVE  Inv' /\ Kept
<1> DEFINE p == Pos(seq)
<1>1. p \in 0 .. Ring - 1
  BY PosType
<1>2. marks \in [0 .. Ring - 1 -> [seq : Nat, state : State]]
  BY DEF Inv, TypeOK
<1>3. Remark(marks[p].state, s) \in State
  BY <1>1, <1>2 DEF Remark, State, Received
<1> HIDE DEF p
<1>4. marks' = [marks EXCEPT ![p] = [marks[p] EXCEPT !.state = Remark(marks[p].state, s)]]
  BY DEF p
<1>5. \A i \in 0 .. Ring - 1 : marks'[i].seq = marks[i].seq /\ (i # p => marks'[i] = marks[i])
  BY <1>1, <1>2, <1>4
<1>6. marks'[p].state = Remark(marks[p].state, s)
  BY <1>1, <1>2, <1>4
<1>7. TypeOK'
  BY <1>1, <1>2, <1>3, <1>4 DEF Inv, TypeOK
<1>8. InOrder' /\ NoStaleMark'
  <2>1. lastseq # 0 => Pos(lastseq) \in 0 .. Ring - 1
    BY PosType DEF Inv, TypeOK
  <2> QED BY <1>5, <2>1 DEF Inv, InOrder, Disordered, NoStaleMark
<1>9. Blank'
  BY <1>5, p # 0 \/ p = 0, marks[p].seq # 0 DEF Inv, Blank, p
<1>10. Kept
  <2>1. marks[p].state \in {"succ", "resend_succ"} => marks'[p].state \in Received
    BY <1>6 DEF Remark, Received
  <2>2. {"succ", "resend_succ"} \subseteq Received
    BY DEF Received
  <2> QED BY <1>5, <2>1, <2>2 DEF Kept
<1> QED BY <1>7, <1>8, <1>9, <1>10 DEF Inv

\* A number that is not marked and not far away.
LEMMA FillStep ==
  ASSUME Inv, NEW seq \in Nat \ {0}, NEW s \in State,
         ~ Far(seq), marks[Pos(seq)].seq # seq,
         lastseq' = IF seq > lastseq THEN seq ELSE lastseq,
         marks' = Fill(seq, s), taken' \subseteq Seqs
  PROVE  Inv' /\ Kept
<1> DEFINE p == Pos(seq)
           skipped == IF lastseq = 0 THEN {} ELSE lastseq + 1 .. seq - 1
<1>1. /\ marks \in [0 .. Ring - 1 -> [seq : Nat, state : State]]
      /\ lastseq \in Nat /\ Ring \in Nat /\ Jump \in Nat /\ Jump < Ring
  BY StatisticsAssumption DEF Inv, TypeOK
<1>2. p \in 0 .. Ring - 1
  BY PosType
<1>3. \A n \in skipped : n \in Nat /\ n > lastseq /\ n < seq
  BY <1>1
<1>4. \A i \in 0 .. Ring - 1 :
        \/ i = p /\ marks'[i] = [seq |-> seq, state |-> s]
        \/ i # p /\ \E n \in skipped : Pos(n) = i /\ marks'[i] = [seq |-> n, state |-> "loss"]
        \/ i # p /\ (\A n \in skipped : Pos(n) # i) /\ marks'[i] = marks[i]
  <2> SUFFICES ASSUME NEW i \in 0 .. Ring - 1
               PROVE  \/ i = p /\ marks'[i] = [seq |-> seq, state |-> s]
                      \/ i # p /\ \E n \in skipped :
                                     Pos(n) = i /\ marks'[i] = [seq |-> n, state |-> "loss"]
                      \/ i # p /\ (\A n \in skipped : Pos(n) # i) /\ marks'[i] = marks[i]
    OBVIOUS
  <2>1. CASE i = p
    BY <2>1 DEF Fill
  <2>2. CASE i # p /\ \E n \in skipped : Pos(n) = i
    <3> DEFINE n == CHOOSE k \in skipped : Pos(k) = i
    <3>1. n \in skipped /\ Pos(n) = i
      BY <2>2
    <3>2. marks'[i] = [seq |-> n, state |-> "loss"]
      BY <2>2 DEF Fill
    <3> HIDE DEF n
    <3> QED BY <2>2, <3>1, <3>2
  <2>3. CASE i # p /\ ~ \E n \in skipped : Pos(n) = i
    BY <2>3 DEF Fill
  <2> QED BY <2>1, <2>2, <2>3
<1>5. marks' = [i \in 0 .. Ring - 1 |-> marks'[i]]
  BY DEF Fill
<1>6. lastseq # 0 => seq <= lastseq + Jump /\ lastseq <= seq + Jump
  BY <1>1 DEF Far
<1>7. \A n \in skipped : lastseq # 0
  OBVIOUS
<1>8. seq # lastseq
  BY <1>1 DEF Inv, InOrder, Disordered
<1>9. seq <= lastseq => p # Pos(lastseq)
  <2> SUFFICES ASSUME seq <= lastseq PROVE p # Pos(lastseq)
    OBVIOUS
  <2>1. seq < lastseq /\ lastseq < seq + Ring
    BY <1>1, <1>6, <1>8
  <2> QED BY <1>1, <2>1, PosDiffer
<1>10. TypeOK'
  <2>1. \A i \in 0 .. Ring - 1 : marks'[i] \in [seq : Nat, state : State]
    <3>1. "loss" \in State
      BY DEF State
    <3> SUFFICES ASSUME NEW i \in 0 .. Ring - 1
                 PROVE  marks'[i] \in [seq : Nat, state : State]
      OBVIOUS
    <3>2. CASE i = p /\ marks'[i] = [seq |-> seq, state |-> s]
      BY <3>2
    <3>3. ASSUME NEW n \in skipped, marks'[i] = [seq |-> n, state |-> "loss"]
          PROVE  marks'[i] \in [seq : Nat, state : State]
      BY <1>3, <3>1, <3>3
    <3>4. CASE marks'[i] = marks[i]
      BY <1>1, <3>4
    <3> QED BY <1>4, <3>2, <3>3, <3>4
  <2> QED BY <1>1, <1>5, <2>1 DEF TypeOK
<1>11. InOrder'
  <2>1. CASE seq > lastseq
    <3>1. lastseq' = seq /\ marks'[p].seq = seq
      BY <1>1, <1>2, <1>4, <2>1
    <3> QED BY <3>1 DEF InOrder, Disordered
  <2>2. CASE seq <= lastseq
    <3>1. lastseq' = lastseq /\ skipped = {}
      BY <1>1, <2>2
    <3>2. Pos(lastseq) # p /\ Pos(lastseq) \in 0 .. Ring - 1
      BY <1>1, <1>9, <2>2, PosType
    <3>3. marks'[Pos(lastseq)] = marks[Pos(lastseq)]
      BY <1>4, <3>1, <3>2
    <3> QED BY <3>1, <3>3 DEF Inv, InOrder, Disordered
  <2> QED BY <1>1, <2>1, <2>2
<1>12. NoStaleMark'
  <2> SUFFICES ASSUME NEW i \in 0 .. Ring - 1, marks'[i].seq # 0
               PROVE  /\ Pos(marks'[i].seq) = i /\ marks'[i].seq <= lastseq'
                      /\ lastseq' < marks'[i].seq + Ring
    BY DEF NoStaleMark
  <2>1. CASE i = p /\ marks'[i] = [seq |-> seq, state |-> s]
    <3>1. seq <= lastseq' /\ lastseq' < seq + Ring
      BY <1>1, <1>6
    <3> QED BY <2>1, <3>1
  <2>2. ASSUME NEW n \in skipped, Pos(n) = i, marks'[i] = [seq |-> n, state |-> "loss"]
        PROVE  /\ Pos(marks'[i].seq) = i /\ marks'[i].seq <= lastseq'
               /\ lastseq' < marks'[i].seq + Ring
    <3>1. n \in Nat /\ n > lastseq /\ n < seq /\ lastseq # 0
      BY <1>3, <1>7
    <3>2. n <= lastseq' /\ lastseq' < n + Ring
      BY <1>1, <1>6, <3>1
    <3> QED BY <2>2, <3>2
  <2>3. CASE i # p /\ (\A n \in skipped : Pos(n) # i) /\ marks'[i] = marks[i]
    <3> DEFINE m == marks[i].seq
    <3>1. m \in Nat /\ m # 0 /\ Pos(m) = i /\ m <= lastseq /\ lastseq < m + Ring
      BY <1>1, <2>3 DEF Inv, NoStaleMark
    <3> HIDE DEF m
    <3>2. Pos(m + Ring) = i
      BY <3>1, PosTurn
    <3>3. m + Ring \notin skipped /\ m + Ring # seq
      BY <2>3, <3>2
    <3>4. lastseq # 0
      BY <3>1
    <3>5. lastseq' < m + Ring /\ m <= lastseq'
      BY <1>1, <3>1, <3>3, <3>4
    <3> QED BY <2>3, <3>1, <3>5 DEF m
  <2> QED BY <1>4, <2>1, <2>2, <2>3
<1>13. \A i \in 0 .. Ring - 1 : marks'[i] # marks[i] =>
         marks'[i].seq # 0 /\ marks'[i].seq # marks[i].seq
  <2> SUFFICES ASSUME NEW i \in 0 .. Ring - 1, marks'[i] # marks[i]
               PROVE  marks'[i].seq # 0 /\ marks'[i].seq # marks[i].seq
    OBVIOUS
  <2>1. CASE i = p /\ marks'[i] = [seq |-> seq, state |-> s]
    BY <2>1
  <2>2. ASSUME NEW n \in skipped, marks'[i] = [seq |-> n, state |-> "loss"]
        PROVE  marks'[i].seq # 0 /\ marks'[i].seq # marks[i].seq
    <3>1. n \in Nat /\ n > lastseq
      BY <1>3
    <3>2. marks[i].seq \in Nat /\ marks[i].seq <= lastseq
      BY <1>1 DEF Inv, NoStaleMark
    <3> QED BY <1>1, <2>2, <3>1, <3>2
  <2> QED BY <1>4, <2>1, <2>2
<1>14. Blank' /\ Kept
  <2>1. {"succ", "resend_succ"} \subseteq Received
    BY DEF Received
  <2>2. Blank'
    BY <1>13 DEF Inv, Blank
  <2> QED BY <1>13, <2>1, <2>2 DEF Kept
<1> QED BY <1>10, <1>11, <1>12, <1>14 DEF Inv

LEMMA FlushStep ==
  ASSUME Inv, NEW seq \in Nat \ {0}, NEW s \in State, Flush(seq, s), taken' \subseteq Seqs
  PROVE  Inv' /\ Kept
<1>1. CASE Disordered \/ Far(seq)
  BY <1>1, ResetStep DEF Flush
<1>2. CASE ~ (Disordered \/ Far(seq)) /\ marks[Pos(seq)].seq = seq
  BY <1>2, RemarkStep DEF Flush
<1>3. CASE ~ (Disordered \/ Far(seq)) /\ marks[Pos(seq)].seq # seq
  BY <1>3, FillStep DEF Flush
<1> QED BY <1>1, <1>2, <1>3

-----------------------------------------------------------------------------
LEMMA InitInv == Init => Inv
<1> SUFFICES ASSUME Init PROVE Inv
  OBVIOUS
<1>1. TypeOK
  BY DEF Init, TypeOK, Unmarked, State
<1>2. InOrder /\ NoStaleMark /\ Blank
  BY DEF Init, InOrder, Disordered, NoStaleMark, Blank, Unmarked
<1> QED BY <1>1, <1>2 DEF Inv

LEMMA NextInv ==
  ASSUME Inv, [Next]_vars
  PROVE  Inv' /\ Kept
<1>1. CASE UNCHANGED vars
  <2>1. Inv'
    BY <1>1 DEF vars, Inv, TypeOK, InOrder, Disordered, NoStaleMark, Blank
  <2>2. Kept
    BY <1>1 DEF vars, Kept, Received
  <2> QED BY <2>1, <2>2
<1>2. ASSUME NEW seq \in Seqs, NEW isResend \in BOOLEAN, Take(seq, isResend)
      PROVE  Inv' /\ Kept
  <2>1. taken' \subseteq Seqs /\ seq \in Nat \ {0}
    BY <1>2, StatisticsAssumption DEF Take, Inv, TypeOK
  <2>2. PICK s \in State : Flush(seq, s)
    BY <1>2 DEF Take, State, Received
  <2> QED BY <2>1, <2>2, FlushStep
<1>3. ASSUME NEW seq \in Seqs, NEW isResend \in BOOLEAN, Refuse(seq, isResend)
      PROVE  Inv' /\ Kept
  <2>1. taken' \subseteq Seqs /\ seq \in Nat \ {0}
    BY <1>3, StatisticsAssumption DEF Refuse, Inv, TypeOK
  <2>2. PICK s \in State : Flush(seq, s)
    BY <1>3 DEF Refuse, State
  <2> QED BY <2>1, <2>2, FlushStep
<1>4. ASSUME NEW seq \in Seqs, Miss(seq) PROVE Inv' /\ Kept
  <2>1. taken' \subseteq Seqs /\ seq \in Nat \ {0}
    BY <1>4, StatisticsAssumption DEF Miss, Inv, TypeOK
  <2> QED BY <1>4, <2>1, FlushStep DEF Miss, State
<1>5. ASSUME NEW seq \in Seqs, Empty(seq) PROVE Inv' /\ Kept
  <2>1. taken' \subseteq Seqs /\ seq \in Nat \ {0}
    BY <1>5, StatisticsAssumption DEF Empty, Inv, TypeOK
  <2> QED BY <1>5, <2>1, FlushStep DEF Empty, State
<1>6. CASE Forget
  <2>1. taken' \subseteq Seqs
    BY <1>6 DEF Forget
  <2> QED BY <1>6, <2>1, ResetStep DEF Forget
<1> QED BY <1>1, <1>2, <1>3, <1>4, <1>5, <1>6 DEF Next

LEMMA InvHolds == Spec => []Inv
<1>1. Inv /\ [Next]_vars => Inv'
  BY NextInv
<1> QED BY <1>1, InitInv, PTL DEF Spec

(* The data in disorder that flush provides for does not occur.            *)
THEOREM OrderCorrect == Spec => []InOrder
<1>1. Inv => InOrder
  BY DEF Inv
<1> QED BY <1>1, InvHolds, PTL

(* The marks are those of the newest numbers, each in its place.           *)
THEOREM MarksCorrect == Spec => []NoStaleMark
<1>1. Inv => NoStaleMark
  BY DEF Inv
<1> QED BY <1>1, InvHolds, PTL

(* A first success stays one.                                              *)
THEOREM FirstMarkCorrect == Spec => FirstMarkKept
<1>1. Inv /\ [Next]_vars => [Kept]_vars
  BY NextInv
<1>2. [Kept]_vars => [\A i \in 0 .. Ring - 1 :
         marks'[i].seq = marks[i].seq /\ marks[i].state \in {"succ", "resend_succ"} =>
           marks'[i].state \in Received]_vars
  BY DEF Kept
<1> QED BY <1>1, <1>2, InvHolds, PTL DEF Spec, FirstMarkKept
=============================================================================
