-------------------------- MODULE VoiceData_proofs --------------------------
(***************************************************************************)
(* Proofs about the receive buffer, for every set of packets, every clock  *)
(* and every limit.  The invariant ties the four numbers of a buffer       *)
(* together: what is queued lies between the packet played last and the    *)
(* newest one, playback overruns the newest packet by no more than the     *)
(* fetches counted as empty, and what was played is behind both.           *)
(***************************************************************************)
EXTENDS VoiceData, TLAPS

Waited == totalWait < gitter + PackTime

Overrun == currentSeq <= lastSeq + emptyTimes

Behind == \A t \in played : t <= currentSeq /\ t <= lastSeq

Inv == TypeOK /\ AheadOfPlayback /\ FirstFetchHasFront /\ Waited /\ Overrun /\ Behind

-----------------------------------------------------------------------------
(* The header of a talk consists of numbers below the first packet's.      *)
LEMMA HeaderLemma ==
  ASSUME NEW seq \in Seqs, NEW n \in 1 .. HeaderMax
  PROVE  /\ seq \in Nat /\ seq > 0
         /\ seq - n \in Nat
         /\ \A s \in seq - n .. seq - 1 : s \in Nat /\ 0 < s /\ s < seq
         /\ Missing(seq - n, seq) \subseteq Nat
         /\ \A s \in Missing(seq - n, seq) : s < seq
<1>1. seq \in Nat /\ seq > HeaderMax /\ HeaderMax \in Nat /\ n \in Nat /\ n <= HeaderMax
  BY VoiceAssumption
<1>2. seq - n \in Nat /\ seq - n > 0
  BY <1>1
<1>3. \A s \in seq - n .. seq - 1 : s \in Nat /\ 0 < s /\ s < seq
  BY <1>1, <1>2
<1>4. Missing(seq - n, seq) \subseteq Nat /\ \A s \in Missing(seq - n, seq) : s < seq
  BY <1>1, <1>2 DEF Missing
<1> QED BY <1>1, <1>2, <1>3, <1>4

(* What is asked for lies strictly between two packets.                    *)
LEMMA MissingLemma ==
  ASSUME NEW from \in Nat, NEW to \in Nat
  PROVE  \A s \in Missing(from, to) : s \in Nat /\ from < s /\ s < to
BY DEF Missing

(* A buffer that is emptied, or gone, satisfies the invariant.             *)
LEMMA EmptyLemma ==
  ASSUME running' \in BOOLEAN, Empty, present' \in BOOLEAN, ~ present'
  PROVE  Inv'
<1>1. GitterMax \in Nat /\ EmptyMax \in Nat /\ PackSize \in Nat \ {0} /\ PackTime \in Nat \ {0}
  BY VoiceAssumption
<1>2. /\ 0 \in 0 .. GitterMax /\ 0 \in 0 .. EmptyMax
      /\ 0 \in 0 .. PackSize - 1 /\ 1 \in 1 .. PackSize
  BY <1>1
<1>3. TypeOK'
  BY <1>2 DEF TypeOK, Empty
<1>4. AheadOfPlayback' /\ FirstFetchHasFront' /\ Behind'
  BY DEF AheadOfPlayback, FirstFetchHasFront, Behind, Empty
<1>5. Waited' /\ Overrun'
  BY <1>1 DEF Waited, Overrun, Empty
<1> QED BY <1>3, <1>4, <1>5 DEF Inv

LEMMA InitInv == Init => Inv
<1> SUFFICES ASSUME Init PROVE Inv
  OBVIOUS
<1>1. GitterMax \in Nat /\ EmptyMax \in Nat /\ PackSize \in Nat \ {0} /\ PackTime \in Nat \ {0}
  BY VoiceAssumption
<1>2. /\ 0 \in 0 .. GitterMax /\ 0 \in 0 .. EmptyMax
      /\ 0 \in 0 .. PackSize - 1 /\ 1 \in 1 .. PackSize
  BY <1>1
<1>3. TypeOK
  BY <1>2 DEF Init, TypeOK
<1>4. AheadOfPlayback /\ FirstFetchHasFront /\ Behind
  BY DEF Init, AheadOfPlayback, FirstFetchHasFront, Behind
<1>5. Waited /\ Overrun
  BY <1>1 DEF Init, Waited, Overrun
<1> QED BY <1>3, <1>4, <1>5 DEF Inv

-----------------------------------------------------------------------------
LEMMA PushFirstInv ==
  ASSUME Inv, NEW seq \in Seqs, NEW n \in 1 .. HeaderMax, PushFirst(seq, n)
  PROVE  Inv'
<1>1. /\ seq \in Nat /\ seq > 0
      /\ \A s \in seq - n .. seq - 1 : s \in Nat /\ 0 < s /\ s < seq
      /\ Missing(seq - n, seq) \subseteq Nat
  BY HeaderLemma
<1>2. GitterMax \in Nat /\ EmptyMax \in Nat /\ PackTime \in Nat \ {0} /\ 1 \in Nat
      /\ PackSize \in Nat \ {0}
  BY VoiceAssumption
<1>3. voices' = (seq - n .. seq - 1) \cup {seq}
  BY <1>1 DEF PushFirst, Insert
<1>4. asked' \subseteq Nat
  BY <1>1 DEF PushFirst
<1>5. /\ present' = TRUE /\ header' = seq - n .. seq - 1
      /\ currentSeq' = 0 /\ lastSeq' = seq
      /\ totalWait' = 0 /\ gitter' = 0 /\ emptyTimes' = 0 /\ pieces' = 0 /\ played' = {}
      /\ running' = running /\ bstop' = bstop /\ packetCount' = packetCount
  BY DEF PushFirst
<1>6. TypeOK'
  BY <1>1, <1>2, <1>3, <1>4, <1>5 DEF Inv, TypeOK
<1>7. AheadOfPlayback' /\ FirstFetchHasFront' /\ Behind'
  BY <1>1, <1>3, <1>5 DEF AheadOfPlayback, FirstFetchHasFront, Behind
<1>8. Waited' /\ Overrun'
  BY <1>1, <1>2, <1>5 DEF Waited, Overrun
<1> QED BY <1>6, <1>7, <1>8 DEF Inv

LEMMA PushNewerInv ==
  ASSUME Inv, NEW seq \in Seqs, NEW late \in Lateness, PushNewer(seq, late)
  PROVE  Inv'
<1>1. seq \in Nat /\ late \in 0 .. GitterMax /\ GitterMax \in Nat /\ PackTime \in Nat
  BY VoiceAssumption
<1>2. /\ lastSeq' = seq /\ seq > lastSeq
      /\ voices' \subseteq voices \cup {seq} /\ voices \subseteq voices'
      /\ \A s \in voices' : s \in voices \/ (s = seq /\ currentSeq < seq)
      /\ gitter' = IF late > gitter THEN late ELSE gitter
      /\ running' = running /\ present' = present /\ header' = header
      /\ currentSeq' = currentSeq /\ totalWait' = totalWait
      /\ emptyTimes' = emptyTimes /\ bstop' = bstop /\ pieces' = pieces
      /\ packetCount' = packetCount /\ played' = played
  BY <1>1 DEF PushNewer, Insert, Inv, TypeOK
<1>3. asked' \subseteq Nat
  BY <1>1, MissingLemma DEF PushNewer, Inv, TypeOK
<1>4. TypeOK'
  BY <1>1, <1>2, <1>3 DEF Inv, TypeOK
<1>5. AheadOfPlayback' /\ Behind' /\ Overrun'
  BY <1>1, <1>2 DEF Inv, TypeOK, AheadOfPlayback, Behind, Overrun
<1>6. FirstFetchHasFront'
  BY <1>2 DEF Inv, FirstFetchHasFront
<1>7. Waited'
  BY <1>1, <1>2 DEF Inv, TypeOK, Waited
<1> QED BY <1>4, <1>5, <1>6, <1>7 DEF Inv

LEMMA PushOlderInv ==
  ASSUME Inv, NEW seq \in Seqs, PushOlder(seq)
  PROVE  Inv'
<1>1. seq \in Nat
  BY VoiceAssumption
<1>2. /\ seq <= lastSeq
      /\ voices' \subseteq voices \cup {seq} /\ voices \subseteq voices'
      /\ \A s \in voices' : s \in voices \/ (s = seq /\ currentSeq < seq)
      /\ running' = running /\ present' = present /\ header' = header
      /\ currentSeq' = currentSeq /\ lastSeq' = lastSeq /\ totalWait' = totalWait
      /\ gitter' = gitter /\ emptyTimes' = emptyTimes /\ bstop' = bstop
      /\ pieces' = pieces /\ packetCount' = packetCount /\ played' = played
      /\ asked' = asked
  BY <1>1 DEF PushOlder, Insert, Inv, TypeOK
<1>3. TypeOK'
  BY <1>1, <1>2 DEF Inv, TypeOK
<1>4. AheadOfPlayback' /\ Behind' /\ Overrun' /\ FirstFetchHasFront' /\ Waited'
  BY <1>1, <1>2 DEF Inv, AheadOfPlayback, Behind, Overrun, FirstFetchHasFront, Waited
<1> QED BY <1>3, <1>4 DEF Inv

-----------------------------------------------------------------------------
(* Playing the least number in the queue.                                  *)
LEMMA PlayInv ==
  ASSUME Inv, NEW seq \in voices, \A s \in voices : seq <= s,
         Play(seq),
         UNCHANGED <<running, present, lastSeq, totalWait, gitter, bstop, asked>>,
         emptyTimes' \in {0, emptyTimes}
  PROVE  Inv'
<1>1. seq \in Nat /\ currentSeq < seq /\ seq <= lastSeq /\ lastSeq \in Nat
      /\ EmptyMax \in Nat /\ PackSize \in Nat \ {0}
  BY VoiceAssumption DEF Inv, TypeOK, AheadOfPlayback
<1>2. packetCount' \in 1 .. PackSize /\ pieces' \in 0 .. PackSize - 1
  BY <1>1 DEF Play, Inv, TypeOK
<1>3. played' \subseteq played \cup {seq} /\ played' \subseteq Nat
  BY <1>1 DEF Play, Inv, TypeOK
<1>4. currentSeq' = seq /\ voices' = voices \ {seq} /\ header' = header \ {seq}
  BY DEF Play
<1>5. TypeOK'
  BY <1>1, <1>2, <1>3, <1>4 DEF Inv, TypeOK
<1>6. AheadOfPlayback' /\ FirstFetchHasFront'
  BY <1>1, <1>4 DEF Inv, TypeOK, AheadOfPlayback, FirstFetchHasFront
<1>7. Behind'
  BY <1>1, <1>3, <1>4 DEF Inv, TypeOK, Behind
<1>8. Waited'
  BY DEF Inv, Waited
<1>9. emptyTimes' \in Nat /\ lastSeq' = lastSeq
  BY <1>1 DEF Inv, TypeOK
<1>10. \A a, b, c \in Nat : a <= b => a <= b + c
  OBVIOUS
<1>11. seq <= lastSeq + emptyTimes'
  BY <1>1, <1>9, <1>10
<1>12. Overrun'
  BY <1>4, <1>9, <1>11 DEF Overrun
<1> QED BY <1>5, <1>6, <1>7, <1>8, <1>12 DEF Inv

LEMMA FetchSilenceInv ==
  ASSUME Inv, FetchSilence
  PROVE  Inv'
<1>1. EmptyMax \in Nat /\ PackSize \in Nat \ {0} /\ PackTime \in Nat \ {0}
  BY VoiceAssumption
<1>2. /\ currentSeq \in Nat /\ lastSeq \in Nat /\ currentSeq # 0
      /\ totalWait \in Nat /\ gitter \in Nat /\ emptyTimes \in Nat
  BY VoiceAssumption DEF FetchSilence, Inv, TypeOK
<1>3. /\ running' = running /\ present' = present /\ voices' = voices
      /\ header' = header /\ lastSeq' = lastSeq /\ gitter' = gitter
      /\ bstop' = bstop /\ packetCount' = packetCount /\ played' = played
      /\ asked' = asked /\ pieces' = packetCount - 1
      /\ emptyTimes' = EmptyAgain /\ EmptyAgain <= EmptyMax
  BY DEF FetchSilence
<1>4. /\ totalWait' \in Nat /\ currentSeq' \in {currentSeq, currentSeq + 1}
      /\ totalWait' < gitter + PackTime
  BY <1>1, <1>2 DEF FetchSilence, Pass, Inv, Waited
<1>5. TypeOK'
  BY <1>1, <1>2, <1>3, <1>4 DEF Inv, TypeOK, EmptyAgain
<1>6. \A s \in voices : s \in Nat /\ currentSeq + 1 < s /\ s <= lastSeq
  BY <1>2 DEF FetchSilence, Awaited, Inv, TypeOK, AheadOfPlayback
<1>7. AheadOfPlayback'
  BY <1>2, <1>3, <1>4, <1>6 DEF AheadOfPlayback
<1>8. FirstFetchHasFront' /\ Waited'
  BY <1>2, <1>3, <1>4 DEF FirstFetchHasFront, Waited
<1>9. Overrun'
  <2>1. CASE voices = {}
    BY <2>1, <1>2, <1>3, <1>4 DEF Inv, Overrun, EmptyAgain
  <2>2. CASE voices # {}
    BY <2>2, <1>2, <1>3, <1>4, <1>6 DEF Overrun, EmptyAgain
  <2> QED BY <2>1, <2>2
<1>10. Behind'
  BY <1>2, <1>3, <1>4 DEF Inv, TypeOK, Behind
<1> QED BY <1>5, <1>7, <1>8, <1>9, <1>10 DEF Inv

-----------------------------------------------------------------------------
LEMMA NextInv == Inv /\ [Next]_vars => Inv'
<1> SUFFICES ASSUME Inv, [Next]_vars PROVE Inv'
  OBVIOUS
<1>1. CASE \E seq \in Seqs : Push(seq)
  BY <1>1, PushFirstInv, PushNewerInv, PushOlderInv DEF Push
<1>2. CASE FetchPiece
  BY <1>2, VoiceAssumption
  DEF FetchPiece, buffer, Inv, TypeOK, AheadOfPlayback, FirstFetchHasFront, Waited, Overrun, Behind
<1>3. CASE FetchEnd \/ FetchTired
  <2>1. running' \in BOOLEAN /\ Empty /\ present' = FALSE
    BY <1>3 DEF FetchEnd, FetchTired, Inv, TypeOK
  <2> QED BY <2>1, EmptyLemma
<1>4. CASE \E seq \in voices : FetchFirst(seq)
  BY <1>4, PlayInv DEF FetchFirst
<1>5. CASE FetchNext
  BY <1>5, PlayInv DEF FetchNext
<1>6. CASE FetchSilence
  BY <1>6, FetchSilenceInv
<1>7. CASE Stop
  BY <1>7
  DEF Stop, Inv, TypeOK, AheadOfPlayback, FirstFetchHasFront, Waited, Overrun, Behind
<1>8. CASE \E start \in BOOLEAN : Clear(start)
  <2>1. running' \in BOOLEAN /\ Empty /\ present' = FALSE
    BY <1>8 DEF Clear, Inv, TypeOK
  <2> QED BY <2>1, EmptyLemma
<1>9. CASE UNCHANGED vars
  BY <1>9
  DEF vars, buffer, Inv, TypeOK, AheadOfPlayback, FirstFetchHasFront, Waited, Overrun, Behind
<1> QED BY <1>1, <1>2, <1>3, <1>4, <1>5, <1>6, <1>7, <1>8, <1>9 DEF Next, Fetch

(* The four numbers of a receive buffer keep their relations for ever.     *)
THEOREM InvHolds == Spec => []Inv
<1> QED BY InitInv, NextInv, PTL DEF Spec

(* Every state of the buffer has its type.                                 *)
THEOREM TypeCorrect == Spec => []TypeOK
<1>1. Inv => TypeOK
  BY DEF Inv
<1> QED BY <1>1, InvHolds, PTL

(* The assertion in fetch (VoiceDataManager.cpp:267) holds, whatever the   *)
(* order in which packets arrive, and however often.                       *)
THEOREM AheadCorrect == Spec => []AheadOfPlayback
<1>1. Inv => AheadOfPlayback
  BY DEF Inv
<1> QED BY <1>1, InvHolds, PTL

(* The first fetch finds a packet (VoiceDataManager.cpp:259).              *)
THEOREM FrontCorrect == Spec => []FirstFetchHasFront
<1>1. Inv => FirstFetchHasFront
  BY DEF Inv
<1> QED BY <1>1, InvHolds, PTL

(* Waiting for late packets is bounded for every clock.                    *)
THEOREM DelayCorrect == Spec => []DelayBounded
<1>1. Inv => DelayBounded
  BY VoiceAssumption DEF Inv, TypeOK, Waited, DelayBounded
<1> QED BY <1>1, InvHolds, PTL

(* Playback overruns the newest packet by EmptyMax at most.                *)
THEOREM OverrunCorrect == Spec => []OverrunBounded
<1>1. Inv => OverrunBounded
  BY VoiceAssumption DEF Inv, TypeOK, Overrun, OverrunBounded
<1> QED BY <1>1, InvHolds, PTL

-----------------------------------------------------------------------------
(* A packet is played after all that were played before it in its talk.    *)
THEOREM OrderCorrect == Spec => PlayedInOrder
<1> DEFINE A == \A s \in played' \ played, t \in played : t < s
<1>1. Inv /\ [Next]_vars => [A]_vars
  <2> SUFFICES ASSUME Inv, Next, NEW s \in played' \ played, NEW t \in played PROVE t < s
    BY DEF vars
  <2>1. PICK seq \in voices : s = seq
    BY DEF Next, Push, PushFirst, PushNewer, PushOlder, Fetch, FetchPiece, FetchEnd,
           FetchFirst, FetchNext, FetchSilence, FetchTired, Play, Empty, Stop, Clear, buffer
  <2> QED BY <2>1 DEF Inv, TypeOK, AheadOfPlayback, Behind
<1> QED BY <1>1, InvHolds, PTL DEF Spec, PlayedInOrder

(* A resend is asked for packets that are missing, of this talk.           *)
THEOREM AskedCorrect == Spec => AskedMissing
<1> DEFINE A == \A s \in asked' \ asked : s \notin played' \cup (voices' \ header')
<1>1. Inv /\ [Next]_vars => [A]_vars
  <2> SUFFICES ASSUME Inv, Next, NEW s \in asked' \ asked
               PROVE  s \notin played' \cup (voices' \ header')
    BY DEF vars
  <2>1. \/ \E seq \in Seqs, n \in 1 .. HeaderMax : PushFirst(seq, n)
        \/ \E seq \in Seqs, late \in Lateness : PushNewer(seq, late)
    BY DEF Next, Push, PushOlder, Fetch, FetchPiece, FetchEnd,
           FetchFirst, FetchNext, FetchSilence, FetchTired, Play, Empty, Stop, Clear, buffer
  <2>2. ASSUME NEW seq \in Seqs, NEW n \in 1 .. HeaderMax, PushFirst(seq, n)
        PROVE  s \notin played' \cup (voices' \ header')
    <3>1. s < seq /\ seq \in Nat
      BY <2>2, HeaderLemma DEF PushFirst
    <3>2. played' = {} /\ voices' \ header' \subseteq {seq}
      BY <2>2 DEF PushFirst, Insert
    <3> QED BY <3>1, <3>2
  <2>3. ASSUME NEW seq \in Seqs, NEW late \in Lateness, PushNewer(seq, late)
        PROVE  s \notin played' \cup (voices' \ header')
    <3>1. seq \in Nat /\ lastSeq \in Nat
      BY VoiceAssumption DEF Inv, TypeOK
    <3>2. s \in Missing(lastSeq, seq)
      BY <2>3 DEF PushNewer
    <3>3. s \in Nat /\ lastSeq < s /\ s < seq
      BY <3>1, <3>2, MissingLemma
    <3>4. played' = played /\ voices' \subseteq voices \cup {seq}
      BY <2>3 DEF PushNewer, Insert
    <3> QED BY <3>1, <3>3, <3>4 DEF Inv, TypeOK, AheadOfPlayback, Behind
  <2> QED BY <2>1, <2>2, <2>3
<1> QED BY <1>1, InvHolds, PTL DEF Spec, AskedMissing

-----------------------------------------------------------------------------
(* What SilenceEnds, StopEnds and BufferDrains rest on besides fairness.   *)
(* What a buffer may still wait, and how far it may still play, is finite: *)
(* a fetch that keeps the buffer uses some of it up, or only takes a piece *)
(* of the current packet, and nothing but a packet that arrives adds to it.*)
Budget == (GitterMax + PackTime - totalWait) + (lastSeq + EmptyMax - currentSeq)

Spent == /\ Fetch /\ present'
              => Budget' < Budget \/ (Budget' = Budget /\ pieces' < pieces)
         /\ present /\ present' /\ ~ (\E seq \in Seqs : Push(seq))
              => Budget' < Budget \/ Budget' = Budget

LEMMA BudgetIsNat == Inv => Budget \in Nat
<1> SUFFICES ASSUME Inv PROVE Budget \in Nat
  OBVIOUS
<1>1. /\ totalWait \in Nat /\ gitter \in 0 .. GitterMax /\ GitterMax \in Nat
      /\ PackTime \in Nat /\ currentSeq \in Nat /\ lastSeq \in Nat
      /\ EmptyMax \in Nat /\ emptyTimes \in 0 .. EmptyMax
  BY VoiceAssumption DEF Inv, TypeOK
<1>2. GitterMax + PackTime - totalWait \in Nat
  BY <1>1 DEF Inv, Waited
<1>3. lastSeq + EmptyMax - currentSeq \in Nat
  BY <1>1 DEF Inv, Overrun
<1> QED BY <1>2, <1>3 DEF Budget

LEMMA Later ==
  ASSUME NEW g \in Nat, NEW p \in Nat, NEW w \in Nat, NEW l \in Nat, NEW e \in Nat,
         NEW c \in Nat, NEW d \in Nat, c < d
  PROVE  (g + p - w) + (l + e - d) < (g + p - w) + (l + e - c)
OBVIOUS

LEMMA Waiting ==
  ASSUME NEW g \in Nat, NEW p \in Nat \ {0}, NEW w \in Nat, NEW l \in Nat,
         NEW e \in Nat, NEW c \in Nat
  PROVE  (g + p - (w + p)) + (l + e - c) < (g + p - w) + (l + e - c)
OBVIOUS

LEMMA SpentStep == Inv /\ [Next]_vars => Spent
<1> SUFFICES ASSUME Inv, [Next]_vars PROVE Spent
  OBVIOUS
<1>1. /\ totalWait \in Nat /\ GitterMax \in Nat /\ PackTime \in Nat \ {0}
      /\ currentSeq \in Nat /\ lastSeq \in Nat /\ EmptyMax \in Nat
      /\ pieces \in Nat
  BY VoiceAssumption DEF Inv, TypeOK
<1>2. ASSUME UNCHANGED <<totalWait, lastSeq, currentSeq>> PROVE Budget' = Budget
  BY <1>2 DEF Budget
<1>3. ASSUME UNCHANGED <<totalWait, lastSeq>>, currentSeq' \in Nat, currentSeq < currentSeq'
      PROVE  Budget' < Budget
  <2>1. Budget' = (GitterMax + PackTime - totalWait) + (lastSeq + EmptyMax - currentSeq')
    BY <1>3 DEF Budget
  <2> QED BY <1>1, <1>3, <2>1, Later DEF Budget
<1>4. ASSUME UNCHANGED <<currentSeq, lastSeq>>, totalWait' = totalWait + PackTime
      PROVE  Budget' < Budget
  <2>1. Budget' = (GitterMax + PackTime - (totalWait + PackTime))
                  + (lastSeq + EmptyMax - currentSeq)
    BY <1>4 DEF Budget
  <2> QED BY <1>1, <2>1, Waiting DEF Budget
<1>5. ASSUME FetchPiece PROVE Budget' = Budget /\ pieces' < pieces
  BY <1>1, <1>2, <1>5 DEF FetchPiece, buffer
<1>6. ASSUME NEW seq \in voices, FetchFirst(seq) PROVE Budget' < Budget
  <2>1. seq \in Nat /\ currentSeq < seq
    BY DEF Inv, TypeOK, AheadOfPlayback
  <2> QED BY <1>3, <1>6, <2>1 DEF FetchFirst, Play
<1>7. ASSUME FetchNext PROVE Budget' < Budget
  <2>1. currentSeq + 1 \in Nat /\ currentSeq < currentSeq + 1
    BY <1>1
  <2> QED BY <1>3, <1>7, <2>1 DEF FetchNext, Play
<1>8. ASSUME FetchSilence PROVE Budget' < Budget
  <2>1. currentSeq + 1 \in Nat /\ currentSeq < currentSeq + 1
    BY <1>1
  <2>2. CASE gitter > totalWait
    BY <1>4, <1>8, <2>2 DEF FetchSilence, Pass
  <2>3. CASE ~ (gitter > totalWait)
    BY <1>3, <1>8, <2>1, <2>3 DEF FetchSilence, Pass
  <2> QED BY <2>2, <2>3
<1>9. ASSUME FetchEnd \/ FetchTired \/ \E start \in BOOLEAN : Clear(start)
      PROVE  ~ present'
  BY <1>9 DEF FetchEnd, FetchTired, Clear
<1>10. ASSUME Stop \/ UNCHANGED vars PROVE Budget' = Budget
  BY <1>2, <1>10 DEF Stop, vars, buffer
<1>11. ASSUME Fetch, present'
       PROVE  Budget' < Budget \/ (Budget' = Budget /\ pieces' < pieces)
  BY <1>5, <1>6, <1>7, <1>8, <1>9, <1>11 DEF Fetch
<1>12. ASSUME present', ~ (\E seq \in Seqs : Push(seq))
       PROVE  Budget' = Budget \/ Budget' < Budget
  BY <1>9, <1>10, <1>11, <1>12 DEF Next
<1> QED BY <1>11, <1>12 DEF Spent

(* For every clock and every limit: the budget is a natural number, so a   *)
(* buffer to which no packet comes is erased after finitely many fetches.  *)
THEOREM BudgetSpent == Spec => [](Budget \in Nat) /\ [][Spent]_vars
<1> QED BY InvHolds, BudgetIsNat, SpentStep, PTL DEF Spec
=============================================================================
