------------------------ MODULE VoiceDataStatistics -------------------------
(***************************************************************************)
(* What became of the last packets of one speaker                          *)
(* (src/xproto/VoiceDataStatistics.cpp): a ring of marks, one for each     *)
(* number, that VoiceData sets as packets come, are missed, asked for      *)
(* again, or passed by playback.                                           *)
(*                                                                         *)
(* Numbers are counted in packets, as in VoiceData.  What the buffer tells *)
(* is open, but for one thing: it takes a packet at most once.  The marks  *)
(* for packets nobody has spoken (emptyVoice) and the counts of silence    *)
(* put in for a packet are left out; they decide nothing here.             *)
(***************************************************************************)
EXTENDS Naturals

CONSTANTS
  Seqs,    \* numbers of packets
  Ring,    \* MAX_STAT_VECTOR, 500
  Jump     \* MAX_JUMP_VECTOR, 400: 200 packets

ASSUME StatisticsAssumption ==
  Ring \in Nat /\ Jump \in Nat /\ Jump < Ring /\ Seqs \subseteq Nat \ {0}

VARIABLES
  lastseq,  \* __lastseq, the newest number that is marked, or 0
  marks,    \* __voiceStates
  taken     \* numbers of the packets that the buffer has taken

vars == <<lastseq, marks, taken>>

Received == {"succ", "resend_succ", "resend_excess"}

State == Received \cup {"init", "loss", "resend", "resend_late", "real_loss"}

Pos(seq) == seq % Ring

Unmarked == [i \in 0 .. Ring - 1 |-> [seq |-> 0, state |-> "init"]]

Init == lastseq = 0 /\ marks = Unmarked /\ taken = {}

-----------------------------------------------------------------------------
\* The check for data in disorder.
Disordered == lastseq # 0 /\ marks[Pos(lastseq)].seq # lastseq

\* Fault: only newer numbers are looked at.
FarAhead(seq) == lastseq # 0 /\ seq > lastseq + Jump

\* No packet of this talk is so far from the newest one.
Far(seq) == lastseq # 0 /\ (seq > lastseq + Jump \/ lastseq > seq + Jump)

\* Fault: whatever comes last counts.
RemarkAlways(old, s) == s

\* A second mark for the same number.
Remark(old, s) ==
  IF old \notin {"succ", "resend_succ"} THEN s
  ELSE IF old = "succ" /\ s = "resend_late" THEN "resend_excess"
  ELSE old

\* Fault: the numbers between are left as they are.
FillNone(seq, s) ==
  [marks EXCEPT ![Pos(seq)] = [seq |-> seq, state |-> s]]

\* The mark for a new number, and one for each number before it that is missing.
Fill(seq, s) ==
  LET skipped == IF lastseq = 0 THEN {} ELSE lastseq + 1 .. seq - 1
  IN  [i \in 0 .. Ring - 1 |->
         IF i = Pos(seq) THEN [seq |-> seq, state |-> s]
         ELSE IF \E n \in skipped : Pos(n) = i
         THEN [seq |-> CHOOSE n \in skipped : Pos(n) = i, state |-> "loss"]
         ELSE marks[i]]

\* flush with a state: a jump starts afresh, and is not marked itself.
Flush(seq, s) ==
  IF Disordered \/ Far(seq)
  THEN lastseq' = 0 /\ marks' = Unmarked
  ELSE IF marks[Pos(seq)].seq = seq
  THEN lastseq' = lastseq /\ marks' = [marks EXCEPT ![Pos(seq)].state = Remark(@, s)]
  ELSE /\ lastseq' = IF seq > lastseq THEN seq ELSE lastseq
       /\ marks' = Fill(seq, s)

\* The buffer takes a packet.
Take(seq, isResend) ==
  /\ seq \notin taken
  /\ taken' = taken \cup {seq}
  /\ Flush(seq, IF isResend THEN "resend_succ" ELSE "succ")

\* It refuses one: too late, or there already.
Refuse(seq, isResend) ==
  /\ Flush(seq, IF isResend THEN "resend_late" ELSE "real_loss")
  /\ UNCHANGED taken

\* A gap is seen, and a resend asked for.
Miss(seq) == Flush(seq, "resend") /\ UNCHANGED taken

\* Silence was played for a number that is not marked yet.
Empty(seq) ==
  /\ marks[Pos(seq)].seq < seq
  /\ Flush(seq, "loss")
  /\ UNCHANGED taken

\* The statistics go with the buffer.
Forget == lastseq' = 0 /\ marks' = Unmarked /\ taken' = {}

Next == \/ \E seq \in Seqs, isResend \in BOOLEAN : Take(seq, isResend) \/ Refuse(seq, isResend)
        \/ \E seq \in Seqs : Miss(seq) \/ Empty(seq)
        \/ Forget

Spec == Init /\ [][Next]_vars

-----------------------------------------------------------------------------
\* Data in disorder, which the comment at VoiceDataStatistics.cpp:84 speaks of
\* and an assertion there once excluded, never occurs: the newest number has its
\* mark.
InOrder == ~ Disordered

\* A mark stands where its number belongs, and is one of the newest: no mark of
\* an earlier turn of the ring is left for log to count, though flush overwrites
\* only the places it passes, and late packets go back.
NoStaleMark ==
  \A i \in 0 .. Ring - 1 :
    marks[i].seq # 0 => /\ Pos(marks[i].seq) = i
                        /\ marks[i].seq <= lastseq
                        /\ lastseq < marks[i].seq + Ring

\* A first success is not taken back, whatever comes after it.
FirstMarkKept ==
  [][\A i \in 0 .. Ring - 1 :
       marks'[i].seq = marks[i].seq /\ marks[i].state \in {"succ", "resend_succ"} =>
         marks'[i].state \in Received]_vars

\* A packet that has come counts as received for good: an additional resend
\* (VoiceDataStatistics.h:23) is one of a packet that is there, and log counts it
\* with the successes (VoiceDataStatistics.cpp:199-203).
ReceivedKept ==
  [][\A i \in 0 .. Ring - 1 :
       marks'[i].seq = marks[i].seq /\ marks[i].state \in Received =>
         marks'[i].state \in Received]_vars
=============================================================================
