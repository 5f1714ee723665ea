----------------------------- MODULE PacketLoss -----------------------------
(***************************************************************************)
(* How the statistics of all speakers become a change of the main          *)
(* connection (VoiceDataManager::statistics, on a timer): the shares of    *)
(* packets that came are averaged over the speakers and over the last five *)
(* times, and a bad average is notified to SessionImp, which calls         *)
(* ChangeMain of the connection pool.                                      *)
(***************************************************************************)
EXTENDS Integers, Sequences, SequencesExt

CONSTANT Samples    \* counts of a speaker's packets: [total, gets]

VARIABLES
  gets,      \* __last_valid_gets_percentage
  notice,    \* what was notified last time, or "none"
  measured   \* history: the shares that were measured, per mille, newest last

vars == <<gets, notice, measured>>

Init == gets = << >> /\ notice = "none" /\ measured = << >>

\* Share of i2 in i1, as log computes it.
Perc(i1, i2) == IF i1 = 0 THEN 0 ELSE (i2 * 1000) \div i1

Total(s) == FoldSeq(+, 0, s)

Mean(s) == Total(s) \div Len(s)

\* The newest five of a list.
Newest(s) == IF Len(s) >= 5 THEN Tail(s) ELSE s

MeanShare(s) == Mean([i \in DOMAIN s |-> Perc(s[i].total, s[i].gets)])

Counted(p) == p.total > 20

\* A speaker's share is looked at if there are enough packets and it is a number
\* from 1 to 100.
Valid(p) == Counted(p) /\ Perc(p.total, p.gets) \in 1 .. 100

\* What is notified of a list of shares.
Judge(s) ==
  LET average == Mean(s)
      recent  == Last(s)
  IN  IF Len(s) < 3 THEN "none"
      ELSE IF average < 85 THEN "OnPacketLossTooMuch"
      ELSE IF (recent < average /\ recent < 100 - 6) \/ recent < 100 - 10
      THEN "OnPacketLossChangeBad"
      ELSE "none"

\* One turn of the timer, with the counts of each speaker that is heard.
Statistics(heard) ==
  LET shares == SelectSeq(heard, Valid)
      all    == SelectSeq(heard, Counted)
  IN  /\ gets' = IF shares = << >> THEN Newest(gets)
                 ELSE Append(Newest(gets), MeanShare(shares))
      /\ notice' = IF shares = << >> THEN "none" ELSE Judge(gets')
      /\ measured' = IF all = << >> THEN Newest(measured)
                     ELSE Append(Newest(measured), MeanShare(all))

Next == \E heard \in BoundedSeq(Samples, 2) : Statistics(heard)

Spec == Init /\ [][Next]_vars

-----------------------------------------------------------------------------
\* An average loss of more than 15% (VoiceDataManager.cpp:885) is notified as too
\* much, each time the statistics are made of at least three measurements.
LossNoticed ==
  Len(measured) >= 3 /\ Mean(measured) < 850 => notice = "OnPacketLossTooMuch"
=============================================================================
