---------------------------- MODULE SpeakerQueue ----------------------------
(***************************************************************************)
(* What the queue of a channel in microphone style promises its viewers.   *)
(*                                                                         *)
(* The front speaks, the others wait; newcomers join at the end, managers  *)
(* exchange neighbours or bring somebody behind the speaker, and nobody    *)
(* but the front's own leaving, or the end of his time, changes who speaks.*)
(* A viewer sees a queue while he is in the channel, and no queue before.  *)
(***************************************************************************)
EXTENDS Naturals, Sequences, SequencesExt

CONSTANT User

VARIABLES shown, queue

\* Nobody is in a queue twice.
Proper(q) == q \in Seq(User) /\ IsInjective(q)

\* Who waits: everybody behind the speaker.
Waiting(q) == {q[i] : i \in 2 .. Len(q)}

Exchange(q, i) == [q EXCEPT ![i] = q[i + 1], ![i + 1] = q[i]]

Place(q, u) == CHOOSE i \in DOMAIN q : q[i] = u

Lowered(q, u) == Exchange(q, Place(q, u))

Raised(q, u) == Exchange(q, Place(q, u) - 1)

\* Behind the speaker, and before all others, whose order is kept.
Second(q, u) ==
  [i \in DOMAIN q |-> IF i = 2 THEN u
                      ELSE IF i > 2 /\ i <= Place(q, u) THEN q[i - 1]
                      ELSE q[i]]

Left(q, u) == [i \in 1 .. Len(q) - 1 |-> IF i < Place(q, u) THEN q[i] ELSE q[i + 1]]

CanLower(q, u) == u \in Waiting(q) /\ u # Last(q)

CanRaise(q, u) == u \in Waiting(q) /\ u # q[2]

-----------------------------------------------------------------------------
Init == shown = FALSE /\ queue = << >>

Enter == ~ shown /\ shown' = TRUE /\ Proper(queue')

\* The viewer goes elsewhere, or cannot rely any more on what he sees.
Hide == shown' = FALSE /\ queue' = << >>

Join == IsStrictPrefix(queue, queue') /\ Proper(queue')

Leave == \E u \in ToSet(queue) : queue' = Left(queue, u)

Move == \E u \in Waiting(queue) :
          \/ CanLower(queue, u) /\ queue' = Lowered(queue, u)
          \/ CanRaise(queue, u) /\ queue' = Raised(queue, u)
          \/ CanRaise(queue, u) /\ queue' = Second(queue, u)

Clear == queue' = << >>

Next == \/ Enter \/ Hide
        \/ /\ shown /\ shown' = shown /\ queue' # queue
           /\ Join \/ Leave \/ Move \/ Clear

Spec == Init /\ [][Next]_<<shown, queue>>

\* As long as there is a speaker and he is seen, another one takes his place only
\* by his leaving: no newcomer does, and no move.
SpeakerStays ==
  [][shown /\ shown' /\ queue # << >> /\ queue' # << >> /\ Head(queue') # Head(queue)
       => queue' = Left(queue, Head(queue))]_<<shown, queue>>
=============================================================================
