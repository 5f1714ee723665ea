----------------------------- MODULE VoiceData ------------------------------
(***************************************************************************)
(* The receive buffer of one speaker (src/xproto/VoiceDataManager.cpp):    *)
(* the VoiceData of a user and what VoiceDataManager does with it.         *)
(*                                                                         *)
(* The UI thread pushes the packets that arrive, in any order and any      *)
(* number of times, and the audio thread fetches one piece at a time; both *)
(* hold __cs, so each call is one action.  Playback starts with a header   *)
(* of silent packets, waits for a missing one while the lateness seen      *)
(* justifies it, counts it lost and goes on; a buffer that stays empty, or *)
(* is stopped and played out, is erased.                                   *)
(*                                                                         *)
(* Sequence numbers are counted in steps of PACKET_SEQ_INCREMENT: speakers *)
(* start at 1000, add 2 for a packet and 1500 at the end of a talk.        *)
(* Payloads are left out, but for the pieces a packet is fetched in, and   *)
(* for silence.  The clock is open: a packet may be found late by any of   *)
(* Lateness.  So are the pings that give the length of the header, and     *)
(* what the statistics know of packets nobody has spoken (isNeedResend).   *)
(***************************************************************************)
EXTENDS Naturals

CONSTANTS
  Seqs,        \* numbers of the packets that speakers send
  SeqPage,     \* SEQPAGE, 500 steps: so far ahead is another talk
  HeaderMax,   \* packets in the longest header, 15
  MaxLostGap,  \* MAX_LOST_GAP, 5
  GitterMax,   \* 560 ms
  PackTime,    \* GetPackTime(), 80 ms
  Lateness,    \* lateness of packets, cut at GitterMax
  PackSize,    \* pieces in a packet, 1 to 6
  EmptyMax     \* fetches from an empty buffer before it goes, 50

ASSUME VoiceAssumption ==
  /\ SeqPage \in Nat /\ HeaderMax \in Nat \ {0} /\ MaxLostGap \in Nat
  /\ Seqs \subseteq {s \in Nat : s > HeaderMax}
  /\ GitterMax \in Nat /\ Lateness \subseteq 0 .. GitterMax
  /\ PackTime \in Nat \ {0} /\ PackSize \in Nat \ {0} /\ EmptyMax \in Nat

VARIABLES
  running,     \* __running
  present,     \* the user has an entry in __user_voices
  voices,      \* sequence numbers in voices, which is sorted by them
  header,      \* those of them that reset has put there
  currentSeq,  \* the packet played last, 0 before the first
  lastSeq,     \* the highest that was pushed
  totalWait,   \* time spent waiting for missing packets
  gitter,      \* maxGitterTime
  emptyTimes,
  bstop,
  pieces,      \* _packets: pieces of the current packet to be fetched
  packetCount, \* _packetCount: pieces in the last packet with voice
  played,      \* packets played since the buffer was last reset
  asked        \* packets a resend was asked for since then

buffer == <<voices, header, currentSeq, lastSeq, totalWait, gitter, emptyTimes, bstop>>
vars == <<running, present, buffer, pieces, packetCount, played, asked>>

\* A VoiceData as its constructor leaves it, or no VoiceData.
Empty ==
  /\ voices' = {} /\ header' = {}
  /\ currentSeq' = 0 /\ lastSeq' = 0
  /\ totalWait' = 0 /\ gitter' = 0 /\ emptyTimes' = 0
  /\ bstop' = FALSE
  /\ pieces' = 0 /\ packetCount' = 1
  /\ played' = {} /\ asked' = {}

Init ==
  /\ running = FALSE /\ present = FALSE
  /\ voices = {} /\ header = {}
  /\ currentSeq = 0 /\ lastSeq = 0
  /\ totalWait = 0 /\ gitter = 0 /\ emptyTimes = 0
  /\ bstop = FALSE
  /\ pieces = 0 /\ packetCount = 1
  /\ played = {} /\ asked = {}

-----------------------------------------------------------------------------
\* on_packet_loss: the packets between two others are asked for, unless there
\* are too many or they are known to be silent.
Missing(from, to) ==
  IF to < from + MaxLostGap THEN from + 1 .. to - 1 ELSE {}

\* Fault: what is played is not refused.
InsertAny(seq, queue, current) == queue \cup {seq}

\* insert refuses what is played or counted lost.
Insert(seq, queue, current) ==
  IF seq <= current THEN queue ELSE queue \cup {seq}

\* The first packet of a talk, or of another talk than the last one: reset
\* throws away what is left and puts a header before it.  If there is an entry,
\* push then takes the header's start for the last packet before this one.
PushFirst(seq, n) ==
  /\ running /\ ~ bstop
  /\ ~ present \/ seq >= SeqPage + lastSeq
  /\ present' = TRUE
  /\ header' = seq - n .. seq - 1
  /\ voices' = Insert(seq, seq - n .. seq - 1, 0)
  /\ currentSeq' = 0 /\ lastSeq' = seq
  /\ totalWait' = 0 /\ gitter' = 0 /\ emptyTimes' = 0
  /\ pieces' = 0 /\ played' = {}
  /\ asked' \in IF present THEN SUBSET Missing(seq - n, seq) ELSE {{}}
  /\ UNCHANGED <<running, bstop, packetCount>>

\* A packet that is newer than the others shows how late they come, and which
\* are missing.
PushNewer(seq, late) ==
  /\ running /\ present /\ ~ bstop
  /\ seq > lastSeq /\ seq < SeqPage + lastSeq
  /\ lastSeq' = seq
  /\ gitter' = IF late > gitter THEN late ELSE gitter
  /\ voices' = Insert(seq, voices, currentSeq)
  /\ \E lost \in SUBSET Missing(lastSeq, seq) : asked' = asked \cup lost
  /\ UNCHANGED <<running, present, header, currentSeq, totalWait, emptyTimes,
                 bstop, pieces, packetCount, played>>

\* Fault: the last packet is the one that came last.
PushOlderAsLast(seq) ==
  /\ running /\ present /\ ~ bstop
  /\ seq <= lastSeq
  /\ lastSeq' = seq
  /\ voices' = Insert(seq, voices, currentSeq)
  /\ UNCHANGED <<running, present, header, currentSeq, totalWait, gitter,
                 emptyTimes, bstop, pieces, packetCount, played, asked>>

\* A late, resent or repeated packet.
PushOlder(seq) ==
  /\ running /\ present /\ ~ bstop
  /\ seq <= lastSeq
  /\ voices' = Insert(seq, voices, currentSeq)
  /\ UNCHANGED <<running, present, header, currentSeq, lastSeq, totalWait, gitter,
                 emptyTimes, bstop, pieces, packetCount, played, asked>>

Push(seq) ==
  \/ \E n \in 1 .. HeaderMax : PushFirst(seq, n)
  \/ \E late \in Lateness : PushNewer(seq, late)
  \/ PushOlder(seq)

-----------------------------------------------------------------------------
\* fetch, while the current packet has pieces left.
FetchPiece ==
  /\ running /\ present
  /\ pieces > 0
  /\ pieces' = pieces - 1
  /\ UNCHANGED <<running, present, buffer, packetCount, played, asked>>

\* Fault: a stopped buffer is rewound, and its entry kept.
FetchEndKeeps ==
  /\ running /\ present
  /\ pieces = 0
  /\ bstop /\ voices = {}
  /\ emptyTimes' = 0
  /\ UNCHANGED <<running, present, voices, header, currentSeq, lastSeq, totalWait,
                 gitter, bstop, pieces, packetCount, played, asked>>

\* A stopped buffer that is played out: the manager erases the entry.
FetchEnd ==
  /\ running /\ present
  /\ pieces = 0
  /\ bstop /\ voices = {}
  /\ present' = FALSE
  /\ Empty
  /\ UNCHANGED running

Ready == running /\ present /\ pieces = 0 /\ ~ (bstop /\ voices = {})

\* Fault: the piece that is returned stays in the queue of pieces.
PlayKeepsPiece(seq) ==
  /\ currentSeq' = seq
  /\ voices' = voices \ {seq}
  /\ header' = header \ {seq}
  /\ packetCount' = IF seq \in header THEN packetCount ELSE PackSize
  /\ pieces' = packetCount'
  /\ played' = IF seq \in header THEN played ELSE played \cup {seq}

\* parsePacket on the front of the queue, and its removal.
Play(seq) ==
  /\ currentSeq' = seq
  /\ voices' = voices \ {seq}
  /\ header' = header \ {seq}
  /\ packetCount' = IF seq \in header THEN packetCount ELSE PackSize
  /\ pieces' = packetCount' - 1
  /\ played' = IF seq \in header THEN played ELSE played \cup {seq}

\* Playback starts with the front of the queue, whatever it is.
FetchFirst(seq) ==
  /\ Ready
  /\ currentSeq = 0
  /\ seq \in voices /\ \A s \in voices : seq <= s
  /\ Play(seq)
  /\ UNCHANGED <<running, present, lastSeq, totalWait, gitter, emptyTimes, bstop, asked>>

\* The front is the next packet.
FetchNext ==
  /\ Ready
  /\ currentSeq # 0
  /\ currentSeq + 1 \in voices /\ \A s \in voices : currentSeq + 1 <= s
  /\ Play(currentSeq + 1)
  /\ emptyTimes' = 0
  /\ UNCHANGED <<running, present, lastSeq, totalWait, gitter, bstop, asked>>

\* It is not, or there is none: silence instead, to wait for it or to pass it.
Awaited == voices = {} \/ \E s \in voices : s # currentSeq + 1 /\ \A t \in voices : s <= t

\* Fault: an empty fetch counts only while playback waits.
EmptyAgainWaiting ==
  IF voices = {} /\ gitter > totalWait THEN emptyTimes + 1 ELSE 0

EmptyAgain == IF voices = {} THEN emptyTimes + 1 ELSE 0

\* Fault: playback waits whenever the buffer is empty, as JitterBuffer does.
PassWhenEmpty ==
  IF gitter > totalWait \/ voices = {}
  THEN totalWait' = totalWait + PackTime /\ currentSeq' = currentSeq
  ELSE totalWait' = totalWait /\ currentSeq' = currentSeq + 1

\* Fault: the time spent waiting is not added up.
PassUncounted ==
  IF gitter > totalWait
  THEN totalWait' = totalWait /\ currentSeq' = currentSeq
  ELSE totalWait' = totalWait /\ currentSeq' = currentSeq + 1

\* Fault: after a loss playback starts afresh with the front of the queue.
PassAfresh ==
  IF gitter > totalWait
  THEN totalWait' = totalWait + PackTime /\ currentSeq' = currentSeq
  ELSE totalWait' = totalWait /\ currentSeq' = 0

Pass ==
  IF gitter > totalWait
  THEN totalWait' = totalWait + PackTime /\ currentSeq' = currentSeq
  ELSE totalWait' = totalWait /\ currentSeq' = currentSeq + 1

FetchSilence ==
  /\ Ready
  /\ currentSeq # 0
  /\ Awaited
  /\ EmptyAgain <= EmptyMax
  /\ Pass
  /\ emptyTimes' = EmptyAgain
  /\ pieces' = packetCount - 1
  /\ UNCHANGED <<running, present, voices, header, lastSeq, gitter, bstop,
                 packetCount, played, asked>>

\* Fault: fetch succeeds all the same.
FetchTiredAgain ==
  /\ Ready
  /\ currentSeq # 0
  /\ Awaited
  /\ EmptyAgain > EmptyMax
  /\ pieces' = packetCount - 1
  /\ UNCHANGED <<running, present, buffer, packetCount, played, asked>>

\* Empty for too long: fetch fails and the manager erases the entry.
FetchTired ==
  /\ Ready
  /\ currentSeq # 0
  /\ Awaited
  /\ EmptyAgain > EmptyMax
  /\ present' = FALSE
  /\ Empty
  /\ UNCHANGED running

Fetch == \/ FetchPiece \/ FetchEnd
         \/ \E seq \in voices : FetchFirst(seq)
         \/ FetchNext \/ FetchSilence \/ FetchTired

-----------------------------------------------------------------------------
\* PStopVoice of this user.
Stop ==
  /\ present /\ ~ bstop
  /\ bstop' = TRUE
  /\ UNCHANGED <<running, present, voices, header, currentSeq, lastSeq, totalWait,
                 gitter, emptyTimes, pieces, packetCount, played, asked>>

\* Fault: the entry stays, without its packets.
ClearVoices(start) ==
  /\ running' = (running \/ start)
  /\ present' = present
  /\ Empty

\* The voice quality of the channel has changed, or, with a start, the user has
\* changed channels.
Clear(start) ==
  /\ running' = (running \/ start)
  /\ present' = FALSE
  /\ Empty

Next == \/ \E seq \in Seqs : Push(seq)
        \/ Fetch
        \/ Stop
        \/ \E start \in BOOLEAN : Clear(start)

Spec == Init /\ [][Next]_vars

\* The audio device keeps asking for data (PlayAudioData, getVoices).
FairSpec == Spec /\ WF_vars(Fetch)

-----------------------------------------------------------------------------
TypeOK ==
  /\ running \in BOOLEAN /\ present \in BOOLEAN /\ bstop \in BOOLEAN
  /\ voices \subseteq Nat /\ header \subseteq voices
  /\ currentSeq \in Nat /\ lastSeq \in Nat
  /\ totalWait \in Nat /\ gitter \in 0 .. GitterMax
  /\ emptyTimes \in 0 .. EmptyMax
  /\ pieces \in 0 .. PackSize - 1 /\ packetCount \in 1 .. PackSize
  /\ played \subseteq Nat /\ asked \subseteq Nat

\* The assertion of VoiceDataManager.cpp:267, in every state and not only where
\* fetch looks: what is queued is still to be played, and was pushed.
AheadOfPlayback == \A s \in voices : currentSeq < s /\ s <= lastSeq

\* fetch takes the front of the queue before it has played anything, without
\* looking whether there is one.
FirstFetchHasFront == present /\ currentSeq = 0 => voices # {}

\* Waiting for late packets delays a talk by less than one packet more than the
\* greatest lateness that counts.
DelayBounded == totalWait < GitterMax + PackTime

\* An empty buffer lets playback run past the newest packet, and what comes then
\* is refused: by at most the fetches it takes to erase the buffer.
OverrunBounded == currentSeq <= lastSeq + EmptyMax

\* Within a talk packets are played in order, each at most once.
PlayedInOrder ==
  [][\A s \in played' \ played, t \in played : t < s]_vars

\* No packet is asked for that is here or has been played, but for those the
\* header stands in for.
AskedMissing ==
  [][\A s \in asked' \ asked : s \notin played' \cup (voices' \ header')]_vars

\* A packet in the buffer is played, counted lost or thrown away in the end.
BufferDrains == \A s \in Seqs : s \in voices ~> s \notin voices

\* A stopped user is forgotten, so that he can be heard again.
StopEnds == bstop ~> ~ present

\* So is one whose packets stop coming without a word.
SilenceEnds ==
  \/ []<><<\E seq \in Seqs : Push(seq)>>_vars
  \/ []<> ~ present
=============================================================================
