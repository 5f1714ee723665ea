--------------------------- MODULE MicrophoneList ---------------------------
(***************************************************************************)
(* A client's copy of the queue of speakers of its channel                 *)
(* (src/xproto/MicrophoneListImp.cpp), and the part of SessionImp that     *)
(* clears it and asks for it.                                              *)
(*                                                                         *)
(* The server tells its clients each change of the queue; a client that    *)
(* enters a channel in microphone style empties its copy, asks for the     *)
(* queue and is sent it.  Changes told in between are applied to whatever  *)
(* the copy holds.  A main connection that is lost takes messages, and the *)
(* request, with it; the session may go on with another connection and ask *)
(* for nothing.                                                            *)
(*                                                                         *)
(* The server is no part of the repository: it sends what the clients' own *)
(* checks allow (CanJoin, CanMove, CanTopQueue), in order.  The clock of a *)
(* turn (count, ring, validring) is left out, and with it onTurn and       *)
(* onDoubleTimeQueue, which change nothing else.                           *)
(***************************************************************************)
EXTENDS Naturals, Sequences, FiniteSets, SequencesExt

CONSTANTS
  User,
  Guest,     \* users whom managers make guests, who may always speak
  MaxSent,     \* bound of the model: messages under way
  MaxRequests  \* bound of the model: requests under way

VARIABLES
  server,     \* queue, mute, disable, guests of the client's channel; mic: its style
  sent,       \* messages on their way to the client, oldest first
  subscribed, \* there is a connection that carries them
  requests,   \* PGetMicrophoneQueue on their way to the server
  list,       \* channelqueue.userlist
  mute,       \* channelqueue.mute
  disable,    \* channelqueue.disable
  guests,
  synced      \* history: the copy was told whole, and every change since

net == <<sent, subscribed, requests>>
client == <<list, mute, disable, guests, synced>>
vars == <<server, net, client>>

\* The queue as somebody sees it who can rely on what he sees.
Viewer == INSTANCE SpeakerQueue
            WITH shown <- synced, queue <- IF synced THEN list ELSE << >>

Queues == UNION {{q \in [1 .. n -> User] : IsInjective(q)} : n \in 0 .. Cardinality(User)}

NewQueue(mic) ==
  [queue |-> << >>, mute |-> FALSE, disable |-> FALSE, guests |-> {}, mic |-> mic]

Init ==
  /\ server \in {NewQueue(mic) : mic \in BOOLEAN}
  /\ sent = << >> /\ subscribed = TRUE /\ requests = 0
  /\ list = << >> /\ mute = FALSE /\ disable = FALSE /\ guests = {}
  /\ synced = FALSE

-----------------------------------------------------------------------------
(* The server.                                                             *)

\* Whoever is not connected is told nothing.
Tell(m) ==
  /\ Len(sent) < MaxSent
  /\ sent' = IF subscribed THEN Append(sent, m) ELSE sent
  /\ UNCHANGED <<subscribed, requests, client>>

Queue(q) == server' = [server EXCEPT !.queue = q]

ServerJoin(us) ==
  /\ IsInjective(server.queue \o us)
  /\ Queue(server.queue \o us)
  /\ \/ Tell([type |-> "joins", uids |-> us])
     \/ Len(us) = 1 /\ Tell([type |-> "join", uid |-> us[1]])

ServerLeave(u) ==
  /\ u \in ToSet(server.queue)
  /\ Queue(Viewer!Left(server.queue, u))
  /\ Tell([type |-> "leave", uid |-> u])

ServerMove(u) ==
  \/ /\ Viewer!CanLower(server.queue, u)
     /\ Queue(Viewer!Lowered(server.queue, u))
     /\ Tell([type |-> "move", uid |-> u, down |-> TRUE])
  \/ /\ Viewer!CanRaise(server.queue, u)
     /\ Queue(Viewer!Raised(server.queue, u))
     /\ Tell([type |-> "move", uid |-> u, down |-> FALSE])
  \/ /\ Viewer!CanRaise(server.queue, u)
     /\ Queue(Viewer!Second(server.queue, u))
     /\ Tell([type |-> "top", uid |-> u])

ServerClear == Queue(<< >>) /\ Tell([type |-> "kickall"])

ServerSet(on) ==
  \/ /\ server' = [server EXCEPT !.mute = on]
     /\ Tell([type |-> "mute", on |-> on])
  \/ /\ server' = [server EXCEPT !.disable = on]
     /\ Tell([type |-> "disable", on |-> on])

ServerGuests ==
  \/ \E u \in Guest : \/ /\ server' = [server EXCEPT !.guests = @ \cup {u}]
                         /\ Tell([type |-> "addguest", uid |-> u])
                      \/ /\ server' = [server EXCEPT !.guests = @ \ {u}]
                         /\ Tell([type |-> "removeguest", uid |-> u])
  \/ /\ server' = [server EXCEPT !.guests = {}]
     /\ Tell([type |-> "clearguest"])

\* The client's user is in another channel now, or his channel has another style.
ServerChannel ==
  \/ /\ \/ \E mic \in BOOLEAN : server' = NewQueue(mic)
        \/ \E q \in Queues, gs \in SUBSET Guest :
             server' = [NewQueue(TRUE) EXCEPT !.queue = q, !.guests = gs]
     /\ Tell([type |-> "channel", mic |-> server'.mic])
  \/ /\ server' = NewQueue(~ server.mic)
     /\ Tell([type |-> "style"])

ServerSync ==
  /\ requests > 0 /\ requests' = requests - 1
  /\ Len(sent) < MaxSent
  /\ sent' \in {Append(sent, [type |-> "sync", all |-> server])}
               \cup IF server.mic THEN {} ELSE {sent}
  /\ UNCHANGED <<server, subscribed, client>>

\* Bounds of the model: at most two join at once, and nobody waits while a manager
\* sets what anybody may do.
Server ==
  \/ /\ server.mic
     /\ \/ \E us \in Queues : Len(us) \in 1 .. 2 /\ ServerJoin(us)
        \/ \E u \in User : ServerLeave(u) \/ ServerMove(u)
        \/ ServerClear
        \/ server.queue = << >> /\ (ServerGuests \/ \E on \in BOOLEAN : ServerSet(on))
  \/ ServerChannel
  \/ ServerSync

-----------------------------------------------------------------------------
(* Lists of the standard library, as the handlers use them.                *)

\* list::remove: the elements that are not u, in their order.  The i-th of the
\* places that are kept is the one with i of them up to it.
Without(l, u) ==
  LET Kept == {i \in DOMAIN l : l[i] # u}
  IN  [i \in 1 .. Cardinality(Kept) |->
         l[CHOOSE j \in Kept : Cardinality({k \in Kept : k <= j}) = i]]

\* Where insert can put somebody when the iterator is no longer one.
Anywhere(l, u) == {InsertAt(l, i, u) : i \in 1 .. Len(l) + 1}

\* The first occurrence of u behind the front, or the end of the list.
Find(l, u) ==
  CHOOSE i \in 2 .. Len(l) + 1 :
    /\ i <= Len(l) => l[i] = u
    /\ \A j \in 2 .. i - 1 : l[j] # u

\* Removing all of u leaves an iterator behind the first one good unless u is
\* there again.
Spoiled(l, i) == i < Len(l) /\ l[i + 1] = l[i]

\* Fault: the iterator stays before the one it has passed.
MovedDownShort(l, u) ==
  IF Len(l) <= 2 \/ Head(l) = u \/ Last(l) = u THEN {l}
  ELSE {InsertAt(Without(l, u), Find(l, u), u)}

\* onMoveQueue, down.  Behind the end of the list there is nothing: an absent
\* user goes anywhere.
MovedDown(l, u) ==
  LET i == Find(l, u)
  IN  IF Len(l) <= 2 \/ Head(l) = u \/ Last(l) = u THEN {l}
      ELSE IF i > Len(l) \/ Spoiled(l, i) THEN Anywhere(Without(l, u), u)
      ELSE {InsertAt(Without(l, u), i + 1, u)}

\* onMoveQueue, up.  An absent user goes before the last one.
MovedUp(l, u) ==
  LET i == Find(l, u)
  IN  IF Len(l) <= 2 \/ Head(l) = u \/ l[2] = u THEN {l}
      ELSE IF Spoiled(l, i) THEN Anywhere(Without(l, u), u)
      ELSE {InsertAt(Without(l, u), i - 1, u)}

\* onTopQueue.  Removing the front first moves the second place.
Topped(l, u) ==
  IF Len(l) <= 2 \/ l[2] = u THEN l
  ELSE InsertAt(Without(l, u), IF Head(l) = u THEN 1 ELSE 2, u)

-----------------------------------------------------------------------------
(* The client.                                                             *)

\* The next message is m.
Receive(type) ==
  /\ sent # << >> /\ Head(sent).type = type
  /\ sent' = Tail(sent)
  /\ UNCHANGED <<server, subscribed>>

NewList(lists) ==
  list' \in lists /\ UNCHANGED <<requests, mute, disable, guests, synced>>

\* onJoinQueue, also for onTuoRenQueue: nobody looks whether he is there.
OnJoinQueue == Receive("join") /\ NewList({Append(list, Head(sent).uid)})

OnMulJoinQueue == Receive("joins") /\ NewList({list \o Head(sent).uids})

\* onLeaveQueue, onKickOffQueue, onTimeout.
OnLeaveQueue == Receive("leave") /\ NewList({Without(list, Head(sent).uid)})

OnMoveQueue ==
  /\ Receive("move")
  /\ NewList(IF Head(sent).down THEN MovedDown(list, Head(sent).uid)
             ELSE MovedUp(list, Head(sent).uid))

OnTopQueue == Receive("top") /\ NewList({Topped(list, Head(sent).uid)})

OnKickAllQueue == Receive("kickall") /\ NewList({<< >>})

OnMuteQueue ==
  /\ Receive("mute")
  /\ mute' = Head(sent).on
  /\ UNCHANGED <<requests, list, disable, guests, synced>>

OnDisableQueue ==
  /\ Receive("disable")
  /\ disable' = Head(sent).on
  /\ UNCHANGED <<requests, list, mute, guests, synced>>

OnGuest ==
  /\ \/ Receive("addguest") /\ guests' = guests \cup {Head(sent).uid}
     \/ Receive("removeguest") /\ guests' = guests \ {Head(sent).uid}
     \/ Receive("clearguest") /\ guests' = {}
  /\ UNCHANGED <<requests, list, mute, disable, synced>>

OnSync ==
  /\ Receive("sync")
  /\ list' = Head(sent).all.queue
  /\ mute' = Head(sent).all.mute /\ disable' = Head(sent).all.disable
  /\ guests' = Head(sent).all.guests
  /\ synced' = TRUE
  /\ UNCHANGED requests

\* CurrectChannelChanged: clearQueue, and the request.  It is not made while the
\* style of the channel is not known, and lost without a connection.
CurrectChannelChanged ==
  /\ Receive("channel")
  /\ list' = << >> /\ mute' = TRUE /\ disable' = TRUE
  /\ synced' = FALSE
  /\ requests' \in {requests} \cup IF Head(sent).mic /\ requests < MaxRequests
                                   THEN {requests + 1} ELSE {}
  /\ UNCHANGED guests

\* Fault: guests stay guests.
OnChangeStyleKeepsGuests ==
  /\ Receive("style")
  /\ list' = << >> /\ mute' = FALSE /\ disable' = FALSE
  /\ synced' = TRUE
  /\ UNCHANGED <<requests, guests>>

\* onChannelInfoChanged.  It drops a change to a channel it knows nothing about,
\* and one back to the style it knows.  Bound of the model: not while many wait.
OnChangeStyle ==
  /\ Receive("style")
  /\ \/ /\ list' = << >> /\ mute' = FALSE /\ disable' = FALSE /\ guests' = {}
        /\ synced' = TRUE
     \/ ~ synced /\ Len(list) <= 1 /\ UNCHANGED client
  /\ UNCHANGED requests

Handle == \/ OnJoinQueue \/ OnMulJoinQueue \/ OnLeaveQueue \/ OnMoveQueue
          \/ OnTopQueue \/ OnKickAllQueue \/ OnMuteQueue \/ OnDisableQueue
          \/ OnGuest \/ OnSync \/ CurrectChannelChanged \/ OnChangeStyle

-----------------------------------------------------------------------------
(* Connections.                                                            *)

\* The main connection closes, with what it carries.  Bound of the model: not
\* while many wait.
Lose ==
  /\ subscribed /\ subscribed' = FALSE
  /\ Len(list) <= 1
  /\ sent' = << >> /\ requests' = 0
  /\ synced' = FALSE
  /\ UNCHANGED <<server, list, mute, disable, guests>>

\* Another connection has become the main one, or the session has logged in
\* again and is told its channel.
Resume ==
  /\ ~ subscribed /\ subscribed' = TRUE
  /\ sent' \in {<< >>, <<[type |-> "channel", mic |-> server.mic]>>}
  /\ UNCHANGED <<server, requests, client>>

Next == Server \/ Handle \/ Lose \/ Resume

Spec == Init /\ [][Next]_vars

-----------------------------------------------------------------------------
\* A viewer relies on the copy for who may speak (CanSay) and who may be moved.
\* Whatever was told, in whatever order with the sync, a copy that was told whole
\* is the server's queue as soon as nothing is under way.
CaughtUp ==
  synced /\ sent = << >> =>
    server = [queue |-> list, mute |-> mute, disable |-> disable,
              guests |-> guests, mic |-> server.mic]

\* Such a copy changes as a queue of speakers does: nobody is in it twice, moves
\* exchange neighbours, and no manager's order changes who speaks.
ViewerSpec == Viewer!Spec
=============================================================================
