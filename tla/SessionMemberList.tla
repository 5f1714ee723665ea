-------------------------- MODULE SessionMemberList --------------------------
(***************************************************************************)
(* Who is where in a session: the client's copy of the people and of the   *)
(* channels (src/xproto/SessionMemberListImp.cpp), and the login of        *)
(* SessionImp that fills it.                                               *)
(*                                                                         *)
(* The server tells a connected client every change.  A login is answered, *)
(* in the old protocol, with all there is; in the new one the client asks  *)
(* for all there is once it is told that it is in.  Changes told meanwhile *)
(* are taken in as they come.  When the last connection is lost the client *)
(* logs in again, and asks to be put where it was; when one connection     *)
(* takes over from another, nothing is asked.                              *)
(*                                                                         *)
(* The server is no part of the repository.  Names, scores, passwords, the *)
(* order of the channels and the list of members are left out, and every   *)
(* channel is taken to be right under the hall.                            *)
(***************************************************************************)
EXTENDS Naturals, Sequences, Functions

CONSTANTS
  User, Self,
  Channel, Hall,  \* the channels that come and go, and the one that stays
  Nowhere,
  MaxSent         \* bound of the model: messages under way

ASSUME MemberAssumption ==
  /\ Self \in User
  /\ User \cap Channel = {}
  /\ Hall \notin Channel
  /\ Nowhere \notin Channel \cup {Hall}

VARIABLES
  where,       \* where the server has each user
  rooms,       \* the channels there are
  version,     \* "old" or "new": server_version_
  line,        \* "down", "joining", "up", or "other": another connection than the
               \* one the client has logged in with carries the pushes
  sent,        \* messages on their way to the client, oldest first
  asked,       \* PGetSessionMain is on its way
  people,      \* the pid of everybody the client shows
  channels,
  bSelfAdd,
  is_relogin,
  currect_channel,
  synced,      \* history: the copy was told whole, and every change since
  unseen       \* history: users and channels gone while nobody told the client

server == <<where, rooms>>
net == <<line, sent, asked>>
copy == <<people, channels, bSelfAdd, is_relogin, currect_channel>>
vars == <<server, version, net, copy, synced, unseen>>

Place == Channel \cup {Hall}

Connected == line \in {"up", "other"}

Present == {u \in User : where[u] # Nowhere}

Init ==
  /\ rooms \in SUBSET Channel
  /\ where \in [User -> rooms \cup {Hall, Nowhere}] /\ where[Self] = Nowhere
  /\ version \in {"old", "new"}
  /\ line = "down" /\ sent = << >> /\ asked = FALSE
  /\ people = [u \in {} |-> Hall] /\ channels = {}
  /\ bSelfAdd = FALSE /\ is_relogin = FALSE
  /\ currect_channel \in rooms \cup {Nowhere}  \* setInitChannel
  /\ synced = FALSE /\ unseen = {}

-----------------------------------------------------------------------------
(* The server.                                                             *)

NoPush ==
  [type |-> "push", adds |-> [u \in {} |-> Hall], removes |-> {},
   changes |-> [u \in {} |-> Hall], folders |-> {}]

Added(u, c) == [NoPush EXCEPT !.adds = [v \in {u} |-> c]]

\* Whoever is not connected is told nothing.  What is gone is unseen until it is
\* there again.
Tell(m, here, gone) ==
  /\ Len(sent) < MaxSent
  /\ sent' = IF Connected THEN Append(sent, m) ELSE sent
  /\ unseen' = (unseen \ here) \cup IF Connected THEN {} ELSE gone
  /\ UNCHANGED <<version, line, asked, copy, synced>>

Come(u, c) ==
  /\ u # Self /\ where[u] = Nowhere
  /\ where' = [where EXCEPT ![u] = c] /\ UNCHANGED rooms
  /\ Tell(Added(u, c), {u}, {})

\* The user himself is gone only when he has been without connection for long.
Go(u) ==
  /\ where[u] # Nowhere
  /\ u = Self => line = "down"
  /\ where' = [where EXCEPT ![u] = Nowhere] /\ UNCHANGED rooms
  /\ Tell([NoPush EXCEPT !.removes = {u}], {}, {u})

\* The one who moves himself is told in an answer of its own.
Walk(u, c) ==
  /\ where[u] \notin {Nowhere, c}
  /\ where' = [where EXCEPT ![u] = c] /\ UNCHANGED rooms
  /\ \/ Tell([NoPush EXCEPT !.changes = [v \in {u} |-> c]], {}, {})
     \/ u = Self /\ Tell([type |-> "changefolder", to |-> c], {}, {})

OpenRoom(c) ==
  /\ c \notin rooms /\ rooms' = rooms \cup {c} /\ UNCHANGED where
  /\ Tell([type |-> "channel", sid |-> c], {c}, {})

\* Whoever was in a channel that is closed is in the hall.
CloseRoom(c) ==
  /\ c \in rooms /\ rooms' = rooms \ {c}
  /\ where' = [u \in User |-> IF where[u] = c THEN Hall ELSE where[u]]
  /\ Tell([NoPush EXCEPT !.folders = {c},
                         !.changes = [u \in {v \in User : where[v] = c} |-> Hall]],
          {}, {c})

\* All there is, with the one who asks, or with him told of next.
All(type, w) ==
  LET shown == {u \in User : w[u] # Nowhere}
      Of(S) == [type |-> type, people |-> Restrict(w, S), rooms |-> rooms]
  IN  {<<Of(shown)>>, <<Of(shown \ {Self}), Added(Self, w[Self])>>}

\* The server puts a user where he was, if that is possible.
ServerJoin ==
  /\ line = "joining" /\ sent = << >>
  /\ \E c \in {Hall} \cup ({currect_channel} \cap rooms) :
       where' = [where EXCEPT ![Self] = c]
  /\ IF version = "old"
     THEN line' = "up" /\ sent' \in All("sync", where')
     ELSE sent' = <<[type |-> "joinres"]>> /\ UNCHANGED line
  /\ UNCHANGED <<rooms, version, asked, copy, synced, unseen>>

\* In the new protocol he asks when he is in, and is not left out.
ServerMain ==
  /\ asked /\ asked' = FALSE
  /\ Len(sent) < MaxSent
  /\ sent' = Append(sent, [type |-> "main", people |-> Restrict(where, Present),
                           rooms |-> rooms])
  /\ UNCHANGED <<server, version, line, copy, synced, unseen>>

Server ==
  \/ \E u \in User : \/ Go(u)
                     \/ \E c \in rooms \cup {Hall} : Come(u, c) \/ Walk(u, c)
  \/ \E c \in Channel : OpenRoom(c) \/ CloseRoom(c)
  \/ ServerJoin
  \/ ServerMain

-----------------------------------------------------------------------------
(* The client: pushes.  A push names a user once.                          *)

\* f where it is defined, and g elsewhere.
Over(f, g) == [u \in DOMAIN f \cup DOMAIN g |-> IF u \in DOMAIN f THEN f[u] ELSE g[u]]

Receive(type) ==
  /\ sent # << >> /\ Head(sent).type = type
  /\ sent' = Tail(sent)
  /\ UNCHANGED <<server, version>>

\* CurrectChannelChanged, as far as it matters here: to where the user is shown.
Follow(changed) ==
  currect_channel' = IF changed THEN people'[Self] ELSE currect_channel

Arrives == Self \in DOMAIN people' \ DOMAIN people

Moves == Self \in DOMAIN people /\ people'[Self] # people[Self]

\* Fault: somebody who is shown already is not looked at again.
ChangedNewOnly(m, p) ==
  LET left == Restrict(Over(p, m.adds), DOMAIN Over(m.adds, p) \ m.removes)
  IN  Over(Restrict(m.changes, DOMAIN m.changes \cap DOMAIN left), left)

\* Adds, then removes, then changes of those who are left.
Changed(m, p) ==
  LET left == Restrict(Over(m.adds, p), DOMAIN Over(m.adds, p) \ m.removes)
  IN  Over(Restrict(m.changes, DOMAIN m.changes \cap DOMAIN left), left)

\* RealMemberChanges, with onMemberAdd.  The first push with the user himself after
\* a sync that was for a reconnection does not count as a change of channel.
OnMemberChanges ==
  /\ Receive("push")
  /\ people' = Changed(Head(sent), people)
  /\ channels' = channels \ Head(sent).folders
  /\ Follow(Moves \/ (Arrives /\ bSelfAdd))
  /\ bSelfAdd' = (bSelfAdd \/ Arrives)
  /\ UNCHANGED <<line, asked, is_relogin, synced, unseen>>

OnChangeFolder ==
  /\ Receive("changefolder")
  /\ people' = IF Self \in DOMAIN people THEN [people EXCEPT ![Self] = Head(sent).to]
               ELSE people
  /\ Follow(Moves)
  /\ UNCHANGED <<line, asked, channels, bSelfAdd, is_relogin, synced, unseen>>

OnChannelAdd ==
  /\ Receive("channel")
  /\ channels' = channels \cup {Head(sent).sid}
  /\ UNCHANGED <<line, asked, people, bSelfAdd, is_relogin, currect_channel,
                 synced, unseen>>

-----------------------------------------------------------------------------
(* The client: logins.                                                     *)

\* Login, at first and, by Relogin, whenever the last connection has been lost.
Login ==
  /\ line = "down" /\ line' = "joining"
  /\ UNCHANGED <<server, version, sent, asked, copy, synced, unseen>>

\* Fault: the question is asked in the first login only.
OnJoinSessionResOnce ==
  /\ Receive("joinres")
  /\ line' = "up" /\ asked' = ~ is_relogin
  /\ UNCHANGED <<copy, synced, unseen>>

\* OnJoinSesionRes.
OnJoinSessionRes ==
  /\ Receive("joinres")
  /\ line' = "up" /\ asked' = TRUE
  /\ UNCHANGED <<copy, synced, unseen>>

\* Fault: where the user is now is not looked at.
OnSessionMainStays ==
  /\ Receive("main")
  /\ people' = Over(Head(sent).people, people)
  /\ channels' = channels \cup Head(sent).rooms
  /\ Follow(FALSE)
  /\ synced' = TRUE
  /\ UNCHANGED <<line, asked, bSelfAdd, is_relogin, unseen>>

\* OnGetSessionMainRes.  Nobody who was shown before is taken away.
OnSessionMain ==
  /\ Receive("main")
  /\ people' = Over(Head(sent).people, people)
  /\ channels' = channels \cup Head(sent).rooms
  /\ Follow(Self \in DOMAIN people')
  /\ synced' = TRUE
  /\ UNCHANGED <<line, asked, bSelfAdd, is_relogin, unseen>>

\* Fault: what was shown before stays.
OnSyncKeeps ==
  /\ Receive("sync")
  /\ people' = Over(Head(sent).people, people)
  /\ channels' = channels \cup Head(sent).rooms
  /\ bSelfAdd' = ~ is_relogin
  /\ Follow(Self \in DOMAIN people' /\ bSelfAdd')
  /\ synced' = TRUE /\ unseen' = {}
  /\ UNCHANGED <<line, asked, is_relogin>>

\* _onSync, with onSync and endSync.
OnSync ==
  /\ Receive("sync")
  /\ people' = Head(sent).people
  /\ channels' = Head(sent).rooms
  /\ bSelfAdd' = ~ is_relogin
  /\ Follow(Self \in DOMAIN people' /\ bSelfAdd')
  /\ synced' = TRUE /\ unseen' = {}
  /\ UNCHANGED <<line, asked, is_relogin>>

Handle == \/ OnMemberChanges \/ OnChangeFolder \/ OnChannelAdd
          \/ OnJoinSessionRes \/ OnSessionMain \/ OnSync

\* What leaves with a message that is lost.
Gone(m) == IF m.type = "push" THEN m.removes \cup m.folders ELSE {}

\* A connection closes, with what it carries.  No other takes over: Relogin.  Or,
\* once the client is logged in, one does, and the session goes on as it is.
Lose ==
  /\ line # "down"
  /\ \/ line' = "down" /\ is_relogin' = TRUE
     \/ /\ Connected /\ \A m \in Range(sent) : m.type # "sync"
        /\ line' = "other" /\ UNCHANGED is_relogin
  /\ sent' = << >> /\ asked' = FALSE
  /\ synced' = FALSE
  /\ unseen' = unseen \cup UNION {Gone(m) : m \in Range(sent)}
  /\ UNCHANGED <<server, version, people, channels, bSelfAdd, currect_channel>>

Next == Server \/ Handle \/ Login \/ Lose

Spec == Init /\ [][Next]_vars

\* The client reads what it is sent.  A connection that stays up delivers, and
\* the server answers, whatever else it has to tell.
FairSpec == Spec /\ WF_vars(Handle) /\ WF_vars(Login)
                 /\ SF_vars(ServerJoin) /\ SF_vars(ServerMain)

-----------------------------------------------------------------------------
TypeOK ==
  /\ where \in [User -> Place \cup {Nowhere}] /\ rooms \subseteq Channel
  /\ version \in {"old", "new"} /\ line \in {"down", "joining", "up", "other"}
  /\ people \in UNION {[S -> Place] : S \in SUBSET User}
  /\ channels \subseteq Channel
  /\ currect_channel \in Place \cup {Nowhere}
  /\ {asked, bSelfAdd, is_relogin, synced} \subseteq BOOLEAN
  /\ unseen \subseteq User \cup Channel

\* However pushes cross with the answer to a login, a copy that was told whole
\* shows everybody who is there where he is, and every channel, as soon as
\* nothing is under way.
AllShown ==
  synced /\ sent = << >> =>
    /\ \A u \in Present : u \in DOMAIN people /\ people[u] = where[u]
    /\ rooms \subseteq channels

\* Whoever is shown and gone has left while nobody told the client: no push
\* brings anybody back, and in the old protocol a login clears the copy.
GhostsUnseen ==
  sent = << >> => (DOMAIN people \ Present) \cup (channels \ rooms) \subseteq unseen

\* The channel whose voice, texts and speakers the client takes (currect_channel_)
\* is the one in which it shows the user himself.  A login again in the old
\* protocol gives this up: endSync leaves the channel as it was.
CurrentShown ==
  synced /\ Self \in DOMAIN people /\ ~ (version = "old" /\ is_relogin) =>
    currect_channel = people[Self]

\* Every login tells the copy whole, unless its connection is lost meanwhile.  (When
\* another takes over then, nobody asks again.)
LoginSyncs == line = "joining" ~> synced \/ line \in {"down", "other"}

\* What SessionMemberListImp.h says of people, "the people there are now": nobody
\* else is shown once the copy has been told whole and nothing is under way.
OnlyPresent == synced /\ sent = << >> => DOMAIN people \subseteq Present

=============================================================================
