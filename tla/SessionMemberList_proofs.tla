---------------------- MODULE SessionMemberList_proofs ----------------------
(***************************************************************************)
(* Proofs about the client's copy of the people and channels: for every    *)
(* set of users and channels, and however many messages are under way, the *)
(* copy shows whoever is there, where he is, and nobody else but those who *)
(* left while nobody told the client.                                      *)
(*                                                                         *)
(* The argument looks, for each user or channel, at the news of it: what   *)
(* the copy says, then what each message under way will say.  The last     *)
(* word of them is what the server has.                                    *)
(***************************************************************************)
EXTENDS SessionMemberList, SequenceTheorems, TLAPS

PeopleMap == UNION {[S -> Place] : S \in SUBSET User}

Push == [type : {"push"}, adds : PeopleMap, removes : SUBSET User,
         changes : PeopleMap, folders : SUBSET Channel]

Whole == [type : {"sync", "main"}, people : PeopleMap, rooms : SUBSET Channel]

Message == Push \cup Whole
           \cup [type : {"changefolder"}, to : Place]
           \cup [type : {"channel"}, sid : Channel]
           \cup [type : {"joinres"}]

Thing == User \cup Channel

\* What must hold of a single message.  The user himself is never told to be gone.
Sound(m) ==
  /\ m.type = "push" => Self \notin m.removes
  /\ m.type = "main" => version = "new" /\ Self \in DOMAIN m.people
  /\ m.type = "sync" => version = "old"
  /\ m.type = "joinres" => version = "new"

\* The protocol of a login, and what the copy knows of the user himself after it.
Order ==
  /\ \A i \in 1 .. Len(sent) : Sound(sent[i]) /\ (sent[i].type = "sync" => i = 1)
  /\ line = "down" => sent = << >>
  /\ ~ Connected => /\ ~ synced
                    /\ \A i \in 1 .. Len(sent) : sent[i].type = "joinres"
  /\ Connected \/ sent # << >> => where[Self] # Nowhere
  /\ asked => Connected /\ version = "new"
  /\ synced /\ version = "new" => Self \in DOMAIN people
  /\ synced /\ version = "old" /\ ~ is_relogin => bSelfAdd

Typed == TypeOK /\ sent \in Seq(Message)

-----------------------------------------------------------------------------
(* News.                                                                   *)

\* What a message says of a user or a channel.
About(m, x) ==
  IF m.type = "push"
  THEN IF x \in m.removes \cup m.folders THEN "gone"
       ELSE IF x \in DOMAIN m.adds THEN "here" ELSE "none"
  ELSE IF m.type = "channel" THEN IF x = m.sid THEN "here" ELSE "none"
  ELSE IF m.type \in {"sync", "main"}
  THEN IF x \in DOMAIN m.people \cup m.rooms THEN "here"
       ELSE IF m.type = "sync" THEN "gone" ELSE "none"
  ELSE "none"

InCopy(x) == x \in DOMAIN people \cup channels

InServer(x) == x \in Present \cup rooms

News(x) == [i \in 0 .. Len(sent) |->
              IF i = 0 THEN IF InCopy(x) THEN "here" ELSE "gone"
              ELSE About(sent[i], x)]

\* The news without what an answer to a login leaves out.
Pushed(x) == [i \in 0 .. Len(sent) |->
                IF i > 0 /\ sent[i].type = "sync" /\ About(sent[i], x) = "gone"
                THEN "none" ELSE News(x)[i]]

Verdict(b) == IF b THEN "right" ELSE "wrong"

\* Whether a message that says where u is says that he is in p.
AboutPlace(m, u, p) ==
  IF m.type = "push"
  THEN IF u \in DOMAIN m.changes THEN Verdict(m.changes[u] = p)
       ELSE IF u \in DOMAIN m.adds THEN Verdict(m.adds[u] = p) ELSE "none"
  ELSE IF m.type = "changefolder" THEN IF u = Self THEN Verdict(m.to = p) ELSE "none"
  ELSE IF m.type \in {"sync", "main"} /\ u \in DOMAIN m.people
  THEN Verdict(m.people[u] = p)
  ELSE "none"

Places(u) == [i \in 0 .. Len(sent) |->
                IF i = 0 THEN Verdict(u \in DOMAIN people => people[u] = where[u])
                ELSE AboutPlace(sent[i], u, where[u])]

\* From k on, the last of the news f is v.
Said(f, n, k, v) ==
  \E i \in k .. n : f[i] = v /\ \A j \in i + 1 .. n : f[j] = "none"

\* From where on the copy is told whole.
Bases == {b \in 0 .. Len(sent) : IF b = 0 THEN synced
                                 ELSE sent[b].type \in {"sync", "main"}}

Told ==
  \A b \in Bases :
    /\ \A x \in Thing : InServer(x) => Said(News(x), Len(sent), b, "here")
    /\ \A u \in Present : Said(Places(u), Len(sent), b, "right")

GoneKnown ==
  \A x \in Thing : ~ InServer(x) =>
    /\ x \notin unseen => Said(Pushed(x), Len(sent), 0, "gone")
    /\ \A k \in 1 .. Len(sent) :
         sent[k].type = "sync" => Said(News(x), Len(sent), k, "gone")

Inv == Typed /\ Order /\ Told /\ GoneKnown /\ CurrentShown

-----------------------------------------------------------------------------
(* The last word.                                                          *)

LEMMA SaidKept ==
  ASSUME NEW n \in Nat, NEW f, NEW g, NEW v, NEW k \in 0 .. n,
         \A i \in 0 .. n : g[i] = f[i], g[n + 1] = "none", Said(f, n, k, v)
  PROVE  Said(g, n + 1, k, v)
<1>1. PICK i \in k .. n : f[i] = v /\ \A j \in i + 1 .. n : f[j] = "none"
  BY DEF Said
<1>2. i \in k .. n + 1 /\ g[i] = v
  BY <1>1
<1>3. \A j \in i + 1 .. n + 1 : g[j] = "none"
  BY <1>1
<1> QED BY <1>2, <1>3 DEF Said

LEMMA SaidLast ==
  ASSUME NEW n \in Nat, NEW g, NEW v, NEW k \in 0 .. n, g[n] = v
  PROVE  Said(g, n, k, v)
<1>1. n \in k .. n /\ \A j \in n + 1 .. n : g[j] = "none"
  OBVIOUS
<1> QED BY <1>1 DEF Said

\* The first of the messages is taken in.
LEMMA SaidShift ==
  ASSUME NEW n \in Nat \ {0}, NEW f, NEW g, NEW v, NEW k \in 0 .. n,
         NEW l \in Nat, l = 0 \/ l = k - 1, k <= 1 => l = 0,
         \A i \in 1 .. n - 1 : g[i] = f[i + 1],
         f[1] = v => g[0] = v,
         f[1] = "none" /\ f[0] = v => g[0] = v,
         Said(f, n, k, v)
  PROVE  Said(g, n - 1, l, v)
<1>1. PICK i \in k .. n : f[i] = v /\ \A j \in i + 1 .. n : f[j] = "none"
  BY DEF Said
<1>2. CASE i \in {0, 1}
  <2>1. g[0] = v
    <3>1. CASE i = 0
      <4>1. f[1] = "none"
        BY <1>1, <3>1
      <4> QED BY <1>1, <3>1, <4>1
    <3>2. CASE i = 1
      BY <1>1, <3>2
    <3> QED BY <1>2, <3>1, <3>2
  <2>2. \A j \in 1 .. n - 1 : g[j] = "none"
    <3>1. \A j \in 2 .. n : f[j] = "none"
      BY <1>1, <1>2
    <3> QED BY <3>1
  <2>3. l = 0
    BY <1>2
  <2> QED BY <2>1, <2>2, <2>3 DEF Said
<1>3. CASE i \notin {0, 1}
  <2>1. i \in Nat /\ i - 1 \in l .. n - 1 /\ i - 1 \in 1 .. n - 1
    BY <1>3
  <2>2. g[i - 1] = v
    BY <1>1, <2>1
  <2>3. \A j \in (i - 1) + 1 .. n - 1 : g[j] = "none"
    BY <1>1, <2>1
  <2> QED BY <2>1, <2>2, <2>3 DEF Said
<1> QED BY <1>2, <1>3

-----------------------------------------------------------------------------
(* Types.                                                                  *)

LEMMA PeopleMapIntro ==
  ASSUME NEW S \in SUBSET User, NEW f \in [S -> Place]
  PROVE  f \in PeopleMap
<1> QED BY DEF PeopleMap

LEMMA PeopleMapElim ==
  ASSUME NEW f \in PeopleMap
  PROVE  /\ DOMAIN f \in SUBSET User
         /\ f \in [DOMAIN f -> Place]
         /\ \A u \in DOMAIN f : f[u] \in Place
<1> QED BY DEF PeopleMap

LEMMA OverType ==
  ASSUME NEW f \in PeopleMap, NEW g \in PeopleMap
  PROVE  /\ Over(f, g) \in PeopleMap
         /\ DOMAIN Over(f, g) = DOMAIN f \cup DOMAIN g
         /\ \A u \in DOMAIN f : Over(f, g)[u] = f[u]
         /\ \A u \in DOMAIN g \ DOMAIN f : Over(f, g)[u] = g[u]
<1>1. Over(f, g) \in [DOMAIN f \cup DOMAIN g -> Place]
  BY PeopleMapElim DEF Over
<1>2. DOMAIN f \cup DOMAIN g \in SUBSET User
  BY PeopleMapElim
<1>3. Over(f, g) \in PeopleMap
  BY <1>1, <1>2, PeopleMapIntro
<1> QED BY <1>3 DEF Over

LEMMA RestrictType ==
  ASSUME NEW f \in PeopleMap, NEW S \in SUBSET DOMAIN f
  PROVE  /\ Restrict(f, S) \in PeopleMap
         /\ DOMAIN Restrict(f, S) = S
         /\ \A u \in S : Restrict(f, S)[u] = f[u]
<1>1. Restrict(f, S) \in [S -> Place]
  BY PeopleMapElim DEF Restrict
<1>2. S \in SUBSET User
  BY PeopleMapElim
<1>3. Restrict(f, S) \in PeopleMap
  BY <1>1, <1>2, PeopleMapIntro
<1> QED BY <1>3 DEF Restrict

\* What the push m makes of the people p.
Outcome(m, p, q) ==
  /\ q \in PeopleMap
  /\ DOMAIN q = (DOMAIN m.adds \cup DOMAIN p) \ m.removes
  /\ \A u \in DOMAIN q : q[u] = IF u \in DOMAIN m.changes THEN m.changes[u]
                                ELSE IF u \in DOMAIN m.adds THEN m.adds[u] ELSE p[u]

LEMMA ChangedFacts ==
  ASSUME NEW m \in Push, NEW p \in PeopleMap
  PROVE  Outcome(m, p, Changed(m, p))
<1> DEFINE all == Over(m.adds, p)
           left == Restrict(all, DOMAIN all \ m.removes)
           here == DOMAIN m.changes \cap DOMAIN left
           moved == Restrict(m.changes, here)
<1>1. m.adds \in PeopleMap /\ m.changes \in PeopleMap
  BY DEF Push
<1>2. /\ all \in PeopleMap /\ DOMAIN all = DOMAIN m.adds \cup DOMAIN p
      /\ \A u \in DOMAIN all : all[u] = IF u \in DOMAIN m.adds THEN m.adds[u] ELSE p[u]
  <2>1. /\ all \in PeopleMap /\ DOMAIN all = DOMAIN m.adds \cup DOMAIN p
        /\ \A u \in DOMAIN m.adds : all[u] = m.adds[u]
        /\ \A u \in DOMAIN p \ DOMAIN m.adds : all[u] = p[u]
    <3> DEFINE adds == m.adds
    <3>1. all = Over(adds, p) /\ adds \in PeopleMap
      BY <1>1
    <3> HIDE DEF all, adds
    <3>2. /\ Over(adds, p) \in PeopleMap /\ DOMAIN Over(adds, p) = DOMAIN adds \cup DOMAIN p
          /\ \A u \in DOMAIN adds : Over(adds, p)[u] = adds[u]
          /\ \A u \in DOMAIN p \ DOMAIN adds : Over(adds, p)[u] = p[u]
      BY <3>1, OverType
    <3> QED BY <3>1, <3>2 DEF adds
  <2> QED BY <2>1
<1>3. /\ left \in PeopleMap /\ DOMAIN left = DOMAIN all \ m.removes
      /\ \A u \in DOMAIN left : left[u] = all[u]
  BY <1>2, RestrictType
<1>4. /\ moved \in PeopleMap /\ DOMAIN moved = here
      /\ \A u \in here : moved[u] = m.changes[u]
  BY <1>1, RestrictType
<1>5. /\ Over(moved, left) \in PeopleMap
      /\ DOMAIN Over(moved, left) = DOMAIN left
      /\ \A u \in DOMAIN left : Over(moved, left)[u] =
           IF u \in here THEN moved[u] ELSE left[u]
  <2>1. /\ Over(moved, left) \in PeopleMap
        /\ DOMAIN Over(moved, left) = DOMAIN moved \cup DOMAIN left
        /\ \A u \in DOMAIN moved : Over(moved, left)[u] = moved[u]
        /\ \A u \in DOMAIN left \ DOMAIN moved : Over(moved, left)[u] = left[u]
    <3> HIDE DEF moved, left
    <3> QED BY <1>3, <1>4, OverType
  <2> QED BY <2>1, <1>3, <1>4
<1>6. Changed(m, p) = Over(moved, left)
  BY DEF Changed
<1>7. /\ Changed(m, p) \in PeopleMap
      /\ DOMAIN Changed(m, p) = (DOMAIN m.adds \cup DOMAIN p) \ m.removes
  BY <1>2, <1>3, <1>5, <1>6
<1>8. ASSUME NEW u \in DOMAIN Changed(m, p)
      PROVE  Changed(m, p)[u] = IF u \in DOMAIN m.changes THEN m.changes[u]
                                ELSE IF u \in DOMAIN m.adds THEN m.adds[u] ELSE p[u]
  <2>1. u \in DOMAIN left /\ u \in DOMAIN all
    BY <1>3, <1>5, <1>6
  <2>2. Changed(m, p)[u] = IF u \in here THEN m.changes[u] ELSE left[u]
    BY <1>4, <1>5, <1>6, <2>1
  <2>3. left[u] = IF u \in DOMAIN m.adds THEN m.adds[u] ELSE p[u]
    BY <1>2, <1>3, <2>1
  <2> QED BY <2>1, <2>2, <2>3
<1> QED BY <1>7, <1>8 DEF Outcome

-----------------------------------------------------------------------------
(* A message is sent.                                                      *)

\* What a message may say, given what the server has afterwards.
Fits(m) ==
  /\ \A x \in Thing : InServer(x)' =>
       \/ About(m, x) = "here"
       \/ InServer(x) /\ About(m, x) = "none" /\ m.type # "main"
  /\ \A x \in Thing : ~ InServer(x)' =>
       \/ About(m, x) = "gone"
       \/ ~ InServer(x) /\ About(m, x) = "none" /\ (x \in unseen => x \in unseen')
  /\ \A u \in Present' :
       \/ AboutPlace(m, u, where'[u]) = "right"
       \/ /\ u \in Present /\ where'[u] = where[u] /\ m.type # "main"
          /\ AboutPlace(m, u, where[u]) = "none"

LEMMA AppendFacts ==
  ASSUME NEW S, NEW s \in Seq(S), NEW m \in S
  PROVE  /\ Append(s, m) \in Seq(S)
         /\ Len(Append(s, m)) = Len(s) + 1 /\ Len(s) \in Nat
         /\ \A i \in 1 .. Len(s) : Append(s, m)[i] = s[i]
         /\ Append(s, m)[Len(s) + 1] = m
<1> QED OBVIOUS

LEMMA AppendKeeps ==
  ASSUME Typed, Told, GoneKnown, NEW m \in Message, m.type # "sync",
         sent' = Append(sent, m), UNCHANGED <<people, channels, synced>>, Fits(m)
  PROVE  Told' /\ GoneKnown'
<1> DEFINE n == Len(sent)
<1>1. /\ n \in Nat /\ Len(sent') = n + 1
      /\ \A i \in 1 .. n : sent'[i] = sent[i]
      /\ sent'[n + 1] = m
  BY AppendFacts DEF Typed
<1>2. ASSUME NEW x \in Thing
      PROVE  /\ \A i \in 0 .. n : News(x)'[i] = News(x)[i]
             /\ News(x)'[n + 1] = About(m, x)
  <2>1. ASSUME NEW i \in 0 .. n PROVE News(x)'[i] = News(x)[i]
    BY <1>1 DEF News, InCopy
  <2>2. News(x)'[n + 1] = About(m, x)
    BY <1>1 DEF News
  <2> QED BY <2>1, <2>2
<1>3. ASSUME NEW x \in Thing
      PROVE  /\ \A i \in 0 .. n : Pushed(x)'[i] = Pushed(x)[i]
             /\ Pushed(x)'[n + 1] = About(m, x)
  BY <1>1, <1>2 DEF Pushed
<1>4. ASSUME NEW u \in Present, where'[u] = where[u]
      PROVE  \A i \in 0 .. n : Places(u)'[i] = Places(u)[i]
  BY <1>1, <1>4 DEF Places
<1>5. \A u \in Present' : Places(u)'[n + 1] = AboutPlace(m, u, where'[u])
  BY <1>1 DEF Places
<1>6. Told'
  <2> SUFFICES ASSUME NEW b \in Bases'
               PROVE  /\ \A x \in Thing : InServer(x)' => Said(News(x)', n + 1, b, "here")
                      /\ \A u \in Present' : Said(Places(u)', n + 1, b, "right")
    BY <1>1 DEF Told, Said
  <2>1. b \in 0 .. n + 1 /\ (b \in Bases \/ (b = n + 1 /\ m.type = "main"))
    <3>1. CASE b \in 0 .. n
      <4>1. b \in Bases
        BY <1>1, <3>1 DEF Bases
      <4> QED BY <3>1, <4>1, <1>1
    <3>2. CASE b = n + 1
      <4>1. m.type \in {"sync", "main"}
        BY <1>1, <3>2 DEF Bases
      <4> QED BY <3>2, <4>1, <1>1
    <3> QED BY <1>1, <3>1, <3>2 DEF Bases
  <2>2. b \in Bases => b \in 0 .. n
    BY DEF Bases
  <2>3. ASSUME NEW x \in Thing, InServer(x)'
        PROVE  Said(News(x)', n + 1, b, "here")
    <3>1. CASE About(m, x) = "here"
      BY <1>1, <1>2, <2>1, <3>1, SaidLast
    <3>2. CASE InServer(x) /\ About(m, x) = "none" /\ m.type # "main"
      <4>1. b \in Bases /\ b \in 0 .. n
        BY <2>1, <2>2, <3>2
      <4>2. Said(News(x), n, b, "here")
        BY <3>2, <4>1 DEF Told
      <4> QED BY <1>1, <1>2, <3>2, <4>1, <4>2, SaidKept
    <3> QED BY <2>3, <3>1, <3>2 DEF Fits
  <2>4. ASSUME NEW u \in Present'
        PROVE  Said(Places(u)', n + 1, b, "right")
    <3>1. CASE AboutPlace(m, u, where'[u]) = "right"
      BY <1>1, <1>5, <2>1, <3>1, SaidLast
    <3>2. CASE /\ u \in Present /\ where'[u] = where[u] /\ m.type # "main"
               /\ AboutPlace(m, u, where[u]) = "none"
      <4>1. b \in Bases /\ b \in 0 .. n
        BY <2>1, <2>2, <3>2
      <4>2. Said(Places(u), n, b, "right")
        BY <3>2, <4>1 DEF Told
      <4>3. Places(u)'[n + 1] = "none"
        BY <1>5, <3>2
      <4>4. \A i \in 0 .. n : Places(u)'[i] = Places(u)[i]
        BY <1>4, <3>2
      <4> QED BY <1>1, <4>1, <4>2, <4>3, <4>4, SaidKept
    <3> QED BY <3>1, <3>2 DEF Fits
  <2> QED BY <2>3, <2>4
<1>7. ASSUME NEW x \in Thing, ~ InServer(x)', x \notin unseen'
      PROVE  Said(Pushed(x)', n + 1, 0, "gone")
  <2>1. CASE About(m, x) = "gone"
    BY <1>1, <1>3, <2>1, SaidLast
  <2>2. CASE ~ InServer(x) /\ About(m, x) = "none" /\ (x \in unseen => x \in unseen')
    <3>1. Said(Pushed(x), n, 0, "gone")
      BY <2>2, <1>7 DEF GoneKnown
    <3> QED BY <1>1, <1>3, <2>2, <3>1, SaidKept
  <2> QED BY <1>7, <2>1, <2>2 DEF Fits
<1>8. ASSUME NEW x \in Thing, ~ InServer(x)', NEW k \in 1 .. n + 1, sent'[k].type = "sync"
      PROVE  Said(News(x)', n + 1, k, "gone")
  <2>1. k \in 1 .. n /\ sent[k].type = "sync"
    BY <1>1, <1>8
  <2>2. CASE About(m, x) = "gone"
    BY <1>1, <1>2, <2>2, SaidLast
  <2>3. CASE ~ InServer(x) /\ About(m, x) = "none"
    <3>1. Said(News(x), n, k, "gone")
      BY <2>1, <2>3 DEF GoneKnown
    <3>2. /\ \A i \in 0 .. n : News(x)'[i] = News(x)[i]
          /\ News(x)'[n + 1] = "none"
      BY <1>2, <2>3
    <3>3. k \in 0 .. n
      BY <1>1, <2>1
    <3> QED BY <1>1, <3>1, <3>2, <3>3, SaidKept
  <2> QED BY <1>8, <2>2, <2>3 DEF Fits
<1>9. GoneKnown'
  BY <1>1, <1>7, <1>8 DEF GoneKnown, Said
<1> QED BY <1>6, <1>9

-----------------------------------------------------------------------------
(* A message is taken in.                                                  *)

\* What taking in m makes of the copy.
Obeys(m) ==
  /\ \A x \in Thing : /\ About(m, x) = "here" => InCopy(x)'
                      /\ About(m, x) = "gone" => ~ InCopy(x)'
                      /\ About(m, x) = "none" => (InCopy(x)' <=> InCopy(x))
  /\ \A u \in Present : u \in DOMAIN people' =>
       \/ people'[u] = where[u]
       \/ AboutPlace(m, u, where[u]) = "wrong"
       \/ /\ AboutPlace(m, u, where[u]) = "none"
          /\ u \in DOMAIN people /\ people'[u] = people[u]
  /\ synced' => synced \/ m.type \in {"sync", "main"}
  /\ unseen' = unseen \/ m.type = "sync"

LEMMA ReceiveKeeps ==
  ASSUME Typed, Order, Told, GoneKnown, sent # << >>, sent' = Tail(sent),
         UNCHANGED server, Obeys(Head(sent))
  PROVE  Told' /\ GoneKnown'
<1> DEFINE n == Len(sent)
<1>1. /\ n \in Nat \ {0} /\ Len(sent') = n - 1
      /\ \A i \in 1 .. n - 1 : sent'[i] = sent[i + 1]
      /\ sent[1] = Head(sent)
  <2>1. /\ Head(sent) \in Message /\ Tail(sent) \in Seq(Message)
        /\ Len(Tail(sent)) = n - 1
        /\ \A i \in 1 .. n - 1 : Tail(sent)[i] = sent[i + 1]
    BY HeadTailProperties DEF Typed
  <2>2. n \in Nat \ {0}
    BY EmptySeq, LenProperties DEF Typed
  <2> QED BY <2>1, <2>2
<1>2. /\ \A x : InServer(x)' <=> InServer(x)
      /\ Present' = Present
  BY DEF InServer, Present, server
<1>3. ASSUME NEW x \in Thing
      PROVE  /\ \A i \in 1 .. n - 1 : News(x)'[i] = News(x)[i + 1]
             /\ \A v \in {"here", "gone"} :
                  /\ News(x)[1] = v => News(x)'[0] = v
                  /\ News(x)[1] = "none" /\ News(x)[0] = v => News(x)'[0] = v
  <2>1. \A i \in 1 .. n - 1 : News(x)'[i] = News(x)[i + 1]
    BY <1>1 DEF News
  <2>2. /\ News(x)[1] = About(Head(sent), x)
        /\ News(x)[0] = IF InCopy(x) THEN "here" ELSE "gone"
        /\ News(x)'[0] = IF InCopy(x)' THEN "here" ELSE "gone"
    BY <1>1 DEF News
  <2>3. /\ About(Head(sent), x) = "here" => InCopy(x)'
        /\ About(Head(sent), x) = "gone" => ~ InCopy(x)'
        /\ About(Head(sent), x) = "none" => (InCopy(x)' <=> InCopy(x))
    BY DEF Obeys
  <2> QED BY <2>1, <2>2, <2>3
<1>4. ASSUME NEW u \in Present
      PROVE  /\ \A i \in 1 .. n - 1 : Places(u)'[i] = Places(u)[i + 1]
             /\ Places(u)[1] = "right" => Places(u)'[0] = "right"
             /\ Places(u)[1] = "none" /\ Places(u)[0] = "right" => Places(u)'[0] = "right"
  <2>1. \A i \in 1 .. n - 1 : Places(u)'[i] = Places(u)[i + 1]
    BY <1>1 DEF Places, server
  <2>2. /\ Places(u)[1] = AboutPlace(Head(sent), u, where[u])
        /\ Places(u)[0] = Verdict(u \in DOMAIN people => people[u] = where[u])
        /\ Places(u)'[0] = Verdict(u \in DOMAIN people' => people'[u] = where[u])
    BY <1>1 DEF Places, server
  <2> QED BY <2>1, <2>2 DEF Obeys, Verdict
<1>5. ASSUME NEW b \in Bases'
      PROVE  \E k \in Bases : /\ k \in 0 .. n /\ b \in Nat
                              /\ b = 0 \/ b = k - 1
                              /\ k <= 1 => b = 0
  <2>1. b \in 0 .. n - 1
    BY <1>1 DEF Bases
  <2>2. CASE b = 0
    <3>1. synced \/ sent[1].type \in {"sync", "main"}
      BY <1>1, <2>2 DEF Bases, Obeys
    <3>2. 0 \in Bases \/ 1 \in Bases
      BY <1>1, <3>1 DEF Bases
    <3> QED BY <1>1, <2>2, <3>2
  <2>3. CASE b # 0
    <3>1. b + 1 \in Bases
      BY <1>1, <2>1, <2>3 DEF Bases
    <3> QED BY <1>1, <2>1, <2>3, <3>1
  <2> QED BY <2>2, <2>3
<1>6. Told'
  <2> SUFFICES ASSUME NEW b \in Bases'
               PROVE  /\ \A x \in Thing : InServer(x)' => Said(News(x)', n - 1, b, "here")
                      /\ \A u \in Present' : Said(Places(u)', n - 1, b, "right")
    BY <1>1 DEF Told, Said
  <2>1. PICK k \in Bases : /\ k \in 0 .. n /\ b \in Nat
                           /\ b = 0 \/ b = k - 1
                           /\ k <= 1 => b = 0
    BY <1>5
  <2>2. ASSUME NEW x \in Thing, InServer(x)'
        PROVE  Said(News(x)', n - 1, b, "here")
    <3>1. Said(News(x), n, k, "here")
      BY <1>2, <2>2 DEF Told
    <3>2. /\ \A i \in 1 .. n - 1 : News(x)'[i] = News(x)[i + 1]
          /\ News(x)[1] = "here" => News(x)'[0] = "here"
          /\ News(x)[1] = "none" /\ News(x)[0] = "here" => News(x)'[0] = "here"
      BY <1>3
    <3> QED BY <1>1, <2>1, <3>1, <3>2, SaidShift
  <2>3. ASSUME NEW u \in Present'
        PROVE  Said(Places(u)', n - 1, b, "right")
    <3>1. u \in Present /\ Said(Places(u), n, k, "right")
      BY <1>2 DEF Told
    <3>2. /\ \A i \in 1 .. n - 1 : Places(u)'[i] = Places(u)[i + 1]
          /\ Places(u)[1] = "right" => Places(u)'[0] = "right"
          /\ Places(u)[1] = "none" /\ Places(u)[0] = "right" => Places(u)'[0] = "right"
      BY <1>4, <3>1
    <3> QED BY <1>1, <2>1, <3>1, <3>2, SaidShift
  <2> QED BY <2>2, <2>3
<1>7. \A k \in 1 .. n - 1 : sent'[k].type # "sync"
  BY <1>1 DEF Order
<1>8. ASSUME NEW x \in Thing, ~ InServer(x)', x \notin unseen'
      PROVE  Said(Pushed(x)', n - 1, 0, "gone")
  <2>1. CASE Head(sent).type = "sync"
    <3>1. Said(News(x), n, 1, "gone")
      BY <1>1, <1>2, <1>8, <2>1 DEF GoneKnown
    <3>2. Said(News(x)', n - 1, 0, "gone")
      <4>1. /\ \A i \in 1 .. n - 1 : News(x)'[i] = News(x)[i + 1]
            /\ News(x)[1] = "gone" => News(x)'[0] = "gone"
            /\ News(x)[1] = "none" /\ News(x)[0] = "gone" => News(x)'[0] = "gone"
        BY <1>3
      <4>2. 0 \in Nat /\ 1 \in 0 .. n /\ 0 = 1 - 1
        BY <1>1
      <4> QED BY <1>1, <3>1, <4>1, <4>2, SaidShift
    <3>3. \A i \in 0 .. n - 1 : Pushed(x)'[i] = News(x)'[i]
      BY <1>1, <1>7 DEF Pushed
    <3> QED BY <1>1, <3>2, <3>3 DEF Said
  <2>2. CASE Head(sent).type # "sync"
    <3>1. Said(Pushed(x), n, 0, "gone")
      BY <1>2, <1>8, <2>2 DEF GoneKnown, Obeys
    <3>2. \A i \in 1 .. n - 1 : Pushed(x)'[i] = Pushed(x)[i + 1]
      BY <1>1, <1>3 DEF Pushed
    <3>3. /\ Pushed(x)[0] = News(x)[0] /\ Pushed(x)'[0] = News(x)'[0]
          /\ Pushed(x)[1] = News(x)[1]
      BY <1>1, <2>2 DEF Pushed
    <3>4. /\ Pushed(x)[1] = "gone" => Pushed(x)'[0] = "gone"
          /\ Pushed(x)[1] = "none" /\ Pushed(x)[0] = "gone" => Pushed(x)'[0] = "gone"
      BY <1>3, <3>3
    <3>5. 0 \in Nat /\ 0 \in 0 .. n
      BY <1>1
    <3> QED BY <1>1, <3>1, <3>2, <3>4, <3>5, SaidShift
  <2> QED BY <2>1, <2>2
<1>9. GoneKnown'
  BY <1>1, <1>7, <1>8 DEF GoneKnown, Said
<1> QED BY <1>6, <1>9

-----------------------------------------------------------------------------
(* The server tells a change.                                              *)

LEMMA NoPushFacts ==
  /\ NoPush \in Push
  /\ DOMAIN NoPush.adds = {} /\ DOMAIN NoPush.changes = {}
  /\ NoPush.removes = {} /\ NoPush.folders = {}
<1>1. [u \in {} |-> Hall] \in PeopleMap
  <2>1. [u \in {} |-> Hall] \in [{} -> Place]
    OBVIOUS
  <2> QED BY <2>1, PeopleMapIntro
<1> QED BY <1>1 DEF NoPush, Push

LEMMA AddedFacts ==
  ASSUME NEW u \in User, NEW c \in Place
  PROVE  /\ Added(u, c) \in Push
         /\ About(Added(u, c), u) = "here"
         /\ \A x : x # u => About(Added(u, c), x) = "none"
         /\ AboutPlace(Added(u, c), u, c) = "right"
         /\ \A v, p : v # u => AboutPlace(Added(u, c), v, p) = "none"
         /\ Added(u, c).removes = {} /\ Added(u, c).type = "push"
<1> DEFINE m == Added(u, c)
<1>1. [v \in {u} |-> c] \in PeopleMap
  <2>1. [v \in {u} |-> c] \in [{u} -> Place]
    OBVIOUS
  <2> QED BY <2>1, PeopleMapIntro
<1>2. /\ m \in Push /\ m.type = "push" /\ m.adds = [v \in {u} |-> c]
      /\ m.removes = {} /\ m.folders = {} /\ DOMAIN m.changes = {}
  BY <1>1, NoPushFacts DEF Added, NoPush, Push
<1> QED BY <1>2 DEF About, AboutPlace, Verdict

\* Nothing is told to whoever is not connected.
LEMMA TellKeeps ==
  ASSUME Inv, NEW m \in Message, NEW here, NEW gone, gone \subseteq Thing,
         Tell(m, here, gone), m.type \in {"push", "changefolder", "channel"}, Sound(m),
         where' \in [User -> Place \cup {Nowhere}], rooms' \subseteq Channel,
         line = "down" \/ (where[Self] # Nowhere => where'[Self] # Nowhere),
         \A x \in Thing : InServer(x)' =>
           \/ About(m, x) = "here"
           \/ InServer(x) /\ About(m, x) = "none",
         \A x \in Thing : ~ InServer(x)' =>
           /\ x \notin here
           /\ \/ About(m, x) = "gone" /\ x \in gone
              \/ ~ InServer(x) /\ About(m, x) = "none",
         \A u \in Present' :
           \/ AboutPlace(m, u, where'[u]) = "right"
           \/ /\ u \in Present /\ where'[u] = where[u]
              /\ AboutPlace(m, u, where[u]) = "none"
  PROVE  Inv'
<1>1. /\ UNCHANGED <<version, line, asked, copy, synced>>
      /\ sent' = IF Connected THEN Append(sent, m) ELSE sent
      /\ unseen' = (unseen \ here) \cup IF Connected THEN {} ELSE gone
  BY DEF Tell
<1>2. /\ Len(sent) \in Nat
      /\ Len(Append(sent, m)) = Len(sent) + 1 /\ Append(sent, m) \in Seq(Message)
      /\ \A i \in 1 .. Len(sent) : Append(sent, m)[i] = sent[i]
      /\ Append(sent, m)[Len(sent) + 1] = m
  BY AppendFacts DEF Inv, Typed
<1>3. Typed'
  <2>1. unseen' \subseteq Thing
    BY <1>1 DEF Inv, Typed, TypeOK, Thing
  <2>2. sent' \in Seq(Message)
    BY <1>1, <1>2 DEF Inv, Typed
  <2> QED BY <1>1, <2>1, <2>2 DEF Inv, Typed, TypeOK, copy, Thing
<1>4. Order'
  <2>1. \A i \in 1 .. Len(sent)' :
          Sound(sent[i])' /\ (sent'[i].type = "sync" => i = 1)
    BY <1>1, <1>2 DEF Inv, Order, Sound
  <2>2. sent' # << >> => Connected \/ sent # << >>
    BY <1>1
  <2>3. Connected \/ sent # << >> => where'[Self] # Nowhere
    BY DEF Inv, Order, Connected
  <2>4. ~ Connected => sent' = sent
    BY <1>1
  <2> QED BY <1>1, <2>1, <2>2, <2>3, <2>4 DEF Inv, Order, Connected, copy
<1>5. CurrentShown'
  BY <1>1 DEF Inv, CurrentShown, copy
<1>6. CASE Connected
  <2>1. Fits(m)
    BY <1>1, <1>6 DEF Fits
  <2>2. Told' /\ GoneKnown'
    BY <1>1, <1>6, <2>1, AppendKeeps DEF Inv, copy
  <2> QED BY <1>3, <1>4, <1>5, <2>2 DEF Inv
<1>7. CASE ~ Connected
  <2>1. ~ synced /\ \A i \in 1 .. Len(sent) : sent[i].type = "joinres"
    BY <1>7 DEF Inv, Order
  <2>2. sent' = sent /\ UNCHANGED <<people, channels, synced>>
    BY <1>1, <1>7 DEF copy
  <2>3. Bases' = {}
    BY <2>1, <2>2 DEF Bases
  <2>4. ASSUME NEW x \in Thing, ~ InServer(x)', x \notin unseen'
        PROVE  Said(Pushed(x)', Len(sent)', 0, "gone")
    <3>1. ~ InServer(x) /\ x \notin unseen
      BY <1>1, <1>7, <2>4
    <3>2. Pushed(x)' = Pushed(x)
      BY <2>2 DEF Pushed, News, InCopy
    <3> QED BY <2>2, <3>1, <3>2 DEF Inv, GoneKnown
  <2>5. Told' /\ GoneKnown'
    BY <2>1, <2>2, <2>3, <2>4 DEF Told, GoneKnown
  <2> QED BY <1>3, <1>4, <1>5, <2>5 DEF Inv
<1> QED BY <1>6, <1>7

LEMMA ComeInv ==
  ASSUME Inv, NEW u \in User, NEW c \in rooms \cup {Hall}, Come(u, c)
  PROVE  Inv'
<1>1. c \in Place /\ c # Nowhere /\ u # Self
  BY MemberAssumption DEF Inv, Typed, TypeOK, Place, Come
<1>2. /\ where' \in [User -> Place \cup {Nowhere}] /\ rooms' = rooms
      /\ where'[u] = c /\ \A v \in User \ {u} : where'[v] = where[v]
      /\ where'[Self] = where[Self]
  BY <1>1, MemberAssumption DEF Inv, Typed, TypeOK, Come
<1>3. Added(u, c) \in Message /\ Added(u, c).type = "push" /\ Sound(Added(u, c))
  BY <1>1, AddedFacts DEF Message, Sound
<1>4. \A x \in Thing : InServer(x)' <=> InServer(x) \/ x = u
  BY <1>1, <1>2, MemberAssumption DEF InServer, Present, Thing, Inv, Typed, TypeOK
<1>5. \A v \in Present' : v = u \/ (v # u /\ v \in Present /\ where'[v] = where[v])
  BY <1>2 DEF Present
<1>6. Tell(Added(u, c), {u}, {})
  BY DEF Come
<1>7. /\ \A x \in Thing : x # u => About(Added(u, c), x) = "none"
      /\ About(Added(u, c), u) = "here"
      /\ AboutPlace(Added(u, c), u, c) = "right"
      /\ \A v, p : v # u => AboutPlace(Added(u, c), v, p) = "none"
  BY <1>1, AddedFacts
<1>8. \A v \in Present' :
           \/ AboutPlace(Added(u, c), v, where'[v]) = "right"
           \/ /\ v \in Present /\ where'[v] = where[v]
              /\ AboutPlace(Added(u, c), v, where[v]) = "none"
  BY <1>2, <1>5, <1>7
<1> DEFINE m == Added(u, c)
<1>9. /\ \A x \in Thing : InServer(x)' =>
           \/ About(m, x) = "here"
           \/ InServer(x) /\ About(m, x) = "none"
      /\ \A x \in Thing : ~ InServer(x)' =>
           /\ x \notin {u}
           /\ \/ About(m, x) = "gone" /\ x \in {}
              \/ ~ InServer(x) /\ About(m, x) = "none"
  BY <1>4, <1>7
<1>10. /\ rooms' \subseteq Channel /\ {} \subseteq Thing
       /\ m.type \in {"push", "changefolder", "channel"}
       /\ where[Self] # Nowhere => where'[Self] # Nowhere
  BY <1>2, <1>3 DEF Inv, Typed, TypeOK
<1> HIDE DEF m
<1>11. m = Added(u, c)
  BY DEF m
<1> QED BY <1>2, <1>3, <1>6, <1>8, <1>9, <1>10, <1>11, TellKeeps

LEMMA GoInv ==
  ASSUME Inv, NEW u \in User, Go(u)
  PROVE  Inv'
<1> DEFINE m == [NoPush EXCEPT !.removes = {u}]
<1>1. /\ m \in Push /\ m.type = "push" /\ m.removes = {u} /\ m.folders = {}
      /\ DOMAIN m.adds = {} /\ DOMAIN m.changes = {}
  BY NoPushFacts DEF NoPush, Push
<1>2. /\ \A x \in Thing : x # u => About(m, x) = "none"
      /\ About(m, u) = "gone"
      /\ \A v, p : AboutPlace(m, v, p) = "none"
  BY <1>1 DEF About, AboutPlace
<1>3. /\ where' \in [User -> Place \cup {Nowhere}] /\ rooms' = rooms
      /\ where'[u] = Nowhere /\ \A v \in User \ {u} : where'[v] = where[v]
  BY DEF Inv, Typed, TypeOK, Go
<1>4. /\ \A x \in Thing : InServer(x)' <=> InServer(x) /\ x # u
      /\ \A v \in Present' : v \in Present /\ where'[v] = where[v]
  BY <1>3, MemberAssumption DEF InServer, Present, Thing, Inv, Typed, TypeOK
<1>5. u = Self => line = "down"
  BY DEF Go
<1>6. line = "down" \/ (where[Self] # Nowhere => where'[Self] # Nowhere)
  BY <1>3, <1>5, MemberAssumption
<1>7. CASE line = "down" \/ u # Self
  <2>1. Tell(m, {}, {u}) /\ {u} \subseteq Thing /\ rooms' \subseteq Channel
    BY <1>3 DEF Go, Thing, Inv, Typed, TypeOK
  <2>2. CASE u # Self
    <3>1. m \in Message /\ Sound(m)
      BY <1>1, <2>2 DEF Message, Sound
    <3> HIDE DEF m
    <3>2. /\ \A x \in Thing : InServer(x)' =>
               \/ About(m, x) = "here"
               \/ InServer(x) /\ About(m, x) = "none"
          /\ \A x \in Thing : ~ InServer(x)' =>
               /\ x \notin {}
               /\ \/ About(m, x) = "gone" /\ x \in {u}
                  \/ ~ InServer(x) /\ About(m, x) = "none"
          /\ \A v \in Present' :
               \/ AboutPlace(m, v, where'[v]) = "right"
               \/ /\ v \in Present /\ where'[v] = where[v]
                  /\ AboutPlace(m, v, where[v]) = "none"
      BY <1>2, <1>4
    <3> QED BY <1>1, <1>3, <1>6, <2>1, <3>1, <3>2, TellKeeps
  <2>3. CASE u = Self
    <3>1. line = "down" /\ ~ Connected /\ sent = << >> /\ ~ synced /\ ~ asked
      BY <1>5, <2>3 DEF Inv, Order, Connected
    <3>2. /\ UNCHANGED <<version, line, asked, copy, synced, sent, rooms>>
          /\ unseen' = unseen \cup {u}
      BY <2>1, <1>3, <3>1 DEF Tell
    <3>3. Typed'
      BY <1>3, <3>2 DEF Inv, Typed, TypeOK, copy
    <3>4. Order' /\ CurrentShown'
      BY <3>1, <3>2 DEF Inv, Order, Connected, copy, CurrentShown, Sound
    <3>5. Len(sent) = 0 /\ Bases' = {}
      BY <3>1, <3>2 DEF Bases
    <3>6. ASSUME NEW x \in Thing, ~ InServer(x)', x \notin unseen'
          PROVE  Said(Pushed(x)', Len(sent)', 0, "gone")
      <4>1. ~ InServer(x) /\ x \notin unseen
        BY <1>4, <3>2, <3>6
      <4>2. Pushed(x)' = Pushed(x)
        BY <3>2 DEF Pushed, News, InCopy, copy
      <4> QED BY <3>2, <4>1, <4>2 DEF Inv, GoneKnown
    <3>7. Told' /\ GoneKnown'
      BY <3>2, <3>5, <3>6 DEF Told, GoneKnown
    <3> QED BY <3>3, <3>4, <3>7 DEF Inv
  <2> QED BY <2>2, <2>3
<1> QED BY <1>5, <1>7

LEMMA WalkInv ==
  ASSUME Inv, NEW u \in User, NEW c \in rooms \cup {Hall}, Walk(u, c)
  PROVE  Inv'
<1>1. c \in Place /\ c # Nowhere
  BY MemberAssumption DEF Inv, Typed, TypeOK, Place
<1>2. /\ where' \in [User -> Place \cup {Nowhere}] /\ rooms' = rooms
      /\ where'[u] = c /\ \A v \in User \ {u} : where'[v] = where[v]
      /\ where[u] # Nowhere
  BY <1>1 DEF Inv, Typed, TypeOK, Walk
<1>3. /\ \A x \in Thing : InServer(x)' <=> InServer(x)
      /\ \A v \in Present' : v \in Present /\ (v # u => where'[v] = where[v])
      /\ where[Self] # Nowhere => where'[Self] # Nowhere
  BY <1>1, <1>2, MemberAssumption DEF InServer, Present, Thing, Inv, Typed, TypeOK
<1>4. rooms' \subseteq Channel /\ {} \subseteq Thing
  BY <1>2 DEF Inv, Typed, TypeOK
<1>5. ASSUME NEW m \in Message, Tell(m, {}, {}), m.type \in {"push", "changefolder"},
             Sound(m),
             \A x \in Thing : About(m, x) = "none",
             AboutPlace(m, u, c) = "right",
             \A v, p : v # u => AboutPlace(m, v, p) = "none"
      PROVE  Inv'
  <2>1. /\ \A x \in Thing : InServer(x)' =>
             \/ About(m, x) = "here"
             \/ InServer(x) /\ About(m, x) = "none"
        /\ \A x \in Thing : ~ InServer(x)' =>
             /\ x \notin {}
             /\ \/ About(m, x) = "gone" /\ x \in {}
                \/ ~ InServer(x) /\ About(m, x) = "none"
        /\ \A v \in Present' :
             \/ AboutPlace(m, v, where'[v]) = "right"
             \/ /\ v \in Present /\ where'[v] = where[v]
                /\ AboutPlace(m, v, where[v]) = "none"
    BY <1>2, <1>3, <1>5
  <2> QED BY <1>2, <1>3, <1>4, <1>5, <2>1, TellKeeps
<1>6. CASE Tell([NoPush EXCEPT !.changes = [v \in {u} |-> c]], {}, {})
  <2> DEFINE m == [NoPush EXCEPT !.changes = [v \in {u} |-> c]]
  <2>1. [v \in {u} |-> c] \in PeopleMap
    <3>1. [v \in {u} |-> c] \in [{u} -> Place]
      BY <1>1
    <3> QED BY <3>1, PeopleMapIntro
  <2>2. /\ m \in Push /\ m.type = "push" /\ m.removes = {} /\ m.folders = {}
        /\ DOMAIN m.adds = {} /\ m.changes = [v \in {u} |-> c]
    BY <2>1, NoPushFacts DEF NoPush, Push
  <2>3. /\ \A x \in Thing : About(m, x) = "none"
        /\ AboutPlace(m, u, c) = "right"
        /\ \A v, p : v # u => AboutPlace(m, v, p) = "none"
    BY <2>2 DEF About, AboutPlace, Verdict
  <2>4. m \in Message /\ Sound(m)
    BY <2>2 DEF Message, Sound
  <2> QED BY <1>5, <1>6, <2>2, <2>3, <2>4
<1>7. CASE u = Self /\ Tell([type |-> "changefolder", to |-> c], {}, {})
  <2> DEFINE m == [type |-> "changefolder", to |-> c]
  <2>1. m \in Message /\ Sound(m)
    BY <1>1 DEF Message, Sound
  <2>2. /\ \A x \in Thing : About(m, x) = "none"
        /\ AboutPlace(m, u, c) = "right"
        /\ \A v, p : v # u => AboutPlace(m, v, p) = "none"
    BY <1>7 DEF About, AboutPlace, Verdict
  <2> QED BY <1>5, <1>7, <2>1, <2>2
<1> QED BY <1>6, <1>7 DEF Walk

LEMMA OpenRoomInv ==
  ASSUME Inv, NEW c \in Channel, OpenRoom(c)
  PROVE  Inv'
<1> DEFINE m == [type |-> "channel", sid |-> c]
<1>1. m \in Message /\ Sound(m) /\ m.type = "channel"
  BY DEF Message, Sound
<1>2. /\ About(m, c) = "here" /\ \A x \in Thing : x # c => About(m, x) = "none"
      /\ \A v, p : AboutPlace(m, v, p) = "none"
  BY DEF About, AboutPlace
<1>3. /\ where' = where /\ rooms' = rooms \cup {c} /\ Tell(m, {c}, {})
      /\ where' \in [User -> Place \cup {Nowhere}] /\ rooms' \subseteq Channel
      /\ {} \subseteq Thing
  BY DEF OpenRoom, Inv, Typed, TypeOK
<1>4. /\ \A x \in Thing : InServer(x)' <=> InServer(x) \/ x = c
      /\ Present' = Present
  BY <1>3 DEF InServer, Present
<1> HIDE DEF m
<1>5. /\ \A x \in Thing : InServer(x)' =>
           \/ About(m, x) = "here"
           \/ InServer(x) /\ About(m, x) = "none"
      /\ \A x \in Thing : ~ InServer(x)' =>
           /\ x \notin {c}
           /\ \/ About(m, x) = "gone" /\ x \in {}
              \/ ~ InServer(x) /\ About(m, x) = "none"
      /\ \A v \in Present' :
           \/ AboutPlace(m, v, where'[v]) = "right"
           \/ /\ v \in Present /\ where'[v] = where[v]
              /\ AboutPlace(m, v, where[v]) = "none"
  BY <1>2, <1>3, <1>4
<1> QED BY <1>1, <1>3, <1>5, TellKeeps

LEMMA CloseRoomInv ==
  ASSUME Inv, NEW c \in Channel, CloseRoom(c)
  PROVE  Inv'
<1> DEFINE there == {v \in User : where[v] = c}
           moves == [u \in there |-> Hall]
           m == [NoPush EXCEPT !.folders = {c}, !.changes = moves]
<1>1. /\ Hall \in Place /\ Hall # Nowhere /\ c # Nowhere /\ c \notin User
  BY MemberAssumption DEF Place
<1>2. moves \in PeopleMap
  <2>1. moves \in [there -> Place] /\ there \in SUBSET User
    BY <1>1
  <2> QED BY <2>1, PeopleMapIntro
<1>3. /\ m \in Push /\ m.type = "push" /\ m.removes = {} /\ m.folders = {c}
      /\ DOMAIN m.adds = {} /\ m.changes = moves
  <2> HIDE DEF moves
  <2> QED BY <1>2, NoPushFacts DEF NoPush, Push
<1>4. m \in Message /\ Sound(m)
  BY <1>3 DEF Message, Sound
<1>5. About(m, c) = "gone" /\ \A x \in Thing : x # c => About(m, x) = "none"
  <2> HIDE DEF m
  <2> QED BY <1>3 DEF About
<1>6. \A v \in User : /\ where[v] = c => AboutPlace(m, v, Hall) = "right"
                      /\ where[v] # c => AboutPlace(m, v, where[v]) = "none"
  <2>1. DOMAIN m.changes = there /\ \A v \in there : m.changes[v] = Hall
    BY <1>3
  <2> HIDE DEF m
  <2> QED BY <1>3, <2>1 DEF AboutPlace, Verdict
<1>7. /\ where' = [u \in User |-> IF where[u] = c THEN Hall ELSE where[u]]
      /\ rooms' = rooms \ {c} /\ Tell(m, {}, {c})
  BY DEF CloseRoom
<1>8. /\ where' \in [User -> Place \cup {Nowhere}] /\ rooms' \subseteq Channel
      /\ {c} \subseteq Thing
      /\ where[Self] # Nowhere => where'[Self] # Nowhere
  BY <1>1, <1>7, MemberAssumption DEF Inv, Typed, TypeOK, Thing
<1>9. /\ \A v \in User : where'[v] # Nowhere <=> where[v] # Nowhere
      /\ \A v \in User : where'[v] = IF where[v] = c THEN Hall ELSE where[v]
  BY <1>1, <1>7
<1>10. /\ Present' = Present
       /\ \A x \in Thing : InServer(x)' <=> InServer(x) /\ x # c
  BY <1>1, <1>7, <1>9 DEF InServer, Present
<1> HIDE DEF m
<1>11. /\ \A x \in Thing : InServer(x)' =>
            \/ About(m, x) = "here"
            \/ InServer(x) /\ About(m, x) = "none"
       /\ \A x \in Thing : ~ InServer(x)' =>
            /\ x \notin {}
            /\ \/ About(m, x) = "gone" /\ x \in {c}
               \/ ~ InServer(x) /\ About(m, x) = "none"
  BY <1>5, <1>10
<1>12. \A v \in Present' :
            \/ AboutPlace(m, v, where'[v]) = "right"
            \/ /\ v \in Present /\ where'[v] = where[v]
               /\ AboutPlace(m, v, where[v]) = "none"
  BY <1>6, <1>9, <1>10 DEF Present
<1> QED BY <1>3, <1>4, <1>7, <1>8, <1>11, <1>12, TellKeeps

-----------------------------------------------------------------------------
(* The server answers a login.                                             *)

\* All there is of S, as it is sent.
WholeOf(type, w, S, r) == [type |-> type, people |-> Restrict(w, S), rooms |-> r]

LEMMA RestrictPeople ==
  ASSUME NEW w \in [User -> Place \cup {Nowhere}],
         NEW S \in SUBSET User, \A u \in S : w[u] # Nowhere
  PROVE  /\ Restrict(w, S) \in PeopleMap /\ DOMAIN Restrict(w, S) = S
         /\ \A u \in S : Restrict(w, S)[u] = w[u]
<1>1. Restrict(w, S) \in [S -> Place]
  BY DEF Restrict
<1> QED BY <1>1, PeopleMapIntro DEF Restrict

LEMMA WholeFacts ==
  ASSUME NEW m \in Whole
  PROVE  /\ m \in Message
         /\ \A x \in Thing : x \in DOMAIN m.people \cup m.rooms => About(m, x) = "here"
         /\ \A x \in Thing : x \notin DOMAIN m.people \cup m.rooms =>
              /\ m.type = "sync" => About(m, x) = "gone"
              /\ m.type = "main" => About(m, x) = "none"
         /\ \A u \in DOMAIN m.people : AboutPlace(m, u, m.people[u]) = "right"
         /\ \A u, p : u \notin DOMAIN m.people => AboutPlace(m, u, p) = "none"
<1>1. m.type \in {"sync", "main"} /\ m.type # "push"
  BY DEF Whole
<1> QED BY <1>1 DEF Message, About, AboutPlace, Verdict

\* A word that is the first of one or two, and not taken back.
LEMMA SaidFirst ==
  ASSUME NEW n \in {1, 2}, NEW g, NEW v, NEW k \in {0, 1},
         g[k] = v, \A j \in k + 1 .. n : g[j] = "none"
  PROVE  Said(g, n, k, v)
<1> QED BY DEF Said

LEMMA ServerMainInv ==
  ASSUME Inv, ServerMain
  PROVE  Inv'
<1> DEFINE m == WholeOf("main", where, Present, rooms)
<1>1. /\ sent' = Append(sent, m) /\ asked' = FALSE
      /\ UNCHANGED <<where, rooms, version, line, copy, synced, unseen>>
  BY DEF ServerMain, server, WholeOf
<1>2. Connected /\ version = "new" /\ where[Self] # Nowhere
  BY DEF Inv, Order, ServerMain
<1>3. /\ where \in [User -> Place \cup {Nowhere}] /\ rooms \in SUBSET Channel
      /\ Present = {u \in User : where[u] # Nowhere}
  BY DEF Inv, Typed, TypeOK, Present
<1>4. /\ m \in Message /\ m.type = "main" /\ DOMAIN m.people = Present /\ m.rooms = rooms
      /\ \A x \in Thing : x \in Present \cup rooms => About(m, x) = "here"
      /\ \A x \in Thing : x \notin Present \cup rooms => About(m, x) = "none"
      /\ \A u \in Present : AboutPlace(m, u, where[u]) = "right"
  <2>1. Present \in SUBSET User /\ \A u \in Present : where[u] # Nowhere
    BY <1>3
  <2>2. /\ m \in Whole /\ m.type = "main" /\ m.rooms = rooms
        /\ DOMAIN m.people = Present /\ \A u \in Present : m.people[u] = where[u]
    BY <1>3, <2>1, RestrictPeople DEF WholeOf, Whole
  <2> HIDE DEF m
  <2> QED BY <2>2, WholeFacts
<1> HIDE DEF m
<1>5. /\ \A x : InServer(x)' <=> InServer(x)
      /\ Present' = Present
  BY <1>1 DEF InServer, Present
<1>6. Fits(m)
  BY <1>1, <1>4, <1>5 DEF Fits, InServer
<1>7. Told' /\ GoneKnown'
  BY <1>1, <1>4, <1>6, AppendKeeps DEF Inv, copy
<1>8. /\ Len(sent) \in Nat
      /\ Len(sent') = Len(sent) + 1 /\ sent' \in Seq(Message)
      /\ \A i \in 1 .. Len(sent) : sent'[i] = sent[i]
      /\ sent'[Len(sent) + 1] = m
  BY <1>1, <1>4, AppendFacts DEF Inv, Typed
<1>9. Typed'
  BY <1>1, <1>8 DEF Inv, Typed, TypeOK, copy
<1>10. Order'
  <2>1. Sound(m) /\ m.type # "sync"
    BY <1>2, <1>3, <1>4, MemberAssumption DEF Sound
  <2>2. \A i \in 1 .. Len(sent)' : Sound(sent[i])' /\ (sent'[i].type = "sync" => i = 1)
    BY <1>1, <1>8, <2>1 DEF Inv, Order, Sound
  <2> QED BY <1>1, <1>2, <2>2 DEF Inv, Order, Connected, copy
<1>11. CurrentShown'
  BY <1>1 DEF Inv, CurrentShown, copy
<1> QED BY <1>7, <1>9, <1>10, <1>11 DEF Inv

\* The answer in the old protocol: all there is, or all but the user himself.
LEMMA SyncSent ==
  ASSUME Typed, Order, GoneKnown, sent = << >>, ~ synced', UNCHANGED <<rooms, copy, unseen>>,
         NEW c \in Place, where' = [where EXCEPT ![Self] = c],
         sent' \in All("sync", where')
  PROVE  /\ Told' /\ GoneKnown' /\ sent' \in Seq(Message)
         /\ \A i \in 1 .. Len(sent') :
              /\ sent'[i].type \in {"sync", "push"} /\ (sent'[i].type = "sync" => i = 1)
              /\ sent'[i].type = "push" => Self \notin sent'[i].removes
<1> DEFINE shown == {u \in User : where'[u] # Nowhere}
           Of(S) == WholeOf("sync", where', S, rooms)
<1>1. /\ where' \in [User -> Place \cup {Nowhere}] /\ rooms \in SUBSET Channel
      /\ where'[Self] = c /\ c # Nowhere
      /\ \A u \in User \ {Self} : where'[u] = where[u]
      /\ Self \in shown /\ Present' = shown
  BY MemberAssumption DEF Typed, TypeOK, Place, Present
<1>2. sent' = <<Of(shown)>> \/ sent' = <<Of(shown \ {Self}), Added(Self, c)>>
  BY <1>1 DEF All, WholeOf
<1>3. PICK S \in SUBSET shown :
        /\ sent'[1] = Of(S) /\ shown \ {Self} \subseteq S
        /\ \/ sent' = <<Of(S)>> /\ S = shown
           \/ sent' = <<Of(S), Added(Self, c)>> /\ S = shown \ {Self}
  <2>1. CASE sent' = <<Of(shown)>>
    <3> WITNESS shown \in SUBSET shown
    <3> HIDE DEF Of
    <3> QED BY <2>1
  <2>2. CASE sent' = <<Of(shown \ {Self}), Added(Self, c)>>
    <3> WITNESS shown \ {Self} \in SUBSET shown
    <3> HIDE DEF Of
    <3> QED BY <2>2
  <2> QED BY <1>2, <2>1, <2>2
<1> DEFINE m == Of(S)
<1>4. /\ m \in Message /\ m.type = "sync"
      /\ \A x \in Thing : x \in S \cup rooms => About(m, x) = "here"
      /\ \A x \in Thing : x \notin S \cup rooms => About(m, x) = "gone"
      /\ \A u \in S : AboutPlace(m, u, where'[u]) = "right"
      /\ \A u, p : u \notin S => AboutPlace(m, u, p) = "none"
  <2>1. S \in SUBSET User /\ \A u \in S : where'[u] # Nowhere
    BY <1>3
  <2>2. /\ m \in Whole /\ m.type = "sync" /\ m.rooms = rooms
        /\ DOMAIN m.people = S /\ \A u \in S : m.people[u] = where'[u]
    BY <1>1, <2>1, RestrictPeople DEF WholeOf, Whole
  <2> HIDE DEF m
  <2> QED BY <2>2, WholeFacts
<1> DEFINE a == Added(Self, c)
<1>5. /\ a \in Message /\ a.type = "push" /\ Self \notin a.removes
      /\ About(a, Self) = "here"
      /\ \A x : x # Self => About(a, x) = "none"
      /\ AboutPlace(a, Self, c) = "right"
      /\ \A v, p : v # Self => AboutPlace(a, v, p) = "none"
  BY AddedFacts, MemberAssumption DEF Message
<1>6. \/ sent' = <<m>> /\ S = shown
      \/ sent' = <<m, a>> /\ S = shown \ {Self}
  BY <1>3
<1> HIDE DEF m, a
<1> DEFINE n == Len(sent')
<1>7. /\ n \in {1, 2} /\ sent'[1] = m /\ (n = 2 => sent'[2] = a /\ S = shown \ {Self})
      /\ n = 1 => S = shown
      /\ sent' \in Seq(Message)
  <2>1. CASE sent' = <<m>> /\ S = shown
    BY <1>4, <2>1
  <2>2. CASE sent' = <<m, a>> /\ S = shown \ {Self}
    BY <1>4, <1>5, <2>2
  <2> QED BY <1>6, <2>1, <2>2
<1> HIDE DEF n
<1>8. \A x : InServer(x)' <=> x \in shown \cup rooms
  BY <1>1 DEF InServer
<1>9. Bases' \subseteq {1}
  BY <1>4, <1>5, <1>7 DEF Bases, n
<1>10. ASSUME NEW x \in Thing
       PROVE  /\ News(x)'[1] = About(m, x) /\ (n = 2 => News(x)'[2] = About(a, x))
              /\ 0 \in 0 .. n /\ 1 \in 0 .. n
  BY <1>7 DEF News, n
<1>11. ASSUME NEW u \in User
       PROVE  /\ Places(u)'[1] = AboutPlace(m, u, where'[u])
              /\ n = 2 => Places(u)'[2] = AboutPlace(a, u, where'[u])
  BY <1>7 DEF Places, n
<1>12. Self \in Thing /\ Self \notin rooms
  BY <1>1, MemberAssumption DEF Thing
<1>13. ASSUME NEW x \in Thing, InServer(x)'
       PROVE  Said(News(x)', n, 1, "here")
  <2>1. CASE x = Self /\ n = 2
    BY <1>5, <1>7, <1>10, <2>1, SaidLast
  <2>2. CASE x # Self \/ n = 1
    <3>1. x \in S \cup rooms
      BY <1>3, <1>7, <1>8, <1>13, <2>2
    <3>2. News(x)'[1] = "here" /\ (n = 2 => News(x)'[2] = "none")
      BY <1>4, <1>5, <1>7, <1>10, <2>2, <3>1
    <3>3. \A j \in 1 + 1 .. n : News(x)'[j] = "none"
      BY <1>7, <3>2
    <3> QED BY <1>7, <3>2, <3>3, SaidFirst
  <2> QED BY <1>7, <2>1, <2>2
<1>14. ASSUME NEW u \in Present'
       PROVE  Said(Places(u)', n, 1, "right")
  <2>1. u \in User /\ u \in shown
    BY <1>1
  <2>2. CASE u = Self /\ n = 2
    BY <1>1, <1>5, <1>7, <1>11, <2>1, <2>2, SaidLast
  <2>3. CASE u # Self \/ n = 1
    <3>1. u \in S
      BY <1>3, <1>7, <2>1, <2>3
    <3>2. Places(u)'[1] = "right" /\ (n = 2 => Places(u)'[2] = "none")
      BY <1>4, <1>5, <1>7, <1>11, <2>1, <2>3, <3>1
    <3>3. \A j \in 1 + 1 .. n : Places(u)'[j] = "none"
      BY <1>7, <3>2
    <3> QED BY <1>7, <3>2, <3>3, SaidFirst
  <2> QED BY <1>7, <2>2, <2>3
<1>15. Told'
  BY <1>9, <1>13, <1>14 DEF Told, n
<1>16. ASSUME NEW x \in Thing, ~ InServer(x)'
       PROVE  /\ Said(News(x)', n, 1, "gone")
              /\ x \notin unseen' => Said(Pushed(x)', n, 0, "gone")
  <2>1. x # Self /\ x \notin S \cup rooms /\ ~ InServer(x)
    <3>1. x \notin shown \cup rooms
      BY <1>8, <1>16
    <3>2. x \in User => where'[x] = Nowhere /\ x # Self
      BY <1>1, <3>1
    <3>3. x \notin Present
      BY <1>1, <3>2 DEF Present
    <3> QED BY <1>1, <1>3, <3>1, <3>3 DEF InServer
  <2>2. News(x)'[1] = "gone" /\ (n = 2 => News(x)'[2] = "none")
    BY <1>4, <1>5, <1>7, <1>10, <2>1
  <2>3. Said(News(x)', n, 1, "gone")
    <3>1. \A j \in 1 + 1 .. n : News(x)'[j] = "none"
      BY <1>7, <2>2
    <3> QED BY <1>7, <2>2, <3>1, SaidFirst
  <2>4. ASSUME x \notin unseen' PROVE Said(Pushed(x)', n, 0, "gone")
    <3>1. Said(Pushed(x), 0, 0, "gone")
      BY <2>1, <2>4 DEF GoneKnown
    <3>2. ~ InCopy(x)
      BY <3>1 DEF Said, Pushed, News
    <3>3. Pushed(x)'[0] = "gone"
      BY <1>7, <3>2 DEF Pushed, News, InCopy, copy, n
    <3>4. Pushed(x)'[1] = "none" /\ (n = 2 => Pushed(x)'[2] = "none")
      <4>1. Pushed(x)'[1] = "none"
        BY <1>4, <1>7, <2>1 DEF Pushed, n
      <4>2. n = 2 => Pushed(x)'[2] = News(x)'[2]
        BY <1>5, <1>7 DEF Pushed, n
      <4> QED BY <2>2, <4>1, <4>2
    <3>5. \A j \in 0 + 1 .. n : Pushed(x)'[j] = "none"
      BY <1>7, <3>4
    <3> QED BY <1>7, <3>3, <3>5, SaidFirst
  <2> QED BY <2>3, <2>4
<1>17. ASSUME NEW k \in 1 .. n, sent'[k].type = "sync"
       PROVE  k = 1
  BY <1>5, <1>7, <1>17
<1>18. GoneKnown'
  BY <1>16, <1>17 DEF GoneKnown, n
<1>19. \A i \in 1 .. n : /\ sent'[i].type \in {"sync", "push"} /\ (sent'[i].type = "sync" => i = 1)
                         /\ sent'[i].type = "push" => Self \notin sent'[i].removes
  BY <1>4, <1>5, <1>7
<1> QED BY <1>7, <1>15, <1>18, <1>19 DEF n

LEMMA ServerJoinInv ==
  ASSUME Inv, ServerJoin
  PROVE  Inv'
<1>1. PICK c \in {Hall} \cup ({currect_channel} \cap rooms) :
        where' = [where EXCEPT ![Self] = c]
  BY DEF ServerJoin
<1>2. c \in Place /\ c # Nowhere
  BY MemberAssumption DEF Place, Inv, Typed, TypeOK
<1>3. /\ where' \in [User -> Place \cup {Nowhere}]
      /\ where'[Self] = c /\ \A u \in User \ {Self} : where'[u] = where[u]
  BY <1>1, <1>2, MemberAssumption DEF Inv, Typed, TypeOK
<1>4. /\ line = "joining" /\ sent = << >>
      /\ UNCHANGED <<rooms, version, asked, copy, synced, unseen>>
  BY DEF ServerJoin
<1>5. ~ Connected /\ ~ synced /\ ~ asked
  BY <1>4 DEF Inv, Order, Connected
<1>6. CASE version = "old"
  <2>1. line' = "up" /\ sent' \in All("sync", where')
    BY <1>6 DEF ServerJoin
  <2>2. /\ Told' /\ GoneKnown' /\ sent' \in Seq(Message)
        /\ \A i \in 1 .. Len(sent') :
             /\ sent'[i].type \in {"sync", "push"} /\ (sent'[i].type = "sync" => i = 1)
             /\ sent'[i].type = "push" => Self \notin sent'[i].removes
    BY <1>1, <1>2, <1>4, <1>5, <2>1, SyncSent DEF Inv
  <2>3. Typed'
    BY <1>3, <1>4, <2>1, <2>2 DEF Inv, Typed, TypeOK, copy
  <2>4. \A i \in 1 .. Len(sent)' : Sound(sent[i])' /\ (sent'[i].type = "sync" => i = 1)
    BY <1>4, <1>6, <2>2 DEF Sound
  <2>5. Order'
    BY <1>2, <1>3, <1>4, <1>5, <1>6, <2>1, <2>4 DEF Order, Connected
  <2>6. CurrentShown'
    BY <1>4, <1>5 DEF CurrentShown
  <2> QED BY <2>2, <2>3, <2>5, <2>6 DEF Inv
<1>7. CASE version # "old"
  <2> DEFINE m == [type |-> "joinres"]
  <2>1. line' = line /\ sent' = <<m>> /\ version = "new"
    BY <1>7 DEF ServerJoin, Inv, Typed, TypeOK
  <2>2. m \in Message /\ m.type = "joinres" /\ \A x : About(m, x) = "none"
    BY DEF Message, About
  <2> HIDE DEF m
  <2>3. sent' \in Seq(Message) /\ Len(sent') = 1 /\ sent'[1] = m
    BY <2>1, <2>2
  <2>4. Typed'
    BY <1>3, <1>4, <2>1, <2>3 DEF Inv, Typed, TypeOK, copy
  <2>5. \A i \in 1 .. Len(sent)' : /\ Sound(sent[i])' /\ sent'[i].type = "joinres"
                                   /\ sent'[i].type = "sync" => i = 1
    BY <1>4, <2>1, <2>2, <2>3 DEF Sound
  <2>6. Order'
    BY <1>2, <1>3, <1>4, <1>5, <2>1, <2>5 DEF Order, Connected
  <2>7. CurrentShown'
    BY <1>4, <1>5 DEF CurrentShown
  <2>8. Bases' = {}
    BY <1>4, <1>5, <2>2, <2>3 DEF Bases
  <2>9. ASSUME NEW x \in Thing, ~ InServer(x)', x \notin unseen'
        PROVE  Said(Pushed(x)', 1, 0, "gone")
    <3>1. ~ InServer(x) /\ x \notin unseen
      <4>1. x # Self
        BY <1>2, <1>3, <2>9, MemberAssumption DEF InServer, Present
      <4>2. x \in User => where'[x] = where[x]
        BY <1>3, <4>1
      <4> QED BY <1>4, <2>9, <4>2 DEF InServer, Present
    <3>2. Said(Pushed(x), 0, 0, "gone")
      BY <1>4, <3>1 DEF Inv, GoneKnown
    <3>3. ~ InCopy(x)
      BY <1>4, <3>2 DEF Said, Pushed, News
    <3>4. Pushed(x)'[0] = "gone" /\ Pushed(x)'[1] = "none"
      BY <1>4, <2>2, <2>3, <3>3 DEF Pushed, News, InCopy, copy
    <3>5. \A j \in 0 + 1 .. 1 : Pushed(x)'[j] = "none"
      BY <3>4
    <3> QED BY <3>4, <3>5, SaidFirst
  <2>10. Told' /\ GoneKnown'
    BY <2>2, <2>3, <2>8, <2>9 DEF Told, GoneKnown
  <2> QED BY <2>4, <2>6, <2>7, <2>10 DEF Inv
<1> QED BY <1>6, <1>7

LEMMA ServerInv ==
  ASSUME Inv, Server
  PROVE  Inv'
<1> QED BY GoInv, ComeInv, WalkInv, OpenRoomInv, CloseRoomInv, ServerJoinInv,
           ServerMainInv DEF Server

-----------------------------------------------------------------------------
(* Connections.                                                            *)

LEMMA LoginInv ==
  ASSUME Inv, Login
  PROVE  Inv'
<1>1. /\ line = "down" /\ line' = "joining"
      /\ UNCHANGED <<where, rooms, version, sent, asked, copy, synced, unseen>>
  BY DEF Login, server
<1>2. sent = << >> /\ ~ synced /\ ~ asked
  BY <1>1 DEF Inv, Order, Connected
<1>3. Typed'
  BY <1>1 DEF Inv, Typed, TypeOK, copy
<1>4. Order' /\ CurrentShown'
  BY <1>1, <1>2 DEF Inv, Order, Connected, copy, Sound, CurrentShown
<1>5. Told' /\ GoneKnown'
  <2>1. /\ Bases' = Bases /\ Present' = Present
        /\ \A x : /\ InServer(x)' <=> InServer(x)
                 /\ News(x)' = News(x) /\ Pushed(x)' = Pushed(x)
                 /\ Places(x)' = Places(x)
    BY <1>1 DEF Bases, News, Pushed, Places, InCopy, InServer, Present, copy
  <2> QED BY <1>1, <2>1 DEF Inv, Told, GoneKnown
<1> QED BY <1>3, <1>4, <1>5 DEF Inv

LEMMA LoseInv ==
  ASSUME Inv, Lose
  PROVE  Inv'
<1>1. /\ line # "down" /\ sent' = << >> /\ asked' = FALSE /\ synced' = FALSE
      /\ unseen' = unseen \cup UNION {Gone(m) : m \in Range(sent)}
      /\ UNCHANGED <<where, rooms, version, people, channels, bSelfAdd, currect_channel>>
  BY DEF Lose, server
<1>2. \/ line' = "down" /\ is_relogin' = TRUE
      \/ Connected /\ line' = "other" /\ is_relogin' = is_relogin
  BY DEF Lose
<1>3. /\ Len(sent) \in Nat /\ DOMAIN sent = 1 .. Len(sent)
      /\ \A i \in 1 .. Len(sent) : sent[i] \in Message
  BY LenProperties, ElementOfSeq DEF Inv, Typed
<1>4. \A i \in 1 .. Len(sent) : Gone(sent[i]) \subseteq unseen'
  <2>1. \A i \in 1 .. Len(sent) : sent[i] \in Range(sent)
    BY <1>3 DEF Range
  <2> QED BY <1>1, <2>1
<1>5. unseen' \subseteq Thing
  <2>1. ASSUME NEW m \in Message PROVE Gone(m) \subseteq Thing
    <3>1. CASE m.type = "push"
      <4>1. m \in Push
        BY <3>1 DEF Message, Whole
      <4> QED BY <4>1 DEF Gone, Push, Thing
    <3>2. CASE m.type # "push"
      BY <3>2 DEF Gone
    <3> QED BY <3>1, <3>2
  <2>2. \A m \in Range(sent) : m \in Message
    BY <1>3 DEF Range
  <2>3. \A m \in Range(sent) : Gone(m) \subseteq Thing
    BY <2>1, <2>2
  <2> QED BY <1>1, <2>3 DEF Inv, Typed, TypeOK, Thing
<1>6. Typed'
  <2>1. sent' \in Seq(Message)
    BY <1>1
  <2> QED BY <1>1, <1>2, <1>5, <2>1 DEF Inv, Typed, TypeOK, Thing
<1>7. Order' /\ CurrentShown'
  BY <1>1, <1>2 DEF Inv, Order, Connected, CurrentShown
<1>8. Len(sent') = 0 /\ Bases' = {}
  BY <1>1 DEF Bases
<1>9. ASSUME NEW x \in Thing, ~ InServer(x)', x \notin unseen'
      PROVE  Said(Pushed(x)', Len(sent)', 0, "gone")
  <2>1. ~ InServer(x) /\ x \notin unseen
    BY <1>1, <1>9 DEF InServer, Present
  <2>2. PICK i \in 0 .. Len(sent) : Pushed(x)[i] = "gone"
    BY <2>1 DEF Inv, GoneKnown, Said
  <2>3. i = 0
    <3>1. ASSUME i # 0 PROVE FALSE
      <4>1. /\ i \in 1 .. Len(sent)
            /\ About(sent[i], x) = "gone" /\ sent[i].type # "sync"
        BY <1>3, <2>2, <3>1 DEF Pushed, News
      <4>2. x \in Gone(sent[i])
        BY <4>1 DEF About, Gone
      <4> QED BY <1>4, <1>9, <4>1, <4>2
    <3> QED BY <3>1
  <2>4. ~ InCopy(x)
    BY <2>2, <2>3 DEF Pushed, News
  <2>5. Pushed(x)'[0] = "gone"
    BY <1>1, <1>8, <2>4 DEF Pushed, News, InCopy
  <2> QED BY <1>8, <2>5 DEF Said
<1>10. Told' /\ GoneKnown'
  BY <1>8, <1>9 DEF Told, GoneKnown
<1> QED BY <1>6, <1>7, <1>10 DEF Inv

-----------------------------------------------------------------------------
(* The client's handlers.                                                  *)

LEMMA HeadFacts ==
  ASSUME Inv, sent # << >>
  PROVE  /\ Head(sent) \in Message /\ Sound(Head(sent)) /\ Tail(sent) \in Seq(Message)
         /\ \A i \in 1 .. Len(Tail(sent)) :
              Sound(Tail(sent)[i]) /\ Tail(sent)[i].type # "sync"
         /\ Head(sent).type # "joinres" => Connected
         /\ where[Self] # Nowhere
<1>1. /\ Head(sent) \in Message /\ Tail(sent) \in Seq(Message)
      /\ Len(Tail(sent)) = Len(sent) - 1
      /\ \A i \in 1 .. Len(Tail(sent)) : Tail(sent)[i] = sent[i + 1]
  BY HeadTailProperties DEF Inv, Typed
<1>2. Len(sent) \in Nat \ {0} /\ Head(sent) = sent[1]
  BY EmptySeq, LenProperties DEF Inv, Typed
<1>3. 1 \in 1 .. Len(sent) /\ \A i \in 1 .. Len(sent) - 1 : i + 1 \in 1 .. Len(sent) /\ i + 1 # 1
  BY <1>2
<1> QED BY <1>1, <1>2, <1>3 DEF Inv, Order

LEMMA ReceiveInv ==
  ASSUME Inv, sent # << >>, sent' = Tail(sent), UNCHANGED <<server, version>>,
         Obeys(Head(sent)), TypeOK', Connected', asked' => version = "new",
         synced' /\ version = "new" => Self \in DOMAIN people',
         synced' /\ version = "old" /\ ~ is_relogin' => bSelfAdd',
         CurrentShown'
  PROVE  Inv'
<1>1. Told' /\ GoneKnown'
  BY ReceiveKeeps DEF Inv
<1>2. Typed'
  BY HeadFacts DEF Typed
<1>3. \A i \in 1 .. Len(sent)' : Sound(sent[i])' /\ (sent'[i].type = "sync" => i = 1)
  BY HeadFacts DEF Sound
<1>4. where'[Self] # Nowhere /\ line' # "down"
  BY HeadFacts DEF server, Connected
<1>5. Order'
  BY <1>3, <1>4 DEF Order
<1> QED BY <1>1, <1>2, <1>5 DEF Inv

\* A name is a user's or a channel's, and the copy keeps them apart.
LEMMA CopyParts ==
  ASSUME TypeOK
  PROVE  /\ DOMAIN people \subseteq User /\ channels \subseteq Channel
         /\ people \in PeopleMap
         /\ User \cap Channel = {}
         /\ \A u \in DOMAIN people : people[u] \in Place
  <1>1. people \in PeopleMap /\ channels \subseteq Channel
    BY DEF TypeOK, PeopleMap
  <1> QED BY <1>1, PeopleMapElim, MemberAssumption

\* currect_channel follows the user where the copy shows him.
LEMMA FollowFacts ==
  ASSUME TypeOK, NEW b \in BOOLEAN, Follow(b), people' \in PeopleMap,
         b => Self \in DOMAIN people'
  PROVE  /\ currect_channel' \in Place \cup {Nowhere}
         /\ b => currect_channel' = people'[Self]
         /\ ~ b => currect_channel' = currect_channel
<1>1. \A u \in DOMAIN people' : people'[u] \in Place
  BY PeopleMapElim
<1> QED BY <1>1 DEF Follow, TypeOK

LEMMA MemberChangesInv ==
  ASSUME Inv, OnMemberChanges
  PROVE  Inv'
<1> DEFINE m == Head(sent)
<1>1. /\ sent # << >> /\ m.type = "push" /\ sent' = Tail(sent)
      /\ people' = Changed(m, people) /\ channels' = channels \ m.folders
      /\ Follow(Moves \/ (Arrives /\ bSelfAdd)) /\ bSelfAdd' = (bSelfAdd \/ Arrives)
      /\ UNCHANGED <<server, version, line, asked, is_relogin, synced, unseen>>
  BY DEF OnMemberChanges, Receive
<1>2. m \in Push /\ Self \notin m.removes /\ Connected
  BY <1>1, HeadFacts DEF Message, Whole, Sound
<1> HIDE DEF m
<1>3. /\ people \in PeopleMap /\ DOMAIN people \subseteq User /\ channels \subseteq Channel
      /\ User \cap Channel = {} /\ TypeOK
  BY CopyParts DEF Inv, Typed
<1>4. /\ people' \in PeopleMap
      /\ DOMAIN people' = (DOMAIN m.adds \cup DOMAIN people) \ m.removes
      /\ \A u \in DOMAIN people' :
           people'[u] = IF u \in DOMAIN m.changes THEN m.changes[u]
                        ELSE IF u \in DOMAIN m.adds THEN m.adds[u] ELSE people[u]
  <2>1. Outcome(m, people, Changed(m, people))
    BY <1>2, <1>3, ChangedFacts
  <2>2. Outcome(m, people, people')
    BY <1>1, <2>1
  <2> QED BY <2>2 DEF Outcome
<1>5. /\ DOMAIN m.adds \subseteq User /\ m.removes \subseteq User /\ m.folders \subseteq Channel
  BY <1>2, PeopleMapElim DEF Push
<1>6. \A x \in Thing : /\ About(m, x) = "here" => InCopy(x)'
                       /\ About(m, x) = "gone" => ~ InCopy(x)'
                       /\ About(m, x) = "none" => (InCopy(x)' <=> InCopy(x))
  BY <1>1, <1>3, <1>4, <1>5 DEF About, InCopy, Thing
<1>7. \A u \in Present : u \in DOMAIN people' =>
        \/ people'[u] = where[u]
        \/ AboutPlace(m, u, where[u]) = "wrong"
        \/ /\ AboutPlace(m, u, where[u]) = "none"
           /\ u \in DOMAIN people /\ people'[u] = people[u]
  BY <1>1, <1>4 DEF AboutPlace, Verdict
<1>8. Obeys(m)
  BY <1>1, <1>6, <1>7 DEF Obeys
<1>9. Self \in DOMAIN people => Self \in DOMAIN people'
  BY <1>2, <1>4
<1>10. Moves \/ (Arrives /\ bSelfAdd) => Self \in DOMAIN people'
  BY <1>9 DEF Moves, Arrives
<1>11. /\ currect_channel' \in Place \cup {Nowhere}
       /\ Moves \/ (Arrives /\ bSelfAdd) => currect_channel' = people'[Self]
       /\ ~ (Moves \/ (Arrives /\ bSelfAdd)) => currect_channel' = currect_channel
  <2>1. (Moves \/ (Arrives /\ bSelfAdd)) \in BOOLEAN
    BY <1>3 DEF Moves, Arrives, TypeOK
  <2> QED BY <1>1, <1>3, <1>4, <1>10, <2>1, FollowFacts
<1>12. TypeOK'
  <2>1. bSelfAdd' \in BOOLEAN
    BY <1>1, <1>3 DEF Arrives, TypeOK
  <2> QED BY <1>1, <1>3, <1>4, <1>11, <2>1 DEF TypeOK, PeopleMap, server
<1>13. CurrentShown'
  <2> SUFFICES ASSUME synced, Self \in DOMAIN people', ~ (version = "old" /\ is_relogin)
               PROVE  currect_channel' = people'[Self]
    BY <1>1 DEF CurrentShown
  <2>1. CASE Self \in DOMAIN people
    BY <1>11, <2>1 DEF Moves, Arrives, Inv, CurrentShown
  <2>2. CASE Self \notin DOMAIN people
    <3>1. version = "old" /\ bSelfAdd
      BY <1>3, <2>2 DEF Inv, Order, TypeOK
    <3> QED BY <1>11, <2>2, <3>1 DEF Arrives
  <2> QED BY <2>1, <2>2
<1>14. /\ Connected' /\ (asked' => version = "new")
       /\ synced' /\ version = "new" => Self \in DOMAIN people'
       /\ synced' /\ version = "old" /\ ~ is_relogin' => bSelfAdd'
  BY <1>1, <1>2, <1>9 DEF Connected, Inv, Order
<1> QED BY <1>1, <1>8, <1>12, <1>13, <1>14, ReceiveInv DEF m

LEMMA ChangeFolderInv ==
  ASSUME Inv, OnChangeFolder
  PROVE  Inv'
<1> DEFINE m == Head(sent)
<1>1. /\ sent # << >> /\ m.type = "changefolder" /\ sent' = Tail(sent)
      /\ people' = IF Self \in DOMAIN people THEN [people EXCEPT ![Self] = m.to]
                   ELSE people
      /\ Follow(Moves)
      /\ UNCHANGED <<server, version, line, asked, channels, bSelfAdd, is_relogin,
                     synced, unseen>>
  BY DEF OnChangeFolder, Receive
<1>2. m.to \in Place /\ Connected
  BY <1>1, HeadFacts DEF Message, Push, Whole
<1> HIDE DEF m
<1>3. people \in PeopleMap /\ DOMAIN people \subseteq User /\ TypeOK
  BY CopyParts DEF Inv, Typed
<1>4. /\ DOMAIN people' = DOMAIN people
      /\ \A u \in DOMAIN people : people'[u] = IF u = Self THEN m.to ELSE people[u]
      /\ people' \in PeopleMap
  <2>1. /\ DOMAIN people' = DOMAIN people
        /\ \A u \in DOMAIN people : people'[u] = IF u = Self THEN m.to ELSE people[u]
    BY <1>1
  <2>2. people' \in [DOMAIN people -> Place]
    BY <1>1, <1>2, <1>3, PeopleMapElim
  <2> QED BY <1>3, <2>1, <2>2, PeopleMapIntro
<1>5. Obeys(m)
  BY <1>1, <1>4 DEF Obeys, About, AboutPlace, Verdict, InCopy
<1>6. /\ currect_channel' \in Place \cup {Nowhere}
      /\ Moves => currect_channel' = people'[Self]
      /\ ~ Moves => currect_channel' = currect_channel
  <2>1. Moves \in BOOLEAN /\ (Moves => Self \in DOMAIN people')
    BY <1>4 DEF Moves
  <2> QED BY <1>1, <1>3, <1>4, <2>1, FollowFacts
<1>7. TypeOK'
  BY <1>1, <1>3, <1>4, <1>6 DEF TypeOK, PeopleMap, server
<1>8. CurrentShown'
  BY <1>1, <1>4, <1>6 DEF CurrentShown, Moves, Inv
<1>9. /\ Connected' /\ (asked' => version = "new")
      /\ synced' /\ version = "new" => Self \in DOMAIN people'
      /\ synced' /\ version = "old" /\ ~ is_relogin' => bSelfAdd'
  BY <1>1, <1>2, <1>4 DEF Connected, Inv, Order
<1> QED BY <1>1, <1>5, <1>7, <1>8, <1>9, ReceiveInv DEF m

LEMMA ChannelAddInv ==
  ASSUME Inv, OnChannelAdd
  PROVE  Inv'
<1> DEFINE m == Head(sent)
<1>1. /\ sent # << >> /\ m.type = "channel" /\ sent' = Tail(sent)
      /\ channels' = channels \cup {m.sid}
      /\ UNCHANGED <<server, version, line, asked, people, bSelfAdd, is_relogin,
                     currect_channel, synced, unseen>>
  BY DEF OnChannelAdd, Receive
<1>2. m.sid \in Channel /\ Connected
  BY <1>1, HeadFacts DEF Message, Push, Whole
<1> HIDE DEF m
<1>3. Obeys(m)
  BY <1>1 DEF Obeys, About, AboutPlace, InCopy
<1>4. TypeOK'
  BY <1>1, <1>2 DEF Inv, Typed, TypeOK, server
<1>5. CurrentShown'
  BY <1>1 DEF CurrentShown, Inv
<1>6. /\ Connected' /\ (asked' => version = "new")
      /\ synced' /\ version = "new" => Self \in DOMAIN people'
      /\ synced' /\ version = "old" /\ ~ is_relogin' => bSelfAdd'
  BY <1>1, <1>2 DEF Connected, Inv, Order
<1> QED BY <1>1, <1>3, <1>4, <1>5, <1>6, ReceiveInv DEF m

LEMMA JoinSessionResInv ==
  ASSUME Inv, OnJoinSessionRes
  PROVE  Inv'
<1> DEFINE m == Head(sent)
<1>1. /\ sent # << >> /\ m.type = "joinres" /\ sent' = Tail(sent)
      /\ line' = "up" /\ asked' = TRUE
      /\ UNCHANGED <<server, version, copy, synced, unseen>>
  BY DEF OnJoinSessionRes, Receive
<1>2. version = "new"
  BY <1>1, HeadFacts DEF Sound
<1> HIDE DEF m
<1>3. Obeys(m)
  BY <1>1 DEF Obeys, About, AboutPlace, InCopy, copy
<1>4. TypeOK'
  BY <1>1 DEF Inv, Typed, TypeOK, server, copy
<1>5. CurrentShown'
  BY <1>1 DEF CurrentShown, Inv, copy
<1>6. /\ Connected' /\ (asked' => version = "new")
      /\ synced' /\ version = "new" => Self \in DOMAIN people'
      /\ synced' /\ version = "old" /\ ~ is_relogin' => bSelfAdd'
  BY <1>1, <1>2 DEF Connected, Inv, Order, copy
<1> QED BY <1>1, <1>3, <1>4, <1>5, <1>6, ReceiveInv DEF m

LEMMA SessionMainInv ==
  ASSUME Inv, OnSessionMain
  PROVE  Inv'
<1> DEFINE m == Head(sent)
<1>1. /\ sent # << >> /\ m.type = "main" /\ sent' = Tail(sent)
      /\ people' = Over(m.people, people) /\ channels' = channels \cup m.rooms
      /\ Follow(Self \in DOMAIN people') /\ synced' = TRUE
      /\ UNCHANGED <<server, version, line, asked, bSelfAdd, is_relogin, unseen>>
  BY DEF OnSessionMain, Receive
<1>2. m \in Whole /\ Self \in DOMAIN m.people /\ version = "new" /\ Connected
  BY <1>1, HeadFacts DEF Message, Push, Sound
<1> HIDE DEF m
<1>3. /\ people \in PeopleMap /\ DOMAIN people \subseteq User /\ channels \subseteq Channel
      /\ User \cap Channel = {} /\ TypeOK
  BY CopyParts DEF Inv, Typed
<1>4. /\ people' \in PeopleMap /\ DOMAIN people' = DOMAIN m.people \cup DOMAIN people
      /\ \A u \in DOMAIN m.people : people'[u] = m.people[u]
      /\ \A u \in DOMAIN people \ DOMAIN m.people : people'[u] = people[u]
      /\ m.rooms \subseteq Channel
  <2> DEFINE all == m.people
  <2>1. all \in PeopleMap /\ m.rooms \subseteq Channel /\ people' = Over(all, people)
    BY <1>1, <1>2 DEF Whole
  <2> HIDE DEF all
  <2>2. /\ Over(all, people) \in PeopleMap
        /\ DOMAIN Over(all, people) = DOMAIN all \cup DOMAIN people
        /\ \A u \in DOMAIN all : Over(all, people)[u] = all[u]
        /\ \A u \in DOMAIN people \ DOMAIN all : Over(all, people)[u] = people[u]
    BY <1>3, <2>1, OverType
  <2> QED BY <2>1, <2>2 DEF all
<1>5. Obeys(m)
  BY <1>1, <1>4 DEF Obeys, About, AboutPlace, Verdict, InCopy
<1>6. currect_channel' = people'[Self] /\ currect_channel' \in Place \cup {Nowhere}
  <2>1. Self \in DOMAIN people' /\ (Self \in DOMAIN people') \in BOOLEAN
    BY <1>2, <1>4
  <2> QED BY <1>1, <1>3, <1>4, <2>1, FollowFacts
<1>7. TypeOK'
  BY <1>1, <1>3, <1>4, <1>6 DEF TypeOK, PeopleMap, server
<1>8. CurrentShown'
  BY <1>6 DEF CurrentShown
<1>9. /\ Connected' /\ (asked' => version = "new")
      /\ synced' /\ version = "new" => Self \in DOMAIN people'
      /\ synced' /\ version = "old" /\ ~ is_relogin' => bSelfAdd'
  BY <1>1, <1>2, <1>4 DEF Connected
<1> QED BY <1>1, <1>5, <1>7, <1>8, <1>9, ReceiveInv DEF m

LEMMA SyncInv ==
  ASSUME Inv, OnSync
  PROVE  Inv'
<1> DEFINE m == Head(sent)
<1>1. /\ sent # << >> /\ m.type = "sync" /\ sent' = Tail(sent)
      /\ people' = m.people /\ channels' = m.rooms
      /\ bSelfAdd' = ~ is_relogin
      /\ Follow(Self \in DOMAIN people' /\ bSelfAdd')
      /\ synced' = TRUE /\ unseen' = {}
      /\ UNCHANGED <<server, version, line, asked, is_relogin>>
  BY DEF OnSync, Receive
<1>2. m \in Whole /\ version = "old" /\ Connected
  BY <1>1, HeadFacts DEF Message, Push, Sound
<1> HIDE DEF m
<1>3. people' \in PeopleMap /\ m.rooms \subseteq Channel /\ TypeOK
  BY <1>1, <1>2 DEF Whole, Inv, Typed
<1>4. Obeys(m)
  BY <1>1 DEF Obeys, About, AboutPlace, Verdict, InCopy
<1>5. /\ currect_channel' \in Place \cup {Nowhere}
      /\ Self \in DOMAIN people' /\ bSelfAdd' => currect_channel' = people'[Self]
  <2>1. (Self \in DOMAIN people' /\ bSelfAdd') \in BOOLEAN
    OBVIOUS
  <2> QED BY <1>1, <1>3, <2>1, FollowFacts
<1>6. TypeOK'
  BY <1>1, <1>3, <1>5 DEF TypeOK, PeopleMap, server
<1>7. CurrentShown'
  BY <1>1, <1>2, <1>5 DEF CurrentShown
<1>8. /\ Connected' /\ (asked' => version = "new")
      /\ synced' /\ version = "new" => Self \in DOMAIN people'
      /\ synced' /\ version = "old" /\ ~ is_relogin' => bSelfAdd'
  BY <1>1, <1>2 DEF Connected, Inv, Order
<1> QED BY <1>1, <1>4, <1>6, <1>7, <1>8, ReceiveInv DEF m

-----------------------------------------------------------------------------
(* The invariant, and what it implies.                                     *)

LEMMA InitInv == Init => Inv
<1> SUFFICES ASSUME Init PROVE Inv
  OBVIOUS
<1>1. /\ sent = << >> /\ Len(sent) = 0 /\ line = "down" /\ asked = FALSE
      /\ synced = FALSE /\ unseen = {} /\ channels = {} /\ DOMAIN people = {}
      /\ bSelfAdd = FALSE /\ is_relogin = FALSE
  BY DEF Init
<1>2. people \in PeopleMap
  <2>1. people \in [{} -> Place]
    BY DEF Init
  <2> QED BY <2>1, PeopleMapIntro
<1>3. Typed
  <2>1. where \in [User -> Place \cup {Nowhere}] /\ rooms \subseteq Channel
        /\ currect_channel \in Place \cup {Nowhere} /\ version \in {"old", "new"}
    BY DEF Init, Place
  <2>2. sent \in Seq(Message)
    BY <1>1
  <2> QED BY <1>1, <1>2, <2>1, <2>2 DEF Typed, TypeOK, PeopleMap
<1>4. Order /\ CurrentShown
  BY <1>1 DEF Order, Connected, CurrentShown
<1>5. Told
  BY <1>1 DEF Told, Bases
<1>6. GoneKnown
  <2>1. \A x : Pushed(x)[0] = "gone"
    BY <1>1 DEF Pushed, News, InCopy
  <2> QED BY <1>1, <2>1 DEF GoneKnown, Said
<1> QED BY <1>3, <1>4, <1>5, <1>6 DEF Inv

LEMMA NextInv == Inv /\ [Next]_vars => Inv'
<1> SUFFICES ASSUME Inv, [Next]_vars PROVE Inv'
  OBVIOUS
<1>1. CASE Server
  BY <1>1, ServerInv
<1>2. CASE Handle
  BY <1>2, MemberChangesInv, ChangeFolderInv, ChannelAddInv, JoinSessionResInv,
     SessionMainInv, SyncInv DEF Handle
<1>3. CASE Login
  BY <1>3, LoginInv
<1>4. CASE Lose
  BY <1>4, LoseInv
<1>5. CASE UNCHANGED vars
  <2>1. UNCHANGED <<where, rooms, version, line, sent, asked, people, channels, bSelfAdd,
                    is_relogin, currect_channel, synced, unseen>>
    BY <1>5 DEF vars, server, net, copy
  <2>2. /\ Bases' = Bases /\ Present' = Present
        /\ \A x : /\ InServer(x)' <=> InServer(x)
                  /\ News(x)' = News(x) /\ Pushed(x)' = Pushed(x)
                  /\ Places(x)' = Places(x)
    BY <2>1 DEF Bases, News, Pushed, Places, InCopy, InServer, Present
  <2>3. Told' /\ GoneKnown'
    BY <2>1, <2>2 DEF Inv, Told, GoneKnown
  <2>4. Order' /\ CurrentShown'
    BY <2>1 DEF Inv, Order, Connected, Sound, CurrentShown
  <2>5. Typed'
    BY <2>1 DEF Inv, Typed, TypeOK
  <2> QED BY <2>3, <2>4, <2>5 DEF Inv
<1> QED BY <1>1, <1>2, <1>3, <1>4, <1>5 DEF Next

LEMMA Invariance == Spec => []Inv
<1> QED BY InitInv, NextInv, PTL DEF Spec

\* When nothing is under way, the last word is the copy's.
LEMMA QuietShown == Inv => AllShown
<1> SUFFICES ASSUME Inv, synced, sent = << >>
             PROVE  /\ \A u \in Present : u \in DOMAIN people /\ people[u] = where[u]
                    /\ rooms \subseteq channels
  BY DEF AllShown
<1>1. Len(sent) = 0 /\ 0 \in Bases
  BY DEF Bases
<1>2. ASSUME NEW x \in Thing, InServer(x)
      PROVE  InCopy(x)
  <2>1. Said(News(x), 0, 0, "here")
    BY <1>1, <1>2 DEF Inv, Told
  <2> QED BY <1>1, <2>1 DEF Said, News
<1>3. /\ DOMAIN people \subseteq User /\ channels \subseteq Channel
      /\ User \cap Channel = {} /\ rooms \subseteq Channel
  BY CopyParts DEF Inv, Typed, TypeOK
<1>4. ASSUME NEW u \in Present
      PROVE  u \in DOMAIN people /\ people[u] = where[u]
  <2>1. u \in User /\ u \in DOMAIN people
    BY <1>2, <1>3 DEF Present, InServer, InCopy, Thing
  <2>2. Said(Places(u), 0, 0, "right")
    BY <1>1 DEF Inv, Told
  <2>3. Verdict(u \in DOMAIN people => people[u] = where[u]) = "right"
    BY <1>1, <2>2 DEF Said, Places
  <2> QED BY <2>1, <2>3 DEF Verdict
<1>5. rooms \subseteq channels
  BY <1>2, <1>3 DEF InServer, InCopy, Thing
<1> QED BY <1>4, <1>5

LEMMA QuietGhosts == Inv => GhostsUnseen
<1> SUFFICES ASSUME Inv, sent = << >>,
                    NEW x \in (DOMAIN people \ Present) \cup (channels \ rooms)
             PROVE  x \in unseen
  BY DEF GhostsUnseen
<1>1. /\ DOMAIN people \subseteq User /\ channels \subseteq Channel
      /\ User \cap Channel = {} /\ rooms \subseteq Channel
  BY CopyParts DEF Inv, Typed, TypeOK
<1>2. x \in Thing /\ InCopy(x) /\ ~ InServer(x)
  BY <1>1 DEF Thing, InCopy, InServer, Present
<1>3. ASSUME x \notin unseen PROVE FALSE
  <2>1. Len(sent) = 0
    OBVIOUS
  <2>2. Said(Pushed(x), 0, 0, "gone")
    BY <1>2, <1>3, <2>1 DEF Inv, GoneKnown
  <2>3. Pushed(x)[0] = "gone"
    BY <2>2 DEF Said
  <2> QED BY <1>2, <2>1, <2>3 DEF Pushed, News
<1> QED BY <1>3

-----------------------------------------------------------------------------
\* Every variable has its type, in whatever order messages come and logins follow
\* each other.
THEOREM MemberTypes == Spec => []TypeOK
<1>1. Inv => TypeOK
  BY DEF Inv, Typed
<1> QED BY <1>1, Invariance, PTL

\* A copy that was told whole shows everybody where he is, and every channel, once
\* nothing is under way (RealMemberChanges, OnGetSessionMainRes, _onSync).
THEOREM EverybodyShown == Spec => []AllShown
<1> QED BY QuietShown, Invariance, PTL

\* Whoever is shown and gone has left while nobody told the client.
THEOREM GhostsLeftUnseen == Spec => []GhostsUnseen
<1> QED BY QuietGhosts, Invariance, PTL

\* The client takes the voice and texts of the channel it shows its user in, but for
\* logins again in the old protocol (CurrectChannelChanged, endSync).
THEOREM ShownWhereCurrent == Spec => []CurrentShown
<1>1. Inv => CurrentShown
  BY DEF Inv
<1> QED BY <1>1, Invariance, PTL

-----------------------------------------------------------------------------
(* What of LoginSyncs needs no fairness: no login is answered without its  *)
(* telling the copy whole being on the way, in whatever order pushes, the  *)
(* answer and the question cross.                                          *)
Tells(m) == m.type \in {"sync", "main"}

Coming == /\ line = "joining" => \/ sent = << >>
                                 \/ Len(sent) = 1 /\ sent[1].type = "joinres"
          /\ line = "up" /\ ~ synced => asked \/ \E i \in 1 .. Len(sent) : Tells(sent[i])

\* A message joins the others, and nothing else changes.
LEMMA AppendComing ==
  ASSUME Coming, sent \in Seq(Message), NEW m \in Message, sent' = Append(sent, m),
         line # "joining", line' = line, synced' = synced,
         asked => asked' \/ Tells(m)
  PROVE  Coming'
<1>1. /\ Len(sent') = Len(sent) + 1 /\ Len(sent) \in Nat /\ sent'[Len(sent) + 1] = m
      /\ \A i \in 1 .. Len(sent) : sent'[i] = sent[i]
  BY AppendFacts
<1>2. ASSUME line' = "up", ~ synced', ~ asked'
      PROVE  \E i \in 1 .. Len(sent') : Tells(sent'[i])
  <2>1. CASE asked
    BY <1>1, <1>2, <2>1
  <2>2. CASE ~ asked
    BY <1>1, <1>2, <2>2 DEF Coming
  <2> QED BY <2>1, <2>2
<1> QED BY <1>2 DEF Coming, Tells

\* A message that does not tell the copy whole is read.
LEMMA TailComing ==
  ASSUME Coming, sent \in Seq(Message), sent # << >>, sent' = Tail(sent),
         ~ Tells(Head(sent)), Head(sent).type # "joinres",
         UNCHANGED <<line, synced, asked>>
  PROVE  Coming'
<1>1. /\ Len(sent') = Len(sent) - 1 /\ Len(sent) \in Nat \ {0}
      /\ \A i \in 1 .. Len(sent') : sent'[i] = sent[i + 1]
      /\ Head(sent) = sent[1]
  OBVIOUS
<1>2. line # "joining"
  BY <1>1 DEF Coming
<1>3. ASSUME line' = "up", ~ synced', ~ asked'
      PROVE  \E i \in 1 .. Len(sent') : Tells(sent'[i])
  <2>1. PICK i \in 1 .. Len(sent) : Tells(sent[i])
    BY <1>3 DEF Coming
  <2>2. i - 1 \in 1 .. Len(sent') /\ sent'[i - 1] = sent[i]
    BY <1>1, <2>1
  <2> QED BY <2>1, <2>2
<1> QED BY <1>2, <1>3 DEF Coming, Tells

LEMMA ComingStep ==
  ASSUME Inv, Coming, [Next]_vars
  PROVE  Coming'
<1>1. sent \in Seq(Message)
  BY DEF Inv, Typed
<1>2. ASSUME NEW m \in Message, NEW here, NEW gone, Tell(m, here, gone) PROVE Coming'
  <2>1. CASE Connected
    BY <1>1, <1>2, <2>1, AppendComing DEF Tell, Connected
  <2>2. CASE ~ Connected
    BY <1>2, <2>2 DEF Tell, Connected, Coming, copy
  <2> QED BY <2>1, <2>2
<1>3. CASE Server
  <2>1. ASSUME NEW u \in User, Go(u) PROVE Coming'
    <3>1. [NoPush EXCEPT !.removes = {u}] \in Message
      BY NoPushFacts DEF Message, Push
    <3> QED BY <1>2, <2>1, <3>1 DEF Go
  <2>2. ASSUME NEW u \in User, NEW c \in rooms \cup {Hall}, Come(u, c) PROVE Coming'
    <3>1. c \in Place
      BY DEF Inv, Typed, TypeOK, Place
    <3>2. Added(u, c) \in Message
      BY <3>1, AddedFacts DEF Message
    <3> QED BY <1>2, <2>2, <3>2 DEF Come
  <2>3. ASSUME NEW u \in User, NEW c \in rooms \cup {Hall}, Walk(u, c) PROVE Coming'
    <3>1. c \in Place
      BY DEF Inv, Typed, TypeOK, Place
    <3>2. [v \in {u} |-> c] \in PeopleMap
      BY <3>1, PeopleMapIntro
    <3>3. [NoPush EXCEPT !.changes = [v \in {u} |-> c]] \in Message
      BY <3>2, NoPushFacts DEF Message, Push
    <3>4. [type |-> "changefolder", to |-> c] \in Message
      BY <3>1 DEF Message
    <3> QED BY <1>2, <2>3, <3>3, <3>4 DEF Walk
  <2>4. ASSUME NEW c \in Channel, OpenRoom(c) PROVE Coming'
    <3>1. [type |-> "channel", sid |-> c] \in Message
      BY DEF Message, Thing
    <3> QED BY <1>2, <2>4, <3>1 DEF OpenRoom
  <2>5. ASSUME NEW c \in Channel, CloseRoom(c) PROVE Coming'
    <3> DEFINE there == {v \in User : where[v] = c}
               moves == [u \in there |-> Hall]
    <3>1. there \in SUBSET User /\ moves \in [there -> Place]
      BY DEF Place
    <3>2. moves \in PeopleMap
      BY <3>1, PeopleMapIntro
    <3>3. [NoPush EXCEPT !.folders = {c}, !.changes = moves] \in Message
      <4> HIDE DEF moves
      <4> QED BY <3>2, NoPushFacts DEF Message, Push
    <3> QED BY <1>2, <2>5, <3>3 DEF CloseRoom
  <2>6. CASE ServerJoin
    <3>1. CASE version = "old"
      <4>1. line' = "up" /\ sent' \in All("sync", where')
        BY <2>6, <3>1 DEF ServerJoin
      <4>2. 1 \in 1 .. Len(sent') /\ sent'[1].type = "sync"
        BY <4>1 DEF All
      <4> QED BY <4>1, <4>2 DEF Coming, Tells
    <3>2. CASE version # "old"
      BY <2>6, <3>2 DEF ServerJoin, Coming
    <3> QED BY <3>1, <3>2
  <2>7. CASE ServerMain
    <3> DEFINE m == WholeOf("main", where, Present, rooms)
    <3>1. sent' = Append(sent, m) /\ line # "joining" /\ line' = line /\ synced' = synced
      BY <2>7 DEF ServerMain, WholeOf, Inv, Order, Connected
    <3>2. m.type = "main" /\ m \in Message
      <4>1. /\ where \in [User -> Place \cup {Nowhere}] /\ rooms \in SUBSET Channel
            /\ Present \in SUBSET User /\ \A u \in Present : where[u] # Nowhere
        BY DEF Inv, Typed, TypeOK, Present
      <4>2. Restrict(where, Present) \in PeopleMap
        BY <4>1, RestrictPeople
      <4> QED BY <4>1, <4>2 DEF WholeOf, Message, Whole
    <3> HIDE DEF m
    <3> QED BY <1>1, <3>1, <3>2, AppendComing DEF Tells
  <2> QED BY <1>3, <2>1, <2>2, <2>3, <2>4, <2>5, <2>6, <2>7 DEF Server
<1>4. CASE OnMemberChanges \/ OnChangeFolder \/ OnChannelAdd
  BY <1>1, <1>4, TailComing
     DEF OnMemberChanges, OnChangeFolder, OnChannelAdd, Receive, Tells
<1>5. CASE OnJoinSessionRes \/ OnSessionMain \/ OnSync
  <2>1. CASE OnJoinSessionRes
    BY <2>1 DEF OnJoinSessionRes, Coming
  <2>2. ASSUME OnSessionMain \/ OnSync PROVE line' # "joining" /\ synced'
    <3>1. sent[1].type # "joinres" /\ sent # << >> /\ line' = line /\ synced'
      BY <1>1, <2>2 DEF OnSessionMain, OnSync, Receive
    <3> QED BY <3>1 DEF Coming
  <2> QED BY <1>5, <2>1, <2>2 DEF Coming
<1>6. CASE Login \/ Lose
  BY <1>6 DEF Login, Lose, Inv, Order, Coming
<1>7. CASE UNCHANGED vars
  BY <1>7 DEF vars, net, Coming
<1> QED BY <1>3, <1>4, <1>5, <1>6, <1>7 DEF Next, Handle

\* For every set of users and channels: a client that has logged in and has not been
\* told all there is has the question, or the answer, on its way; one that is still
\* joining is answered next.
THEOREM TellingComes == Spec => []Coming
<1>1. Init => Coming
  BY DEF Init, Coming
<1>2. Inv /\ Coming /\ [Next]_vars => Coming'
  BY ComingStep
<1> QED BY <1>1, <1>2, Invariance, PTL DEF Spec
=============================================================================
