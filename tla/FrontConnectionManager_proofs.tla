------------------- MODULE FrontConnectionManager_proofs --------------------
(***************************************************************************)
(* Proofs about the connection pool, for every set of fronts and every     *)
(* limit.  The invariant is stated on a pool record p, so that each helper *)
(* of the class has a lemma of its own, and a handler's step is proved by  *)
(* the lemmas of the helpers it calls, in the order of the calls.          *)
(***************************************************************************)
EXTENDS FrontConnectionManager, FiniteSetTheorems, SequenceTheorems, TLAPS

PoolType == [conns   : Seq(Addr),
             tcp     : [Addr -> TcpStatus],
             udp     : [Addr -> UdpStatus],
             msg     : [Addr -> Message],
             told    : [Addr -> Message],
             waiting : SUBSET Addr,
             asked   : SUBSET Addr,
             old     : SUBSET Addr,
             version : BOOLEAN,
             cool    : BOOLEAN]

\* The list holds each connection that exists, once, and no others.
Listed(p) == /\ Len(p.conns) <= PoolLimit
             /\ \A i, j \in 1 .. Len(p.conns) : p.conns[i] = p.conns[j] => i = j
             /\ \A i \in 1 .. Len(p.conns) : p.tcp[p.conns[i]] # "NONE"
             /\ \A a \in Addr : p.tcp[a] # "NONE" =>
                  \E i \in 1 .. Len(p.conns) : p.conns[i] = a
             /\ \A a \in p.asked : p.tcp[a] # "NONE"

Shape(p) == p \in PoolType /\ Listed(p)

\* Who may hold a subscription before SetSyncMessage runs.
Subscribed(p) ==
  /\ \A a \in Addr : p.msg[a] # "none" => p.tcp[a] = "TCP_LOGIN"
  /\ HeadReady(p) /\ p.msg[p.conns[1]] = "ALL" =>
       \A a \in Addr : p.msg[a] = "ALL" => a = p.conns[1]
  /\ ~ HeadReady(p) =>
       \A a, b \in Addr : p.msg[a] = "ALL" /\ p.tcp[b] = "TCP_LOGIN" => a = b

\* What SetSyncMessage and SwapFirst leave of the head, and what _onSync leaves of
\* that: the head has joined, or those that have joined have no subscription.
HeadOK(p) == LoggedIn(p) # {} => HeadReady(p)

HeadKnown(p) == (\E a \in LoggedIn(p) : p.msg[a] # "none") => HeadReady(p)

MainOK(p) ==
  \A a \in Addr : /\ p.msg[a] = "ALL" => HeadReady(p) /\ a = p.conns[1]
                  /\ p.msg[a] # "none" => p.tcp[a] = "TCP_LOGIN"

\* What was told agrees with what is believed, except perhaps on X, and of the
\* main connection, which may have been told less than it is believed to know.
ToldOK(p, X) == \A a \in Addr \ X : p.told[a] = p.msg[a] \/ p.msg[a] = "ALL"

\* Belief and word part for nobody on the way from p to q.
SameWord(p, q) ==
  \A a \in Addr : \/ q.told[a] = q.msg[a]
                  \/ q.told[a] = p.told[a] /\ q.msg[a] = p.msg[a]

PoolInv(p) == Shape(p) /\ HeadKnown(p) /\ MainOK(p) /\ ToldOK(p, {})

-----------------------------------------------------------------------------
(* First picks the least element of a set of positions.                    *)
LEMMA FirstIsLeast ==
  ASSUME NEW S \in SUBSET Nat, S # {}
  PROVE  First(S) \in S /\ \A j \in S : First(S) <= j
<1> DEFINE T == {1 .. n : n \in S}
<1>1. \E n \in S : \A m \in S : n <= m
  <2>1. T \subseteq FiniteSubsetsOf(Nat) /\ T # {}
    <3>1. \A n \in Nat : 1 .. n \subseteq Nat /\ IsFiniteSet(1 .. n)
      BY FS_Interval
    <3> QED BY <3>1 DEF FiniteSubsetsOf
  <2>2. PICK X \in T : \A Y \in T : ~ (<<Y, X>> \in StrictSubsetOrdering(Nat))
    BY <2>1, FS_StrictSubsetOrderingWellFounded, WFMin
  <2>3. PICK n \in S : X = 1 .. n
    OBVIOUS
  <2>4. ASSUME NEW m \in S, m < n PROVE FALSE
    <3>1. 1 .. m \subseteq 1 .. n /\ n \in 1 .. n /\ n \notin 1 .. m
      BY <2>4
    <3>2. <<1 .. m, 1 .. n>> \in StrictSubsetOrdering(Nat)
      BY <3>1 DEF StrictSubsetOrdering
    <3> QED BY <2>2, <2>3, <3>2
  <2> QED BY <2>4
<1> QED BY <1>1 DEF First

(* SwapFirst permutes the list, and brings a joined connection to its head *)
(* whenever there is one.                                                  *)
LEMMA SwapFirstLemma ==
  ASSUME NEW p, Shape(p)
  PROVE  LET q == SwapFirst(p)
         IN  /\ Shape(q)
             /\ q.tcp = p.tcp /\ q.msg = p.msg /\ q.told = p.told
             /\ q.udp = p.udp /\ q.cool = p.cool
             /\ Len(q.conns) = Len(p.conns)
             /\ HeadOK(q)
<1>1. CASE Successors(p) = {}
  <2>1. SwapFirst(p) = p
    BY <1>1 DEF SwapFirst
  <2>2. HeadOK(p)
    BY <1>1 DEF HeadOK, Successors, LoggedIn, HeadReady, Shape, Listed, PoolType
  <2> QED BY <2>1, <2>2
<1>2. CASE Successors(p) # {}
  <2> DEFINE k == First(Successors(p))
             s == [p.conns EXCEPT ![1] = p.conns[k], ![k] = p.conns[1]]
             q == [p EXCEPT !.conns = s]
  <2>1. k \in 2 .. Len(p.conns) /\ p.tcp[p.conns[k]] = "TCP_LOGIN"
    <3>1. Successors(p) \in SUBSET Nat
      BY DEF Successors, Shape, PoolType
    <3>2. k \in Successors(p)
      BY <3>1, <1>2, FirstIsLeast
    <3> QED BY <3>2 DEF Successors
  <2>2. SwapFirst(p) = q
    BY <1>2 DEF SwapFirst
  <2>3. p.conns \in Seq(Addr) /\ Len(p.conns) \in Nat /\ p \in PoolType
    BY DEF Shape, PoolType
  <2> HIDE DEF k
  <2>4. s \in Seq(Addr) /\ Len(s) = Len(p.conns)
    BY <2>1, <2>3
  <2>5. q \in PoolType /\ q.conns = s /\ q.tcp = p.tcp /\ q.msg = p.msg
        /\ q.told = p.told /\ q.udp = p.udp /\ q.cool = p.cool /\ q.asked = p.asked
    BY <2>4, <2>3 DEF PoolType
  <2>6. \A i \in 1 .. Len(s) :
          s[i] = IF i = 1 THEN p.conns[k] ELSE IF i = k THEN p.conns[1] ELSE p.conns[i]
    BY <2>1, <2>3, <2>4
  <2>7. Listed(q)
    <3> HIDE DEF s, q
    <3>1. \A i, j \in 1 .. Len(s) : s[i] = s[j] => i = j
      BY <2>1, <2>3, <2>4, <2>6 DEF Shape, Listed
    <3>2. \A i \in 1 .. Len(s) : p.tcp[s[i]] # "NONE"
      BY <2>1, <2>3, <2>4, <2>6 DEF Shape, Listed
    <3>3. \A a \in Addr : p.tcp[a] # "NONE" => \E i \in 1 .. Len(s) : s[i] = a
      <4> SUFFICES ASSUME NEW a \in Addr, p.tcp[a] # "NONE"
                   PROVE  \E i \in 1 .. Len(s) : s[i] = a
        OBVIOUS
      <4>1. PICK i \in 1 .. Len(p.conns) : p.conns[i] = a
        BY DEF Shape, Listed
      <4>2. s[IF i = 1 THEN k ELSE IF i = k THEN 1 ELSE i] = a
        BY <4>1, <2>1, <2>3, <2>4, <2>6
      <4> QED BY <4>1, <4>2, <2>1, <2>3, <2>4
    <3> QED BY <3>1, <3>2, <3>3, <2>4, <2>5 DEF Shape, Listed
  <2>8. HeadReady(q)
    BY <2>1, <2>3, <2>4, <2>5, <2>6 DEF HeadReady
  <2> QED BY <2>2, <2>4, <2>5, <2>7, <2>8 DEF Shape, HeadOK
<1> QED BY <1>1, <1>2

LEMMA HeadStaysKnown ==
  ASSUME NEW p, HeadOK(p)
  PROVE  HeadKnown(p)
<1> QED BY DEF HeadOK, HeadKnown

LEMMA SameWordTwice ==
  ASSUME NEW p, NEW q, NEW r, SameWord(p, q), SameWord(q, r)
  PROVE  SameWord(p, r)
<1> QED BY DEF SameWord

(* A request for backups changes nothing but the set of open requests.     *)
LEMMA GetBackUpLemma ==
  ASSUME NEW p, Shape(p)
  PROVE  LET q == GetBackUpFronts(p)
         IN  /\ Shape(q) /\ q.conns = p.conns
             /\ q.tcp = p.tcp /\ q.msg = p.msg /\ q.told = p.told
             /\ q.udp = p.udp /\ q.cool = p.cool
<1>1. CASE ~ (p.version /\ HeadReady(p))
  BY <1>1 DEF GetBackUpFronts
<1>2. CASE p.version /\ HeadReady(p)
  <2> DEFINE q == [p EXCEPT !.asked = p.asked \cup {p.conns[1]}]
  <2>1. GetBackUpFronts(p) = q
    BY <1>2 DEF GetBackUpFronts
  <2>2. p \in PoolType /\ p.conns[1] \in Addr
    BY <1>2 DEF HeadReady, Shape, PoolType
  <2>3. /\ q \in PoolType /\ q.conns = p.conns
        /\ q.tcp = p.tcp /\ q.msg = p.msg /\ q.told = p.told
        /\ q.udp = p.udp /\ q.cool = p.cool /\ q.asked = p.asked \cup {p.conns[1]}
    BY <2>2 DEF PoolType
  <2> HIDE DEF q
  <2>4. Listed(q)
    BY <1>2, <2>3 DEF Listed, Shape, HeadReady
  <2> QED BY <2>1, <2>3, <2>4 DEF Shape
<1> QED BY <1>1, <1>2

(* SetSyncMessage restores the invariant from the states in which the code *)
(* calls it.                                                               *)
LEMMA SyncLemma ==
  ASSUME NEW p, NEW X, Shape(p), Subscribed(p), ToldOK(p, X)
  PROVE  LET q == SetSyncMessage(p)
         IN  /\ Shape(q) /\ HeadOK(q) /\ MainOK(q) /\ ToldOK(q, X)
             /\ SameWord(p, q)
             /\ q.tcp = p.tcp /\ q.udp = p.udp /\ q.cool = p.cool
             /\ Len(q.conns) = Len(p.conns)
<1> USE DEF HeadReady
<1>1. CASE p.conns = << >>
  <2>1. SetSyncMessage(p) = p
    BY <1>1 DEF SetSyncMessage
  <2>2. \A a \in Addr : p.tcp[a] = "NONE"
    BY <1>1 DEF Shape, Listed
  <2> QED BY <2>1, <2>2 DEF HeadOK, MainOK, LoggedIn, Subscribed, SameWord
<1>2. CASE p.conns # << >> /\ ~ HeadReady(p)
  <2> DEFINE q == SwapFirst(p)
  <2>1. SetSyncMessage(p) = q
    BY <1>2 DEF SetSyncMessage
  <2>2. /\ Shape(q) /\ HeadOK(q) /\ q.tcp = p.tcp /\ q.msg = p.msg
        /\ q.told = p.told /\ q.udp = p.udp /\ q.cool = p.cool
        /\ Len(q.conns) = Len(p.conns)
    BY SwapFirstLemma
  <2> HIDE DEF q
  <2>3. MainOK(q)
    <3> SUFFICES ASSUME NEW a \in Addr, q.msg[a] = "ALL"
                 PROVE  HeadReady(q) /\ a = q.conns[1]
      BY <2>2 DEF MainOK, Subscribed
    <3>1. p.tcp[a] = "TCP_LOGIN"
      BY <2>2 DEF Subscribed
    <3>2. HeadReady(q)
      BY <3>1, <2>2 DEF HeadOK, LoggedIn
    <3>3. q.conns[1] \in Addr
      BY <3>2, <2>2 DEF Shape, PoolType
    <3> QED BY <3>2, <3>3, <1>2, <2>2 DEF Subscribed
  <2>4. ToldOK(q, X) /\ SameWord(p, q)
    BY <2>2 DEF ToldOK, SameWord
  <2> QED BY <2>1, <2>2, <2>3, <2>4
<1>3. CASE HeadReady(p) /\ p.msg[p.conns[1]] # "ALL"
  <2> DEFINE q == Promote(p)
  <2>1. SetSyncMessage(p) = q
    BY <1>3 DEF SetSyncMessage
  <2>2. p \in PoolType /\ p.conns[1] \in Addr
    BY <1>3 DEF Shape, PoolType
  <2>3. /\ q.conns = p.conns /\ q.tcp = p.tcp /\ q.udp = p.udp /\ q.cool = p.cool
        /\ q.asked = p.asked
        /\ \A a \in Addr :
             /\ q.msg[a]  = IF a = p.conns[1] THEN "ALL"
                            ELSE IF p.tcp[a] = "TCP_LOGIN" THEN "SEQUENCE"
                            ELSE p.msg[a]
             /\ q.told[a] = IF a = p.conns[1] THEN "ALL"
                            ELSE IF p.tcp[a] = "TCP_LOGIN" /\ p.msg[a] # "SEQUENCE"
                                 THEN "SEQUENCE"
                            ELSE p.told[a]
    BY <2>2 DEF Promote, Slaves, LoggedIn, PoolType
  <2>4. q \in PoolType
    BY <2>2 DEF Promote, PoolType, Message
  <2> HIDE DEF q
  <2>5. Listed(q)
    BY <2>3 DEF Listed, Shape
  <2>6. HeadOK(q) /\ HeadReady(q)
    BY <2>3, <1>3 DEF HeadOK
  <2>7. MainOK(q)
    BY <2>2, <2>3, <2>6 DEF MainOK, Subscribed
  <2>8. ToldOK(q, X) /\ SameWord(p, q)
    BY <2>3 DEF ToldOK, SameWord
  <2> QED BY <2>1, <2>3, <2>4, <2>5, <2>6, <2>7, <2>8 DEF Shape
<1>4. CASE HeadReady(p) /\ p.msg[p.conns[1]] = "ALL"
  <2>1. SetSyncMessage(p) = p
    BY <1>4 DEF SetSyncMessage
  <2> QED BY <2>1, <1>4 DEF HeadOK, MainOK, Subscribed, SameWord
<1> QED BY <1>1, <1>2, <1>3, <1>4

(* Refresh is a possible request for backups, then SetSyncMessage.         *)
LEMMA RefreshLemma ==
  ASSUME NEW p, Shape(p), Subscribed(p), ToldOK(p, {})
  PROVE  LET q == Refresh(p)
         IN  /\ PoolInv(q) /\ HeadOK(q) /\ SameWord(p, q)
             /\ q.tcp = p.tcp /\ q.udp = p.udp /\ q.cool = p.cool
             /\ Len(q.conns) = Len(p.conns)
<1> DEFINE r == IF Len(p.conns) = 1 THEN GetBackUpFronts(p) ELSE p
<1>1. /\ Shape(r) /\ r.conns = p.conns /\ r.tcp = p.tcp /\ r.msg = p.msg
      /\ r.told = p.told /\ r.udp = p.udp /\ r.cool = p.cool
  BY GetBackUpLemma
<1>2. Refresh(p) = SetSyncMessage(r)
  BY DEF Refresh
<1> HIDE DEF r
<1>3. Subscribed(r) /\ ToldOK(r, {})
  BY <1>1 DEF Subscribed, ToldOK, HeadReady
<1> QED BY <1>1, <1>2, <1>3, SyncLemma DEF PoolInv, SameWord, HeadOK, HeadKnown

(* Taking a connection out of the list leaves a list with one hole closed, *)
(* in which nobody but the head can hold the full subscription.            *)
LEMMA EraseLemma ==
  ASSUME NEW p, PoolInv(p), NEW a \in Members(p)
  PROVE  LET q == EraseConnection(p, a)
         IN  /\ Shape(q) /\ Subscribed(q) /\ ToldOK(q, {}) /\ SameWord(p, q)
             /\ q.cool = p.cool /\ Len(q.conns) = Len(p.conns) - 1
             /\ q.tcp = [p.tcp EXCEPT ![a] = "NONE"]
             /\ q.msg = [p.msg EXCEPT ![a] = "none"]
             /\ q.udp = [p.udp EXCEPT ![a] = "INIT"]
<1> DEFINE k == Position(p, a)
           n == Len(p.conns)
           s == Without(p.conns, k)
           q == EraseConnection(p, a)
<1>1. /\ p \in PoolType /\ p.conns \in Seq(Addr) /\ n \in Nat
      /\ p.tcp \in [Addr -> TcpStatus] /\ p.msg \in [Addr -> Message]
      /\ p.told \in [Addr -> Message] /\ p.udp \in [Addr -> UdpStatus]
  BY DEF PoolInv, Shape, PoolType
<1>2. k \in 1 .. n /\ p.conns[k] = a /\ a \in Addr
  BY <1>1 DEF Members, Position
<1>3. /\ q.conns = s
      /\ q.tcp = [p.tcp EXCEPT ![a] = "NONE"]
      /\ q.msg = [p.msg EXCEPT ![a] = "none"]
      /\ q.told = [p.told EXCEPT ![a] = "none"]
      /\ q.udp = [p.udp EXCEPT ![a] = "INIT"]
      /\ q.cool = p.cool
      /\ q.asked = p.asked \ {a}
  BY <1>1 DEF EraseConnection, Forget, PoolType
<1> HIDE DEF k
<1>4. /\ s \in Seq(Addr) /\ Len(s) = n - 1
      /\ \A i \in 1 .. n - 1 : s[i] = IF i < k THEN p.conns[i] ELSE p.conns[i + 1]
  <2>1. \A i \in 1 .. n - 1 : i \in 1 .. n /\ i + 1 \in 1 .. n
    BY <1>1
  <2>2. \A i \in 1 .. n : p.conns[i] \in Addr
    BY <1>1
  <2>3. n - 1 \in Nat
    BY <1>1, <1>2
  <2> QED BY <1>2, <2>1, <2>2, <2>3 DEF Without
<1>5. q \in PoolType
  <2>1. s \in Seq(Addr)
    BY <1>4
  <2> QED BY <1>1, <1>2, <2>1
          DEF EraseConnection, Forget, PoolType, TcpStatus, UdpStatus, Message, k
<1> HIDE DEF q, s
<1>6. \A i \in 1 .. n : p.conns[i] = a => i = k
  BY <1>2 DEF PoolInv, Shape, Listed
<1>7. Listed(q)
  <2>1. \A i, j \in 1 .. n - 1 : s[i] = s[j] => i = j
    <3> SUFFICES ASSUME NEW i \in 1 .. n - 1, NEW j \in 1 .. n - 1, s[i] = s[j]
                 PROVE  i = j
      OBVIOUS
    <3> DEFINE mi == IF i < k THEN i ELSE i + 1
               mj == IF j < k THEN j ELSE j + 1
    <3>1. mi \in 1 .. n /\ s[i] = p.conns[mi]
      <4>1. mi \in 1 .. n
        BY <1>1, <1>2
      <4> QED BY <4>1, <1>4
    <3>2. mj \in 1 .. n /\ s[j] = p.conns[mj]
      <4>1. mj \in 1 .. n
        BY <1>1, <1>2
      <4> QED BY <4>1, <1>4
    <3> HIDE DEF mi, mj
    <3>3. mi = mj
      BY <3>1, <3>2 DEF PoolInv, Shape, Listed
    <3> QED BY <3>3, <1>1, <1>2 DEF mi, mj
  <2>2. \A i \in 1 .. n - 1 : s[i] # a /\ s[i] \in Addr /\ p.tcp[s[i]] # "NONE"
    <3> TAKE i \in 1 .. n - 1
    <3> DEFINE m == IF i < k THEN i ELSE i + 1
    <3>1. m \in 1 .. n /\ m # k /\ s[i] = p.conns[m]
      BY <1>1, <1>2, <1>4
    <3> QED BY <3>1, <1>1, <1>6 DEF PoolInv, Shape, Listed
  <2>3. \A i \in 1 .. n - 1 : q.tcp[s[i]] # "NONE"
    BY <2>2, <1>1, <1>3
  <2>4. \A b \in Addr : q.tcp[b] # "NONE" => \E i \in 1 .. n - 1 : s[i] = b
    <3> SUFFICES ASSUME NEW b \in Addr, q.tcp[b] # "NONE"
                 PROVE  \E i \in 1 .. n - 1 : s[i] = b
      OBVIOUS
    <3>1. b # a /\ p.tcp[b] # "NONE"
      BY <1>1, <1>2, <1>3
    <3>2. PICK j \in 1 .. n : p.conns[j] = b
      BY <3>1 DEF PoolInv, Shape, Listed
    <3>3. j # k
      BY <3>1, <3>2, <1>2
    <3>4. s[IF j < k THEN j ELSE j - 1] = b
      BY <3>2, <3>3, <1>1, <1>2, <1>4
    <3> QED BY <3>3, <3>4, <1>1, <1>2
  <2>5. n - 1 <= PoolLimit
    BY <1>1, PoolAssumption DEF PoolInv, Shape, Listed
  <2>6. \A b \in q.asked : q.tcp[b] # "NONE"
    BY <1>1, <1>3 DEF PoolInv, Shape, Listed, PoolType
  <2> QED BY <2>1, <2>3, <2>4, <2>5, <2>6, <1>3, <1>4 DEF Listed
<1>8. \A b \in Addr : q.msg[b] = "ALL" =>
        /\ b # a /\ b = p.conns[1] /\ HeadReady(q) /\ b = q.conns[1]
  <2> SUFFICES ASSUME NEW b \in Addr, q.msg[b] = "ALL"
               PROVE  /\ b # a /\ b = p.conns[1]
                      /\ HeadReady(q) /\ b = q.conns[1]
    OBVIOUS
  <2>1. b # a /\ p.msg[b] = "ALL"
    BY <1>1, <1>2, <1>3
  <2>2. HeadReady(p) /\ b = p.conns[1]
    BY <2>1 DEF PoolInv, MainOK
  <2>3. n >= 1 /\ k # 1
    BY <2>1, <2>2, <1>2
  <2>4. n - 1 >= 1 /\ s[1] = p.conns[1]
    <3>1. k \in 2 .. n
      BY <2>3, <1>1, <1>2
    <3>2. 1 \in 1 .. n - 1 /\ 1 < k
      BY <3>1, <1>1
    <3> QED BY <3>2, <1>4
  <2>5. q.conns # << >> /\ q.conns[1] = b
    BY <2>4, <2>2, <1>3, <1>4
  <2>6. q.tcp[b] = "TCP_LOGIN"
    BY <2>1, <2>2, <1>1, <1>2, <1>3 DEF HeadReady
  <2> QED BY <2>1, <2>2, <2>5, <2>6 DEF HeadReady
<1>9. Subscribed(q)
  <2>1. \A b \in Addr : q.msg[b] # "none" => q.tcp[b] = "TCP_LOGIN"
    BY <1>1, <1>2, <1>3 DEF PoolInv, MainOK
  <2> QED BY <1>8, <2>1 DEF Subscribed, HeadReady
<1>10. ToldOK(q, {}) /\ SameWord(p, q)
  BY <1>1, <1>2, <1>3 DEF PoolInv, ToldOK, SameWord
<1> QED BY <1>3, <1>4, <1>5, <1>7, <1>9, <1>10 DEF Shape, q, s, k

(* New connections go behind the others and have not joined.               *)
LEMMA InsertLemma ==
  ASSUME NEW p, PoolInv(p),
         NEW s \in Lists(Addr \ Members(p), PoolLimit - Len(p.conns))
  PROVE  LET q == Insert(p, s)
         IN  /\ PoolInv(q) /\ q.msg = p.msg /\ q.told = p.told
             /\ q.udp = p.udp /\ q.cool = p.cool
             /\ \A a \in Addr : q.tcp[a] = p.tcp[a] \/ p.tcp[a] = "NONE"
             /\ \A a \in Addr : q.tcp[a] = "TCP_LOGIN" <=> p.tcp[a] = "TCP_LOGIN"
             /\ HeadReady(p) => HeadReady(q) /\ q.conns[1] = p.conns[1]
             /\ p.conns # << >> => q.conns # << >> /\ q.conns[1] = p.conns[1]
<1> DEFINE n == Len(p.conns)
           q == Insert(p, s)
<1>1. /\ p \in PoolType /\ p.conns \in Seq(Addr) /\ n \in Nat
      /\ p.tcp \in [Addr -> TcpStatus]
  BY DEF PoolInv, Shape, PoolType
<1>2. PICK k \in 0 .. PoolLimit - n :
        /\ s \in [1 .. k -> Addr \ Members(p)]
        /\ \A i, j \in 1 .. k : s[i] = s[j] => i = j
  BY DEF Lists
<1>3. k \in Nat /\ s \in Seq(Addr) /\ Len(s) = k
  <2>1. k \in Nat
    BY <1>1, <1>2, PoolAssumption
  <2>2. s \in [1 .. k -> Addr]
    BY <1>2
  <2> QED BY <2>1, <2>2
<1>4. /\ q.conns = p.conns \o s /\ q.msg = p.msg /\ q.told = p.told
      /\ q.udp = p.udp /\ q.cool = p.cool /\ q.asked = p.asked
      /\ \A a \in Addr : q.tcp[a] = IF \E i \in 1 .. k : s[i] = a
                                    THEN "TCP_INIT" ELSE p.tcp[a]
  BY <1>1, <1>3 DEF Insert, PoolType
<1>5. q \in PoolType
  <2>1. p.conns \o s \in Seq(Addr)
    BY <1>1, <1>3
  <2>2. [a \in Addr |-> IF \E i \in 1 .. Len(s) : s[i] = a
                        THEN "TCP_INIT" ELSE p.tcp[a]] \in [Addr -> TcpStatus]
    BY <1>1 DEF TcpStatus
  <2> QED BY <1>1, <2>1, <2>2 DEF Insert, PoolType
<1> HIDE DEF q
<1>6. /\ Len(q.conns) = n + k
      /\ \A i \in 1 .. n + k : q.conns[i] = IF i <= n THEN p.conns[i] ELSE s[i - n]
  <2>1. /\ Len(p.conns \o s) = n + Len(s)
        /\ \A i \in 1 .. n + Len(s) :
             (p.conns \o s)[i] = IF i <= n THEN p.conns[i] ELSE s[i - n]
    BY <1>1, <1>3, ConcatProperties
  <2> QED BY <2>1, <1>3, <1>4
<1>7. \A i \in 1 .. n, j \in 1 .. k : p.conns[i] # s[j]
  BY <1>1, <1>2 DEF Members
<1>8. \A a \in Addr : (\E i \in 1 .. k : s[i] = a) => p.tcp[a] = "NONE"
  BY <1>2, <1>7 DEF PoolInv, Shape, Listed
<1>9. Listed(q)
  <2>1. n + k <= PoolLimit
    BY <1>1, <1>2, PoolAssumption
  <2>2. \A i, j \in 1 .. n + k : q.conns[i] = q.conns[j] => i = j
    <3> SUFFICES ASSUME NEW i \in 1 .. n + k, NEW j \in 1 .. n + k,
                        q.conns[i] = q.conns[j]
                 PROVE  i = j
      OBVIOUS
    <3>1. \A m \in 1 .. n + k : /\ m <= n => m \in 1 .. n
                               /\ ~ (m <= n) => m - n \in 1 .. k
      BY <1>1, <1>3
    <3>2. \A m \in 1 .. n + k :
            /\ m <= n => q.conns[m] = p.conns[m]
            /\ ~ (m <= n) => q.conns[m] = s[m - n]
      BY <1>6
    <3> HIDE DEF n
    <3>3. CASE i <= n /\ j <= n
      BY <3>1, <3>2, <3>3 DEF PoolInv, Shape, Listed, n
    <3>4. CASE ~ (i <= n) /\ ~ (j <= n)
      <4>1. i - n = j - n
        BY <3>1, <3>2, <3>4, <1>2
      <4> QED BY <4>1, <1>1, <1>3 DEF n
    <3>5. CASE i <= n /\ ~ (j <= n)
      BY <3>1, <3>2, <3>5, <1>7
    <3>6. CASE ~ (i <= n) /\ j <= n
      BY <3>1, <3>2, <3>6, <1>7
    <3> QED BY <3>3, <3>4, <3>5, <3>6
  <2>3. \A i \in 1 .. n + k : q.tcp[q.conns[i]] # "NONE"
    <3> SUFFICES ASSUME NEW i \in 1 .. n + k
                 PROVE  q.tcp[q.conns[i]] # "NONE"
      OBVIOUS
    <3>1. CASE i <= n
      <4>1. i \in 1 .. n /\ q.conns[i] = p.conns[i] /\ p.conns[i] \in Addr
        BY <3>1, <1>1, <1>3, <1>6
      <4> QED BY <4>1, <1>4 DEF PoolInv, Shape, Listed
    <3>2. CASE i > n
      <4>1. i - n \in 1 .. k /\ q.conns[i] = s[i - n] /\ s[i - n] \in Addr
        BY <3>2, <1>1, <1>2, <1>3, <1>6
      <4> QED BY <4>1, <1>4
    <3> QED BY <3>1, <3>2, <1>1, <1>3
  <2>4. \A a \in Addr : q.tcp[a] # "NONE" => \E i \in 1 .. n + k : q.conns[i] = a
    <3> SUFFICES ASSUME NEW a \in Addr, q.tcp[a] # "NONE"
                 PROVE  \E i \in 1 .. n + k : q.conns[i] = a
      OBVIOUS
    <3>1. CASE \E i \in 1 .. k : s[i] = a
      <4>1. PICK i \in 1 .. k : s[i] = a
        BY <3>1
      <4>2. n + i \in 1 .. n + k /\ ~ (n + i <= n) /\ (n + i) - n = i
        BY <1>1, <1>3
      <4>3. q.conns[n + i] = a
        BY <4>1, <4>2, <1>6
      <4> QED BY <4>2, <4>3
    <3>2. CASE ~ \E i \in 1 .. k : s[i] = a
      <4>1. PICK i \in 1 .. n : p.conns[i] = a
        BY <3>2, <1>4 DEF PoolInv, Shape, Listed
      <4>2. i \in 1 .. n + k /\ q.conns[i] = a
        BY <4>1, <1>1, <1>3, <1>6
      <4> QED BY <4>2
    <3> QED BY <3>1, <3>2
  <2>5. \A a \in q.asked : q.tcp[a] # "NONE"
    BY <1>1, <1>4 DEF PoolInv, Shape, Listed, PoolType
  <2> QED BY <2>1, <2>2, <2>3, <2>4, <2>5, <1>6 DEF Listed
<1>10. \A a \in Addr : q.tcp[a] = "TCP_LOGIN" <=> p.tcp[a] = "TCP_LOGIN"
  BY <1>4, <1>8
<1>11. p.conns # << >> => q.conns # << >> /\ q.conns[1] = p.conns[1]
                          /\ p.conns[1] \in Addr
  BY <1>1, <1>3, <1>6
<1>12. HeadReady(p) => HeadReady(q) /\ q.conns[1] = p.conns[1]
  BY <1>10, <1>11 DEF HeadReady
<1>13. HeadKnown(q) /\ MainOK(q) /\ ToldOK(q, {})
  <2>1. LoggedIn(q) = LoggedIn(p)
    BY <1>10 DEF LoggedIn
  <2>2. HeadKnown(q)
    BY <2>1, <1>4, <1>12 DEF PoolInv, HeadKnown
  <2>3. MainOK(q)
    BY <1>4, <1>10, <1>12 DEF PoolInv, MainOK
  <2>4. ToldOK(q, {})
    BY <1>4 DEF PoolInv, ToldOK
  <2> QED BY <2>2, <2>3, <2>4
<1>14. \A a \in Addr : q.tcp[a] = p.tcp[a] \/ p.tcp[a] = "NONE"
  <2> SUFFICES ASSUME NEW a \in Addr
               PROVE  q.tcp[a] = p.tcp[a] \/ p.tcp[a] = "NONE"
    OBVIOUS
  <2>1. CASE \E i \in 1 .. k : s[i] = a
    BY <2>1, <1>8
  <2>2. CASE ~ \E i \in 1 .. k : s[i] = a
    BY <2>2, <1>4
  <2> QED BY <2>1, <2>2
<1> QED BY <1>4, <1>5, <1>9, <1>10, <1>11, <1>12, <1>13, <1>14
        DEF PoolInv, Shape, q

LEMMA MembersLemma ==
  ASSUME NEW p, Shape(p)
  PROVE  Members(p) = {a \in Addr : p.tcp[a] # "NONE"}
<1>1. \A i \in 1 .. Len(p.conns) : p.conns[i] \in Addr
  BY DEF Shape, PoolType
<1> QED BY <1>1 DEF Members, Shape, Listed

LEMMA FiniteJoined ==
  ASSUME NEW p, Shape(p)
  PROVE  IsFiniteSet(LoggedIn(p))
<1> DEFINE n == Len(p.conns)
           f == [i \in 1 .. n |-> p.conns[i]]
<1>1. p.conns \in Seq(Addr) /\ n \in Nat
  BY DEF Shape, PoolType
<1>2. f \in Surjection(1 .. n, Members(p))
  BY DEF Surjection, Members
<1>3. IsFiniteSet(1 .. n)
  BY <1>1, FS_Interval
<1>4. IsFiniteSet(Members(p))
  BY <1>2, <1>3, FS_Surjection
<1>5. LoggedIn(p) \subseteq Members(p)
  BY MembersLemma DEF LoggedIn
<1> QED BY <1>4, <1>5, FS_Subset

(* More than two joined connections take more than one place in the list.  *)
LEMMA ManyJoined ==
  ASSUME NEW p, Shape(p), ~ (Cardinality(LoggedIn(p)) <= 2)
  PROVE  Len(p.conns) \in Nat /\ Len(p.conns) > 1
<1>1. p.conns \in Seq(Addr) /\ Len(p.conns) \in Nat
  BY DEF Shape, PoolType
<1>2. SUFFICES ASSUME Len(p.conns) <= 1 PROVE FALSE
  BY <1>1
<1>3. \A a \in LoggedIn(p) : a = p.conns[1]
  BY <1>1, <1>2 DEF LoggedIn, Shape, Listed
<1>4. CASE LoggedIn(p) = {}
  BY <1>4, FS_EmptySet
<1>5. CASE LoggedIn(p) # {}
  <2>1. LoggedIn(p) = {p.conns[1]}
    BY <1>3, <1>5
  <2>2. Cardinality(LoggedIn(p)) = 1
    BY <2>1, FS_Singleton, Zenon
  <2> QED BY <2>2
<1> QED BY <1>4, <1>5

(* A forced change of the main connection: either the main one moves back  *)
(* behind another, or it is closed and its successor takes over.           *)
LEMMA ChangeFirstLemma ==
  ASSUME NEW p, PoolInv(p), ~ NullClose(p)
  PROVE  LET q == ChangeFirst(p)
         IN  /\ PoolInv(q) /\ SameWord(p, q)
             /\ \A a \in Addr : q.udp[a] = p.udp[a] \/ q.tcp[a] = "NONE"
             /\ \A a \in Addr : q.tcp[a] = p.tcp[a] \/ q.tcp[a] = "NONE"
             /\ q # p => p.cool /\ q.cool = FALSE
             /\ Len(q.conns) = 0 <=> Len(p.conns) = 0
<1>1. CASE ~ p.cool
  BY <1>1 DEF ChangeFirst, SameWord
<1>2. CASE p.cool
  <2> DEFINE r == [p EXCEPT !.cool = FALSE]
  <2>1. p \in PoolType /\ p.tcp \in [Addr -> TcpStatus] /\ p.udp \in [Addr -> UdpStatus]
    BY DEF PoolInv, Shape, PoolType
  <2>2. /\ r \in PoolType /\ r.conns = p.conns /\ r.tcp = p.tcp /\ r.msg = p.msg
        /\ r.told = p.told /\ r.udp = p.udp /\ r.cool = FALSE /\ r.asked = p.asked
    BY <2>1 DEF PoolType
  <2> HIDE DEF r
  <2>3. PoolInv(r) /\ LoggedIn(r) = LoggedIn(p)
    BY <2>2 DEF PoolInv, Shape, Listed, HeadKnown, MainOK, ToldOK, LoggedIn, HeadReady
  <2>4. CASE Cardinality(LoggedIn(p)) <= 2
    <3> DEFINE s == SwapFirst(GetBackUpFronts(r))
    <3>1. ChangeFirst(p) = SetSyncMessage(s)
      BY <1>2, <2>4 DEF ChangeFirst, r
    <3>2. /\ Shape(s) /\ HeadOK(s) /\ s.tcp = r.tcp /\ s.msg = r.msg
          /\ s.told = r.told /\ s.udp = r.udp /\ s.cool = r.cool
          /\ Len(s.conns) = Len(r.conns)
      BY <2>3, GetBackUpLemma, SwapFirstLemma DEF PoolInv
    <3> HIDE DEF s
    <3>3. Subscribed(s) /\ ToldOK(s, {})
      BY <2>3, <3>2
         DEF PoolInv, MainOK, HeadOK, HeadReady, Subscribed, ToldOK, LoggedIn,
             Shape, PoolType
    <3>3a. SameWord(p, s)
      BY <2>2, <3>2 DEF SameWord
    <3>4. /\ PoolInv(SetSyncMessage(s)) /\ SetSyncMessage(s).tcp = s.tcp
          /\ SetSyncMessage(s).udp = s.udp /\ SetSyncMessage(s).cool = s.cool
          /\ Len(SetSyncMessage(s).conns) = Len(s.conns)
          /\ SameWord(s, SetSyncMessage(s))
      BY <3>2, <3>3, SyncLemma, HeadStaysKnown DEF PoolInv
    <3>5. SameWord(p, SetSyncMessage(s))
      BY <3>3a, <3>4, SameWordTwice
    <3> QED BY <1>2, <2>2, <3>1, <3>2, <3>4, <3>5
  <2>5. CASE ~ (Cardinality(LoggedIn(p)) <= 2)
    <3> DEFINE e == EraseConnection(r, r.conns[1])
               s == SwapFirst(e)
    <3>1. ChangeFirst(p) = SetSyncMessage(s)
      BY <1>2, <2>2, <2>5 DEF ChangeFirst, r
    <3>2. HeadReady(r)
      <4>1. IsFiniteSet(LoggedIn(p)) /\ Cardinality(LoggedIn(p)) \in Nat
        BY FiniteJoined, FS_CardinalityType DEF PoolInv
      <4>2. HeadReady(p)
        BY <4>1, <1>2, <2>5 DEF NullClose
      <4> QED BY <4>2, <2>2 DEF HeadReady
    <3>3. r.conns[1] \in Members(r) /\ r.conns[1] \in Addr
      BY <3>2, <2>2 DEF HeadReady, Members, PoolType
    <3>4. /\ Shape(e) /\ ToldOK(e, {}) /\ Subscribed(e) /\ SameWord(r, e)
          /\ e.cool = r.cool /\ Len(e.conns) = Len(r.conns) - 1
          /\ e.tcp = [r.tcp EXCEPT ![r.conns[1]] = "NONE"]
          /\ e.msg = [r.msg EXCEPT ![r.conns[1]] = "none"]
          /\ e.udp = [r.udp EXCEPT ![r.conns[1]] = "INIT"]
      BY <2>3, <3>3, EraseLemma
    <3> HIDE DEF e
    <3>5. \A a \in Addr : e.msg[a] # "ALL"
      BY <2>2, <2>3, <3>3, <3>4 DEF PoolInv, MainOK, PoolType
    <3>6. /\ Shape(s) /\ s.tcp = e.tcp /\ s.msg = e.msg /\ s.told = e.told
          /\ s.udp = e.udp /\ s.cool = e.cool /\ Len(s.conns) = Len(e.conns)
      BY <3>4, SwapFirstLemma
    <3> HIDE DEF s
    <3>7. Subscribed(s) /\ ToldOK(s, {}) /\ SameWord(p, s)
      BY <2>2, <3>4, <3>5, <3>6
         DEF Subscribed, ToldOK, HeadReady, Shape, PoolType, SameWord
    <3>8. /\ PoolInv(SetSyncMessage(s)) /\ SetSyncMessage(s).tcp = s.tcp
          /\ SetSyncMessage(s).udp = s.udp /\ SetSyncMessage(s).cool = s.cool
          /\ Len(SetSyncMessage(s).conns) = Len(s.conns)
          /\ SameWord(s, SetSyncMessage(s))
      BY <3>6, <3>7, SyncLemma, HeadStaysKnown DEF PoolInv
    <3>8a. SameWord(p, SetSyncMessage(s))
      BY <3>7, <3>8, SameWordTwice
    <3>9. Len(ChangeFirst(p).conns) # 0 /\ Len(p.conns) # 0
      <4>1. Len(p.conns) \in Nat /\ Len(p.conns) > 1
        BY <2>5, ManyJoined DEF PoolInv
      <4>2. Len(ChangeFirst(p).conns) = Len(p.conns) - 1
        BY <2>2, <3>1, <3>4, <3>6, <3>8, Zenon
      <4>3. \A m, n : n \in Nat /\ n > 1 /\ m = n - 1 => m # 0 /\ n # 0
        OBVIOUS
      <4> QED BY <4>1, <4>2, <4>3, Zenon
    <3> QED BY <1>2, <2>1, <2>2, <3>1, <3>3, <3>4, <3>6, <3>8, <3>8a, <3>9
  <2> QED BY <2>4, <2>5
<1> QED BY <1>1, <1>2 DEF PoolInv, Shape, PoolType, SameWord

(* What both answers to a join begin with: the connection has joined.       *)
LEMMA LoginLemma ==
  ASSUME NEW p, PoolInv(p), NEW a \in Addr, p.tcp[a] = "TCP_ENCODE"
  PROVE  LET u == LoginSuccess(p, a)
         IN  /\ Shape(u) /\ u.conns = p.conns
             /\ u.tcp = [p.tcp EXCEPT ![a] = "TCP_LOGIN"]
             /\ u.msg = p.msg /\ u.told = p.told
             /\ u.cool = p.cool /\ u.asked = p.asked
             /\ \A b \in Addr : b # a => u.udp[b] = p.udp[b]
<1> DEFINE u == LoginSuccess(p, a)
           T == [p.tcp EXCEPT ![a] = "TCP_LOGIN"]
           U == [p.udp EXCEPT ![a] = IF UdpEnabled THEN "UDP_CONNECT" ELSE p.udp[a]]
           W == p.waiting \ {a}
           O == p.old \ {a}
<1>1. /\ p \in PoolType /\ p.tcp \in [Addr -> TcpStatus]
      /\ p.udp \in [Addr -> UdpStatus]
  BY DEF PoolInv, Shape, PoolType
<1>2. T \in [Addr -> TcpStatus]
  BY <1>1 DEF TcpStatus
<1>3. U \in [Addr -> UdpStatus] /\ \A b \in Addr : b # a => U[b] = p.udp[b]
  <2>1. CASE UdpEnabled
    BY <1>1, <2>1 DEF UdpStatus
  <2>2. CASE ~ UdpEnabled
    BY <1>1, <2>2 DEF UdpStatus
  <2> QED BY <2>1, <2>2
<1>4. W \subseteq Addr /\ O \subseteq Addr
  BY <1>1 DEF PoolType
<1>5. u = [p EXCEPT !.tcp = T, !.udp = U, !.waiting = W, !.old = O]
  BY DEF LoginSuccess
<1> HIDE DEF u, T, U, W, O
<1>6. /\ u \in PoolType /\ u.conns = p.conns /\ u.tcp = T
      /\ u.msg = p.msg /\ u.told = p.told /\ u.cool = p.cool /\ u.udp = U
      /\ u.asked = p.asked
  BY <1>1, <1>2, <1>3, <1>4, <1>5 DEF PoolType
<1>7. Listed(u)
  <2>1. \A i \in 1 .. Len(p.conns) : p.conns[i] \in Addr
    BY <1>1 DEF PoolType
  <2> QED BY <1>1, <1>6, <2>1 DEF T, PoolInv, Shape, Listed, PoolType
<1> QED BY <1>3, <1>6, <1>7 DEF Shape, T, u

(* The join handler of the new protocol up to SetSyncMessage: the           *)
(* connection has joined and its subscription is recorded.                 *)
JoinRecord(p, a, m) ==
  [LoginSuccess(p, a) EXCEPT !.msg = [@ EXCEPT ![a] = m]]

LEMMA JoinRecorded ==
  ASSUME NEW p, PoolInv(p), NEW a \in Addr, p.tcp[a] = "TCP_ENCODE",
         NEW m \in Message
  PROVE  LET l == JoinRecord(p, a, m)
         IN  /\ Shape(l) /\ l.conns = p.conns
             /\ l.tcp = [p.tcp EXCEPT ![a] = "TCP_LOGIN"]
             /\ l.msg = [p.msg EXCEPT ![a] = m]
             /\ l.told = p.told /\ l.cool = p.cool /\ l.asked = p.asked
             /\ \A b \in Addr : b # a => l.udp[b] = p.udp[b]
<1> DEFINE u == LoginSuccess(p, a)
           l == JoinRecord(p, a, m)
<1>1. /\ Shape(u) /\ u.conns = p.conns
      /\ u.tcp = [p.tcp EXCEPT ![a] = "TCP_LOGIN"]
      /\ u.msg = p.msg /\ u.told = p.told /\ u.cool = p.cool /\ u.asked = p.asked
      /\ \A b \in Addr : b # a => u.udp[b] = p.udp[b]
  BY LoginLemma
<1>2. l = [u EXCEPT !.msg = [@ EXCEPT ![a] = m]]
  BY DEF JoinRecord
<1> HIDE DEF u, l
<1>3. u \in PoolType /\ u.msg \in [Addr -> Message]
  BY <1>1 DEF Shape, PoolType
<1>4. /\ l \in PoolType /\ l.conns = u.conns /\ l.tcp = u.tcp
      /\ l.msg = [u.msg EXCEPT ![a] = m]
      /\ l.told = u.told /\ l.cool = u.cool /\ l.asked = u.asked /\ l.udp = u.udp
  BY <1>2, <1>3 DEF PoolType
<1>5. Shape(l)
  BY <1>1, <1>4 DEF Shape, Listed
<1> QED BY <1>1, <1>4, <1>5, Zenon DEF l

(* The join handler of the new protocol, from LoginSuccess to the write of *)
(* the subscription: a head that joins after others is promoted, and then  *)
(* told less.                                                              *)
LEMMA SubscribeLemma ==
  ASSUME NEW p, PoolInv(p), NEW a \in Addr, p.tcp[a] = "TCP_ENCODE",
         NEW m, m = IF LoggedIn(p) = {} THEN "ALL" ELSE "SEQUENCE"
  PROVE  LET q == Subscribe(LoginSuccess(p, a), a, m)
         IN  /\ PoolInv(q) /\ HeadOK(q)
             /\ q.cool = p.cool /\ Len(q.conns) = Len(p.conns)
             /\ \A b \in Addr : b # a => q.udp[b] = p.udp[b] /\ q.tcp[b] = p.tcp[b]
             /\ \A b \in Addr \ {a} : \/ q.told[b] = q.msg[b]
                                      \/ q.told[b] = p.told[b] /\ q.msg[b] = p.msg[b]
             /\ q.msg[a] # "none"
             /\ q.told[a] # q.msg[a] => a = p.conns[1] /\ LoggedIn(p) # {}
<1> DEFINE l == JoinRecord(p, a, m)
           s == SetSyncMessage(l)
           q == [s EXCEPT !.told = [@ EXCEPT ![a] = m]]
<1>1. Subscribe(LoginSuccess(p, a), a, m) = q
  BY DEF Subscribe, JoinRecord
<1>2. /\ p \in PoolType /\ p.tcp \in [Addr -> TcpStatus] /\ p.msg \in [Addr -> Message]
      /\ p.told \in [Addr -> Message] /\ p.udp \in [Addr -> UdpStatus]
      /\ m \in Message
  BY DEF PoolInv, Shape, PoolType, Message
<1>3. /\ Shape(l) /\ l.conns = p.conns
      /\ l.tcp = [p.tcp EXCEPT ![a] = "TCP_LOGIN"]
      /\ l.msg = [p.msg EXCEPT ![a] = m]
      /\ l.told = p.told /\ l.cool = p.cool /\ l.asked = p.asked
      /\ \A b \in Addr : b # a => l.udp[b] = p.udp[b]
  <2>1. m \in Message
    BY <1>2
  <2> QED BY <2>1, JoinRecorded
<1>4. l \in PoolType
  BY <1>3 DEF Shape
<1> HIDE DEF l
<1>5. Subscribed(l) /\ ToldOK(l, {a})
  <2>1. p.conns # << >> => p.conns[1] \in Addr
    BY DEF PoolInv, Shape, PoolType
  <2>2. \A b \in Addr : p.msg[b] = "ALL" =>
           p.tcp[b] = "TCP_LOGIN" /\ p.conns # << >> /\ b = p.conns[1] /\ b # a
    BY DEF PoolInv, MainOK, HeadReady
  <2>3. ToldOK(l, {a})
    BY <1>2, <1>3 DEF PoolInv, ToldOK
  <2>4. \A b \in Addr : l.msg[b] # "none" => l.tcp[b] = "TCP_LOGIN"
    BY <1>2, <1>3 DEF PoolInv, MainOK
  <2>5. CASE LoggedIn(p) = {}
    BY <1>2, <1>3, <2>1, <2>2, <2>3, <2>4, <2>5 DEF Subscribed, LoggedIn, HeadReady
  <2>6. CASE LoggedIn(p) # {}
    <3>1. m = "SEQUENCE"
      BY <2>6
    <3>2. \A b \in Addr : l.msg[b] = "ALL" => p.msg[b] = "ALL"
      BY <1>2, <1>3, <3>1
    <3>3. \A b \in Addr : l.msg[b] = "ALL" => HeadReady(l) /\ b = l.conns[1]
      BY <1>2, <1>3, <2>2, <3>2 DEF HeadReady
    <3> QED BY <2>3, <2>4, <3>3 DEF Subscribed
  <2> QED BY <2>5, <2>6
<1>6. /\ Shape(s) /\ HeadOK(s) /\ MainOK(s) /\ ToldOK(s, {a}) /\ SameWord(l, s)
      /\ s.tcp = l.tcp /\ s.udp = l.udp /\ s.cool = l.cool
      /\ Len(s.conns) = Len(l.conns)
  BY <1>3, <1>5, SyncLemma
<1>7. \/ s.msg[a] = m
      \/ s.msg[a] = "ALL" /\ a = p.conns[1] /\ LoggedIn(p) # {}
  <2>1. CASE ~ HeadReady(l) \/ (HeadReady(l) /\ l.msg[l.conns[1]] = "ALL")
    <3>1. s.msg = l.msg
      BY <1>3, <2>1, SwapFirstLemma DEF SetSyncMessage
    <3> QED BY <3>1, <1>2, <1>3
  <2>2. CASE HeadReady(l) /\ l.msg[l.conns[1]] # "ALL"
    <3>1. s = Promote(l)
      BY <2>2 DEF SetSyncMessage, HeadReady
    <3>2. l.conns[1] \in Addr /\ l.conns[1] \in LoggedIn(l)
      BY <1>3, <1>4, <2>2 DEF HeadReady, PoolType, LoggedIn
    <3>3. LoggedIn(p) # {}
      BY <1>2, <1>3, <2>2, <3>2 DEF LoggedIn
    <3>4. m = "SEQUENCE"
      BY <3>3
    <3>5. CASE a = l.conns[1]
      BY <3>1, <3>3, <3>5, <1>3, <1>4 DEF Promote, PoolType
    <3>6. CASE a # l.conns[1]
      <4>1. a \in Slaves(l)
        BY <3>6, <1>2, <1>3 DEF Slaves, LoggedIn
      <4> QED BY <3>1, <3>4, <3>6, <4>1, <1>3, <1>4 DEF Promote, PoolType
    <3> QED BY <3>5, <3>6
  <2> QED BY <2>1, <2>2
<1>8. /\ s \in PoolType /\ s.told \in [Addr -> Message]
  BY <1>6 DEF Shape, PoolType
<1> HIDE DEF s
<1>9. /\ q \in PoolType /\ q.conns = s.conns /\ q.tcp = s.tcp /\ q.msg = s.msg
      /\ q.told = [s.told EXCEPT ![a] = m] /\ q.udp = s.udp /\ q.cool = s.cool
      /\ q.asked = s.asked
  BY <1>2, <1>8 DEF PoolType
<1> HIDE DEF q
<1>10. Listed(q)
  BY <1>6, <1>9 DEF Shape, Listed
<1>11. HeadOK(q) /\ MainOK(q)
  BY <1>6, <1>9 DEF HeadOK, MainOK, HeadReady, LoggedIn
<1>12. ToldOK(q, {})
  BY <1>6, <1>7, <1>8, <1>9 DEF ToldOK
<1>13. \A b \in Addr \ {a} : \/ q.told[b] = q.msg[b]
                             \/ q.told[b] = p.told[b] /\ q.msg[b] = p.msg[b]
  BY <1>2, <1>3, <1>6, <1>8, <1>9 DEF SameWord
<1>14. /\ q.msg[a] # "none"
       /\ q.told[a] # q.msg[a] => a = p.conns[1] /\ LoggedIn(p) # {}
  BY <1>7, <1>8, <1>9
<1>15. PoolInv(q)
  BY <1>9, <1>10, <1>11, <1>12, HeadStaysKnown DEF PoolInv, Shape
<1>16. /\ q.cool = p.cool /\ Len(q.conns) = Len(p.conns)
       /\ \A b \in Addr : b # a => q.udp[b] = p.udp[b] /\ q.tcp[b] = p.tcp[b]
  BY <1>2, <1>3, <1>6, <1>9
<1> QED BY <1>1, <1>11, <1>13, <1>14, <1>15, <1>16 DEF q

(* The answer of the old protocol: one more connection has joined, and has *)
(* no subscription.                                                        *)
LEMMA SyncedLemma ==
  ASSUME NEW p, PoolInv(p), NEW a \in Addr, p.tcp[a] = "TCP_ENCODE"
  PROVE  LET q == LoginSuccess(p, a)
         IN  PoolInv(q) /\ SameWord(p, q)
<1> DEFINE q == LoginSuccess(p, a)
<1>1. /\ Shape(q) /\ q.conns = p.conns
      /\ q.tcp = [p.tcp EXCEPT ![a] = "TCP_LOGIN"]
      /\ q.msg = p.msg /\ q.told = p.told
  BY LoginLemma
<1> HIDE DEF q
<1>2. p.tcp \in [Addr -> TcpStatus] /\ (p.conns # << >> => p.conns[1] \in Addr)
  BY DEF PoolInv, Shape, PoolType
<1>3. HeadReady(p) => HeadReady(q)
  BY <1>1, <1>2 DEF HeadReady
<1>4. p.msg[a] = "none"
  BY DEF PoolInv, MainOK
<1>5. HeadKnown(q)
  BY <1>1, <1>2, <1>3, <1>4 DEF PoolInv, HeadKnown, LoggedIn
<1>6. MainOK(q)
  BY <1>1, <1>2, <1>3 DEF PoolInv, MainOK
<1>7. ToldOK(q, {}) /\ SameWord(p, q)
  BY <1>1 DEF PoolInv, ToldOK, SameWord
<1> QED BY <1>1, <1>5, <1>6, <1>7 DEF PoolInv, q

-----------------------------------------------------------------------------
(* A step that moves no connection into or out of the joined ones, and     *)
(* touches no subscription.                                                *)
LEMMA SameJoined ==
  ASSUME NEW p, PoolInv(p), NEW q \in PoolType,
         q.conns = p.conns, q.msg = p.msg, q.told = p.told,
         \A a \in Addr : q.tcp[a] = "TCP_LOGIN" <=> p.tcp[a] = "TCP_LOGIN",
         \A a \in Addr : q.tcp[a] = "NONE" <=> p.tcp[a] = "NONE",
         \A a \in q.asked : q.tcp[a] # "NONE"
  PROVE  PoolInv(q)
<1>1. \A i \in 1 .. Len(p.conns) : p.conns[i] \in Addr
  BY DEF PoolInv, Shape, PoolType
<1>2. Listed(q)
  BY <1>1 DEF PoolInv, Shape, Listed
<1>3. p.conns # << >> => p.conns[1] \in Addr
  BY DEF PoolInv, Shape, PoolType
<1>4. HeadReady(q) <=> HeadReady(p)
  BY <1>3 DEF HeadReady
<1> QED BY <1>2, <1>4 DEF PoolInv, Shape, HeadKnown, MainOK, ToldOK, LoggedIn

LEMMA InvSubscribed ==
  ASSUME NEW p, PoolInv(p)
  PROVE  Shape(p) /\ Subscribed(p) /\ ToldOK(p, {})
<1>1. HeadReady(p) => p.conns[1] \in Addr
  BY DEF PoolInv, Shape, PoolType, HeadReady
<1> QED BY <1>1 DEF PoolInv, MainOK, HeadReady, Subscribed

LEMMA InfoLemma ==
  ASSUME info \in [{"main", "vice"} -> InfoStatus], NEW n,
         NEW i \in InfoStarts(n)
  PROVE  i \in [{"main", "vice"} -> InfoStatus]
<1> DEFINE T == [{"main", "vice"} -> InfoStatus]
<1>1. \A x \in T, fails \in BOOLEAN : InfoStart(x, fails) \in T
  BY DEF InfoStart, InfoStatus
<1>2. \A x \in {InfoStart(info, fails) : fails \in BOOLEAN} : x \in T
  BY <1>1
<1> QED BY <1>1, <1>2 DEF InfoStarts

(* The steps of one connection.                                            *)
LEMMA HandshakeInv ==
  ASSUME PoolInv(pool), NEW a \in Addr, Handshake(a) \/ Udp(a)
  PROVE  PoolInv(pool')
<1>1. /\ pool \in PoolType /\ pool.tcp \in [Addr -> TcpStatus]
      /\ pool.udp \in [Addr -> UdpStatus]
  BY DEF PoolInv, Shape, PoolType
<1>1a. \A b \in pool.asked : pool.tcp[b] # "NONE"
  BY DEF PoolInv, Shape, Listed
<1>2. CASE Connected(a)
  <2> DEFINE q == [pool EXCEPT !.tcp = [@ EXCEPT ![a] = "TCP_CONNECT"],
                               !.waiting = @ \cup {a}]
  <2>1. q \in PoolType
    BY <1>1 DEF PoolType, TcpStatus
  <2>2. /\ q.conns = pool.conns /\ q.msg = pool.msg /\ q.told = pool.told
        /\ q.tcp = [pool.tcp EXCEPT ![a] = "TCP_CONNECT"]
        /\ q.asked = pool.asked /\ q.asked \subseteq Addr
    BY <1>1 DEF PoolType
  <2>3. pool' = q /\ pool.tcp[a] = "TCP_INIT"
    BY <1>2 DEF Connected
  <2> HIDE DEF q
  <2> QED BY <1>1, <1>1a, <2>1, <2>2, <2>3, SameJoined
<1>3. CASE \E modern \in BOOLEAN : KeyExchanged(a, modern)
  <2> PICK modern \in BOOLEAN : KeyExchanged(a, modern)
    BY <1>3
  <2> DEFINE q == [pool EXCEPT !.tcp = [@ EXCEPT ![a] = "TCP_ENCODE"],
                               !.version = @ \/ modern,
                               !.old = IF modern THEN @ ELSE @ \cup {a}]
  <2>1. q \in PoolType
    BY <1>1 DEF PoolType, TcpStatus
  <2>2. /\ q.conns = pool.conns /\ q.msg = pool.msg /\ q.told = pool.told
        /\ q.tcp = [pool.tcp EXCEPT ![a] = "TCP_ENCODE"]
        /\ q.asked = pool.asked /\ q.asked \subseteq Addr
    BY <1>1 DEF PoolType
  <2>3. pool' = q /\ pool.tcp[a] = "TCP_CONNECT"
    BY DEF KeyExchanged
  <2> HIDE DEF q
  <2> QED BY <1>1, <1>1a, <2>1, <2>2, <2>3, SameJoined
<1>4. CASE Refused(a)
  <2> DEFINE q == [pool EXCEPT !.waiting = @ \ {a}, !.old = @ \ {a}]
  <2>1. /\ q \in PoolType /\ q.conns = pool.conns /\ q.msg = pool.msg
        /\ q.told = pool.told /\ q.tcp = pool.tcp /\ q.asked = pool.asked
    BY <1>1 DEF PoolType
  <2>2. pool' = q
    BY <1>4 DEF Refused
  <2> HIDE DEF q
  <2> QED BY <1>1a, <2>1, <2>2, SameJoined
<1>5. CASE Joined(a)
  BY <1>5, SubscribeLemma DEF Joined
<1>5a. CASE Synced(a)
  BY <1>5a, SyncedLemma DEF Synced
<1>6. CASE Closed(a)
  <2>1. a \in Members(pool) /\ pool' = Refresh(EraseConnection(pool, a))
    BY <1>6 DEF Closed
  <2> QED BY <2>1, EraseLemma, RefreshLemma
<1>7. CASE Udp(a)
  <2>1. PICK v \in UdpStatus : pool' = [pool EXCEPT !.udp = [@ EXCEPT ![a] = v]]
    BY <1>7 DEF Udp, UdpRegistered, UdpTimeout, UdpStatus
  <2> DEFINE q == [pool EXCEPT !.udp = [@ EXCEPT ![a] = v]]
  <2>2. /\ q \in PoolType /\ q.conns = pool.conns /\ q.msg = pool.msg
        /\ q.told = pool.told /\ q.tcp = pool.tcp /\ q.asked = pool.asked
    BY <1>1 DEF PoolType
  <2> HIDE DEF q
  <2> QED BY <1>1a, <2>1, <2>2, SameJoined DEF q
<1> QED BY <1>2, <1>3, <1>4, <1>5, <1>5a, <1>6, <1>7 DEF Handshake

(* The steps that add connections.                                         *)
LEMMA GrowInv ==
  ASSUME PoolInv(pool), Grow
  PROVE  PoolInv(pool')
<1>1. /\ pool \in PoolType /\ pool.conns \in Seq(Addr) /\ Len(pool.conns) \in Nat
  BY DEF PoolInv, Shape, PoolType
<1>2. PoolInv(Refresh(pool)) /\ Refresh(pool).tcp = pool.tcp
      /\ Len(Refresh(pool).conns) = Len(pool.conns)
  BY InvSubscribed, RefreshLemma
<1>3. Members(Refresh(pool)) = Members(pool)
  BY <1>2, MembersLemma DEF PoolInv
<1>4. ASSUME NEW a \in Addr, NEW fails \in BOOLEAN, Start(a, fails)
      PROVE  PoolInv(pool')
  <2>1. CASE ~ CanStart(a) \/ fails
    BY <1>2, <1>4, <2>1 DEF Start
  <2>2. CASE CanStart(a) /\ ~ fails
    <3>1. pool' = Insert(pool, <<a>>)
      BY <1>4, <2>2 DEF Start
    <3>2. PoolLimit - Len(pool.conns) \in Nat /\ 1 \in 0 .. PoolLimit - Len(pool.conns)
      BY <1>1, <2>2, PoolAssumption DEF CanStart
    <3>3. <<a>> \in [1 .. 1 -> Addr \ Members(pool)]
      BY <2>2 DEF CanStart
    <3>4. <<a>> \in Lists(Addr \ Members(pool), PoolLimit - Len(pool.conns))
      BY <3>2, <3>3 DEF Lists
    <3> QED BY <3>1, <3>4, InsertLemma
  <2> QED BY <2>1, <2>2
<1>5. ASSUME NEW a \in pool.asked, NEW added \in NewFronts,
             NEW fails \in BOOLEAN, NEW last \in BOOLEAN,
             BackupRes(a, added, fails, last)
      PROVE  PoolInv(pool')
  <2> DEFINE p == IF fails THEN Refresh(pool) ELSE pool
             q == Insert(p, added)
             r == [q EXCEPT !.asked = @ \ {a}]
  <2>1. PoolInv(p) /\ Members(p) = Members(pool) /\ Len(p.conns) = Len(pool.conns)
    BY <1>2, <1>3
  <2>2. pool' = IF last THEN r ELSE q
    BY <1>5 DEF BackupRes
  <2> HIDE DEF p
  <2>3. PoolInv(q)
    BY <2>1, InsertLemma DEF NewFronts
  <2> HIDE DEF q
  <2>4. q \in PoolType
    BY <2>3 DEF PoolInv, Shape
  <2>5. /\ r \in PoolType /\ r.conns = q.conns /\ r.msg = q.msg
        /\ r.told = q.told /\ r.tcp = q.tcp /\ r.asked = q.asked \ {a}
    BY <2>4 DEF PoolType
  <2> HIDE DEF r
  <2>6. PoolInv(r)
    BY <2>3, <2>5, SameJoined DEF PoolInv, Shape, Listed
  <2> QED BY <2>2, <2>3, <2>6
<1> QED BY <1>4, <1>5 DEF Grow

-----------------------------------------------------------------------------
(* The inductive invariant of the specification.                           *)
Inv == TypeOK /\ PoolInv(pool)

(* The pool of a new session object, whatever its sockets for user         *)
(* information are doing.                                                  *)
LEMMA FreshInv ==
  ASSUME NEW p, p = EmptyPool
  PROVE  PoolInv(p) /\ p.conns = << >>
<1>1. p \in PoolType
  BY DEF EmptyPool, PoolType, TcpStatus, UdpStatus, Message
<1>2. /\ p.conns = << >> /\ p.tcp = [a \in Addr |-> "NONE"]
      /\ p.msg = [a \in Addr |-> "none"] /\ p.asked = {}
  BY DEF EmptyPool
<1>3. Shape(p)
  BY <1>1, <1>2, PoolAssumption DEF Shape, Listed
<1>4. HeadKnown(p) /\ MainOK(p) /\ ToldOK(p, {})
  BY <1>2 DEF HeadKnown, MainOK, ToldOK, LoggedIn, EmptyPool
<1> QED BY <1>2, <1>3, <1>4 DEF PoolInv

LEMMA InitInv == Init => Inv
<1> SUFFICES ASSUME Init PROVE Inv
  OBVIOUS
<1>1. PoolInv(pool)
  BY FreshInv DEF Init
<1>2. change \in BOOLEAN /\ backupTimer \in BOOLEAN
      /\ info \in [{"main", "vice"} -> InfoStatus]
  BY DEF Init, InfoStatus
<1> QED BY <1>1, <1>2 DEF Inv, TypeOK, PoolInv, Shape, PoolType

\* A stuttering step of the pool, or one of the other variables.
LEMMA NextInv == Inv /\ [Next]_vars => Inv'
<1> SUFFICES ASSUME Inv, [Next]_vars PROVE Inv'
  OBVIOUS
<1> DEFINE InfoType == [{"main", "vice"} -> InfoStatus]
           Rest == /\ change' \in BOOLEAN /\ backupTimer' \in BOOLEAN
                   /\ info' \in InfoType
<1>1. /\ PoolInv(pool) /\ change \in BOOLEAN /\ backupTimer \in BOOLEAN
      /\ info \in InfoType
  BY DEF Inv, TypeOK
<1>2. \A n : info' \in InfoStarts(n) => info' \in InfoType
  BY <1>1, InfoLemma
<1>3. CASE Grow
  <2>1. PoolInv(pool')
    BY <1>1, <1>3, GrowInv
  <2>2. Rest
    BY <1>1, <1>2, <1>3 DEF Grow, Start, BackupRes
  <2> QED BY <2>1, <2>2 DEF Inv, TypeOK, PoolInv, Shape, PoolType
<1>4. ASSUME NEW a \in Addr, Handshake(a) \/ Udp(a) PROVE Inv'
  <2>1. PoolInv(pool')
    BY <1>1, <1>4, HandshakeInv
  <2>2. Rest
    BY <1>1, <1>4 DEF Handshake, Udp, Connected, KeyExchanged, Refused, Joined,
                      Synced, Closed, UdpRegistered, UdpTimeout
  <2> QED BY <2>1, <2>2 DEF Inv, TypeOK, PoolInv, Shape, PoolType
<1>5. ASSUME NEW s \in {"main", "vice"}, InfoConnected(s) \/ InfoClosed(s)
      PROVE  Inv'
  <2>1. pool' = pool /\ Rest
    BY <1>1, <1>5 DEF InfoConnected, InfoClosed, InfoStatus
  <2> QED BY <1>1, <2>1 DEF Inv, TypeOK, PoolInv, Shape, PoolType
<1>6. CASE ChangeMain
  <2>1. PoolInv(pool')
    BY <1>1, <1>6, ChangeFirstLemma DEF ChangeMain
  <2>2. Rest
    BY <1>1, <1>6 DEF ChangeMain
  <2> QED BY <2>1, <2>2 DEF Inv, TypeOK, PoolInv, Shape, PoolType
<1>7. CASE ChangeFirstNextTime
  <2>1. pool' = pool /\ Rest
    BY <1>1, <1>7 DEF ChangeFirstNextTime
  <2> QED BY <1>1, <2>1 DEF Inv, TypeOK, PoolInv, Shape, PoolType
<1>8. CASE CheckBackup
  <2> DEFINE p == IF change THEN ChangeFirst(pool) ELSE pool
  <2>1. PoolInv(p)
    BY <1>1, <1>8, ChangeFirstLemma DEF CheckBackup
  <2>2. pool' = Refresh(p)
    BY <1>8 DEF CheckBackup
  <2>3. PoolInv(pool')
    BY <2>1, <2>2, InvSubscribed, RefreshLemma
  <2>4. Rest
    BY <1>1, <1>2, <1>8 DEF CheckBackup
  <2> QED BY <2>3, <2>4 DEF Inv, TypeOK, PoolInv, Shape, PoolType
<1>9. CASE Cooled
  <2> DEFINE q == [pool EXCEPT !.cool = TRUE]
  <2>1. pool' = q /\ Rest
    BY <1>1, <1>9 DEF Cooled
  <2>2. /\ q \in PoolType /\ q.conns = pool.conns /\ q.msg = pool.msg
        /\ q.told = pool.told /\ q.tcp = pool.tcp /\ q.asked = pool.asked
    BY <1>1 DEF PoolInv, Shape, PoolType
  <2> HIDE DEF q
  <2>3. PoolInv(q)
    BY <1>1, <2>2, SameJoined DEF PoolInv, Shape, Listed
  <2> QED BY <2>1, <2>3 DEF Inv, TypeOK, PoolInv, Shape, PoolType
<1>10. CASE SessionMain
  <2>1. pool' = GetBackUpFronts(pool) /\ Rest
    BY <1>1, <1>10 DEF SessionMain
  <2>2. /\ Shape(pool') /\ pool'.conns = pool.conns
        /\ pool'.tcp = pool.tcp /\ pool'.msg = pool.msg /\ pool'.told = pool.told
    BY <1>1, <2>1, GetBackUpLemma DEF PoolInv
  <2>3. PoolInv(pool')
    BY <1>1, <2>2, SameJoined DEF Shape, Listed
  <2> QED BY <2>1, <2>3 DEF Inv, TypeOK, PoolInv, Shape, PoolType
<1>11. CASE UNCHANGED vars
  BY <1>1, <1>11 DEF vars, Inv, TypeOK
<1> QED BY <1>3, <1>4, <1>5, <1>6, <1>7, <1>8, <1>9, <1>10, <1>11 DEF Next

-----------------------------------------------------------------------------
(* What a composition needs to know of the list: whether it is empty is    *)
(* changed by a closing socket and by a reply of the LBS only.             *)
Quiet ==
  \/ \E a \in Addr :
       \/ Connected(a)
       \/ \E modern \in BOOLEAN : KeyExchanged(a, modern)
       \/ Refused(a)
       \/ Joined(a)
       \/ Synced(a)
       \/ Udp(a)
  \/ \E a \in pool.asked, added \in NewFronts, fails, last \in BOOLEAN :
       BackupRes(a, added, fails, last)
  \/ SessionMain
  \/ ChangeMain
  \/ ChangeFirstNextTime
  \/ CheckBackup
  \/ Cooled

LEMMA EmptyList ==
  ASSUME NEW p, Shape(p)
  PROVE  p.conns = << >> <=> Len(p.conns) = 0
<1>1. p.conns \in Seq(Addr)
  BY DEF Shape, PoolType
<1> QED BY <1>1, EmptySeq

LEMMA RefreshKeepsLength ==
  ASSUME NEW p, PoolInv(p)
  PROVE  Len(Refresh(p).conns) = Len(p.conns)
<1> QED BY InvSubscribed, RefreshLemma

LEMMA QuietKeepsList ==
  ASSUME PoolInv(pool), Quiet
  PROVE  pool'.conns = << >> <=> pool.conns = << >>
<1>1. pool \in PoolType /\ Shape(pool)
  BY DEF PoolInv, Shape
<1>2. ASSUME NEW a \in Addr,
             \/ Connected(a) \/ \E modern \in BOOLEAN : KeyExchanged(a, modern)
             \/ Refused(a) \/ Udp(a)
      PROVE  pool'.conns = pool.conns
  BY <1>1, <1>2 DEF Connected, KeyExchanged, Refused, Udp, UdpRegistered, UdpTimeout,
                    PoolType
<1>3. ASSUME NEW a \in Addr, Joined(a)
      PROVE  Len(pool'.conns) = Len(pool.conns) /\ Shape(pool')
  BY <1>3, SubscribeLemma DEF Joined, PoolInv
<1>3a. ASSUME NEW a \in Addr, Synced(a)
       PROVE  pool'.conns = pool.conns
  BY <1>3a, LoginLemma DEF Synced
<1>4. ASSUME NEW a \in pool.asked, NEW added \in NewFronts,
             NEW fails \in BOOLEAN, NEW last \in BOOLEAN,
             BackupRes(a, added, fails, last)
      PROVE  pool'.conns # << >> /\ pool.conns # << >>
  <2>1. a \in Addr /\ pool.tcp[a] # "NONE"
    BY <1>1, <1>4 DEF PoolType, Shape, Listed
  <2>2. pool.conns # << >>
    BY <2>1, <1>1 DEF Shape, Listed
  <2> DEFINE p == IF fails THEN Refresh(pool) ELSE pool
             q == Insert(p, added)
             r == [q EXCEPT !.asked = @ \ {a}]
  <2>3. /\ PoolInv(p) /\ Members(p) = Members(pool) /\ Len(p.conns) = Len(pool.conns)
    BY <1>1, InvSubscribed, RefreshLemma, MembersLemma DEF PoolInv
  <2>4. p.conns # << >>
    BY <2>2, <2>3, <1>1, EmptyList DEF PoolInv
  <2>5. pool' = IF last THEN r ELSE q
    BY <1>4 DEF BackupRes
  <2> HIDE DEF p
  <2>6. added \in Lists(Addr \ Members(p), PoolLimit - Len(p.conns))
    BY <2>3 DEF NewFronts
  <2>7. PoolInv(q) /\ q.conns # << >>
    BY <2>3, <2>4, <2>6, InsertLemma
  <2> HIDE DEF q
  <2>8. r.conns = q.conns
    BY <2>7 DEF PoolInv, Shape, PoolType
  <2> QED BY <2>2, <2>5, <2>7, <2>8
<1>5. CASE SessionMain
  BY <1>1, <1>5, GetBackUpLemma DEF SessionMain
<1>6. ASSUME ChangeMain \/ CheckBackup
      PROVE  (Len(pool'.conns) = 0 <=> Len(pool.conns) = 0) /\ Shape(pool')
  <2> DEFINE p == IF change THEN ChangeFirst(pool) ELSE pool
  <2>2. CASE ChangeMain
    BY <2>2, ChangeFirstLemma DEF ChangeMain, PoolInv
  <2>3. CASE CheckBackup
    <3>1. PoolInv(p) /\ (Len(p.conns) = 0 <=> Len(pool.conns) = 0)
      BY <2>3, ChangeFirstLemma DEF CheckBackup
    <3> HIDE DEF p
    <3>2. pool' = Refresh(p)
      BY <2>3 DEF CheckBackup, p
    <3>3. PoolInv(Refresh(p)) /\ Len(Refresh(p).conns) = Len(p.conns)
      BY <3>1, InvSubscribed, RefreshLemma
    <3> QED BY <3>1, <3>2, <3>3 DEF PoolInv
  <2> QED BY <1>6, <2>2, <2>3
<1>7. CASE ChangeFirstNextTime \/ Cooled
  BY <1>1, <1>7 DEF ChangeFirstNextTime, Cooled, PoolType
<1> QED BY <1>1, <1>2, <1>3, <1>3a, <1>4, <1>5, <1>6, <1>7, EmptyList DEF Quiet

LEMMA StartKeepsList ==
  ASSUME PoolInv(pool), NEW a \in Addr, NEW fails \in BOOLEAN, Start(a, fails),
         pool.conns # << >>
  PROVE  pool'.conns # << >>
<1>1. Shape(pool) /\ Shape(Refresh(pool)) /\ pool \in PoolType
  BY InvSubscribed, RefreshLemma DEF PoolInv, Shape
<1>2. Refresh(pool).conns # << >>
  BY <1>1, EmptyList, RefreshKeepsLength
<1>3. Insert(pool, <<a>>).conns # << >>
  <2>1. Insert(pool, <<a>>).conns = pool.conns \o <<a>>
    BY <1>1 DEF Insert, PoolType
  <2>2. pool.conns \in Seq(Addr)
    BY <1>1 DEF PoolType
  <2> QED BY <2>1, <2>2
<1> QED BY <1>2, <1>3 DEF Start

-----------------------------------------------------------------------------
LEMMA Invariance == Spec => []Inv
<1> QED BY InitInv, NextInv, PTL DEF Spec

(* Every reachable state has the type the module declares.                 *)
THEOREM TypeCorrect == Spec => []TypeOK
<1>1. Inv => TypeOK
  BY DEF Inv
<1> QED BY <1>1, Invariance, PTL

(* No front is connected twice and the list respects its limit, for every  *)
(* limit and every mix of replies, failing connects and closes.            *)
THEOREM PoolBounded == Spec => []NoDuplicates
<1>1. Inv => NoDuplicates
  BY DEF Inv, PoolInv, Shape, Listed, NoDuplicates
<1> QED BY <1>1, Invariance, PTL

(* For every number of fronts: once a joined front has been given a         *)
(* subscription, the head of the list has joined.  So the null connection  *)
(* is closed only where all who have joined did so in the old protocol.    *)
THEOREM HeadCorrect == Spec => []HeadLoggedIn
<1>1. Inv => HeadLoggedIn
  BY DEF Inv, PoolInv, HeadKnown, HeadLoggedIn
<1> QED BY <1>1, Invariance, PTL

(* At most one connection carries the full subscription: the joined head.  *)
THEOREM OneMainCorrect == Spec => []OneMain
<1>1. Inv => OneMain
  BY DEF Inv, PoolInv, MainOK, OneMain
<1> QED BY <1>1, Invariance, PTL

-----------------------------------------------------------------------------
(* No step but a join of the new protocol lets belief and word part.       *)
LEMMA GrowWord ==
  ASSUME PoolInv(pool), Grow
  PROVE  SameWord(pool, pool')
<1>1. /\ PoolInv(Refresh(pool)) /\ SameWord(pool, Refresh(pool))
      /\ Refresh(pool).tcp = pool.tcp /\ Len(Refresh(pool).conns) = Len(pool.conns)
  BY InvSubscribed, RefreshLemma
<1>2. ASSUME NEW a \in Addr, NEW fails \in BOOLEAN, Start(a, fails)
      PROVE  SameWord(pool, pool')
  <2>1. CASE ~ CanStart(a) \/ fails
    <3>1. pool' = pool \/ pool' = Refresh(pool)
      BY <1>2, <2>1 DEF Start
    <3> QED BY <1>1, <3>1 DEF SameWord
  <2>2. CASE CanStart(a) /\ ~ fails
    <3>1. pool' = Insert(pool, <<a>>)
      BY <1>2, <2>2 DEF Start
    <3>2. pool'.msg = pool.msg /\ pool'.told = pool.told
      BY <3>1 DEF Insert, PoolInv, Shape, PoolType
    <3> QED BY <3>2 DEF SameWord
  <2> QED BY <2>1, <2>2
<1>3. ASSUME NEW a \in pool.asked, NEW added \in NewFronts,
             NEW fails \in BOOLEAN, NEW last \in BOOLEAN,
             BackupRes(a, added, fails, last)
      PROVE  SameWord(pool, pool')
  <2> DEFINE p == IF fails THEN Refresh(pool) ELSE pool
             q == Insert(p, added)
             r == [q EXCEPT !.asked = @ \ {a}]
  <2>1. PoolInv(p) /\ SameWord(pool, p)
    BY <1>1 DEF SameWord
  <2>2. pool' = IF last THEN r ELSE q
    BY <1>3 DEF BackupRes
  <2> HIDE DEF p
  <2>3. p \in PoolType
    BY <2>1 DEF PoolInv, Shape
  <2>4. /\ q.msg = p.msg /\ q.told = p.told /\ r.msg = p.msg /\ r.told = p.told
    BY <2>3 DEF Insert, PoolType
  <2> HIDE DEF q, r
  <2> QED BY <2>1, <2>2, <2>4 DEF SameWord
<1> QED BY <1>2, <1>3 DEF Grow

LEMMA HandshakeWord ==
  ASSUME PoolInv(pool), NEW a \in Addr, Handshake(a) \/ Udp(a), ~ Joined(a)
  PROVE  SameWord(pool, pool')
<1>1. pool \in PoolType
  BY DEF PoolInv, Shape
<1>2. CASE \/ Connected(a) \/ \E modern \in BOOLEAN : KeyExchanged(a, modern)
           \/ Refused(a) \/ Udp(a)
  <2>1. pool'.msg = pool.msg /\ pool'.told = pool.told
    BY <1>1, <1>2 DEF Connected, KeyExchanged, Refused, Udp, UdpRegistered, UdpTimeout,
                      PoolType
  <2> QED BY <2>1 DEF SameWord
<1>3. CASE Synced(a)
  BY <1>3, SyncedLemma DEF Synced
<1>4. CASE Closed(a)
  <2> DEFINE e == EraseConnection(pool, a)
  <2>1. a \in Members(pool) /\ pool' = Refresh(e)
    BY <1>4 DEF Closed
  <2>2. Shape(e) /\ Subscribed(e) /\ ToldOK(e, {}) /\ SameWord(pool, e)
    BY <2>1, EraseLemma
  <2> HIDE DEF e
  <2>3. SameWord(e, pool')
    BY <2>1, <2>2, RefreshLemma
  <2> QED BY <2>2, <2>3, SameWordTwice
<1> QED BY <1>2, <1>3, <1>4 DEF Handshake

LEMMA StepWord ==
  ASSUME Inv, [Next]_vars, \A a \in Addr : ~ Joined(a)
  PROVE  SameWord(pool, pool')
<1>1. PoolInv(pool) /\ pool \in PoolType /\ Shape(pool)
  BY DEF Inv, PoolInv, Shape
<1>2. CASE Grow
  BY <1>1, <1>2, GrowWord
<1>3. CASE \E a \in Addr : Handshake(a) \/ Udp(a)
  BY <1>1, <1>3, HandshakeWord
<1>4. CASE SessionMain
  <2>1. pool'.msg = pool.msg /\ pool'.told = pool.told
    BY <1>1, <1>4, GetBackUpLemma DEF SessionMain
  <2> QED BY <2>1 DEF SameWord
<1>5. CASE ChangeMain
  BY <1>1, <1>5, ChangeFirstLemma DEF ChangeMain
<1>6. CASE CheckBackup
  <2> DEFINE p == IF change THEN ChangeFirst(pool) ELSE pool
  <2>1. PoolInv(p) /\ SameWord(pool, p)
    BY <1>1, <1>6, ChangeFirstLemma DEF CheckBackup, SameWord
  <2>2. pool' = Refresh(p)
    BY <1>6 DEF CheckBackup
  <2> HIDE DEF p
  <2>3. SameWord(p, pool')
    BY <2>1, <2>2, InvSubscribed, RefreshLemma
  <2> QED BY <2>1, <2>3, SameWordTwice
<1>7. CASE \/ \E s \in {"main", "vice"} : InfoConnected(s) \/ InfoClosed(s)
           \/ ChangeFirstNextTime \/ Cooled \/ UNCHANGED vars
  <2>1. pool'.msg = pool.msg /\ pool'.told = pool.told
    BY <1>1, <1>7 DEF InfoConnected, InfoClosed, ChangeFirstNextTime, Cooled, vars,
                      PoolType
  <2> QED BY <2>1 DEF SameWord
<1> QED BY <1>2, <1>3, <1>4, <1>5, <1>6, <1>7 DEF Next

(* Where they part is the head that joins after others, for the            *)
(* compositions as well.                                                   *)
LEMMA ToldStep ==
  ASSUME Inv, [Next]_vars, NEW a \in LoggedIn(pool')
  PROVE  /\ Joined(a) => pool'.msg[a] # "none"
         /\ \/ pool'.told[a] = pool'.msg[a]
            \/ /\ a = pool'.conns[1]
               /\ \/ pool.told[a] # pool.msg[a]
                  \/ Joined(a) /\ a = pool.conns[1] /\ LoggedIn(pool) # {}
<1>1. PoolInv(pool) /\ PoolInv(pool') /\ a \in Addr
  BY NextInv DEF Inv, LoggedIn
<1>2. pool'.told[a] # pool'.msg[a] => a = pool'.conns[1]
  BY <1>1 DEF PoolInv, ToldOK, MainOK
<1>3. CASE \A b \in Addr : ~ Joined(b)
  <2>1. SameWord(pool, pool')
    BY <1>3, StepWord
  <2> QED BY <1>1, <1>2, <1>3, <2>1 DEF SameWord
<1>4. ASSUME NEW b \in Addr, Joined(b), b # a
      PROVE  \/ pool'.told[a] = pool'.msg[a]
             \/ pool'.told[a] = pool.told[a] /\ pool'.msg[a] = pool.msg[a]
  BY <1>1, <1>4, SubscribeLemma DEF Joined
<1>5. ASSUME Joined(a)
      PROVE  /\ pool'.msg[a] # "none"
             /\ pool'.told[a] # pool'.msg[a] => a = pool.conns[1] /\ LoggedIn(pool) # {}
  BY <1>1, <1>5, SubscribeLemma DEF Joined
<1> QED BY <1>2, <1>3, <1>4, <1>5

(* For every number of fronts: a front that joins in the new protocol has  *)
(* been told something, and what a front was told is what the client       *)
(* believes, except of a head that joined after others; that one is the    *)
(* head after every step that leaves it mistold.                           *)
THEOREM ToldCorrect == Spec => ToldAgrees
<1>1. Inv /\ [Next]_vars
      => \A a \in LoggedIn(pool') :
           /\ Joined(a) => pool'.msg[a] # "none"
           /\ \/ pool'.told[a] = pool'.msg[a]
              \/ /\ a = pool'.conns[1]
                 /\ \/ pool.told[a] # pool.msg[a]
                    \/ Joined(a) /\ a = pool.conns[1] /\ LoggedIn(pool) # {}
  BY ToldStep
<1> QED BY <1>1, Invariance, PTL DEF Spec, ToldAgrees

-----------------------------------------------------------------------------
(* What a handler's step from p to q keeps of the main connection and of   *)
(* the joined ones, unless it is a close: an action property of the pool   *)
(* is one of its conjuncts.                                                *)
Kept(p, q) ==
  /\ MainServes(p) => MainServes(q)
  /\ HeadReady(p) => /\ HeadReady(q)
                     /\ q.conns[1] = p.conns[1] \/ (p.cool /\ ~ q.cool)
  /\ \A a \in LoggedIn(p) : \/ q.tcp[a] = "TCP_LOGIN"
                            \/ Cardinality(LoggedIn(q)) >= 2

\* Most helpers disturb nothing at all.
Undisturbed(p, q) ==
  /\ MainServes(p) => MainServes(q)
  /\ HeadReady(p) => HeadReady(q) /\ q.conns[1] = p.conns[1]
  /\ LoggedIn(q) = LoggedIn(p)
  /\ q.cool = p.cool

LEMMA UndisturbedKept ==
  ASSUME NEW p, NEW q, Undisturbed(p, q)
  PROVE  Kept(p, q)
<1> QED BY DEF Undisturbed, Kept, LoggedIn

LEMMA KeptThenUndisturbed ==
  ASSUME NEW p, NEW q, NEW r, Kept(p, q), Undisturbed(q, r)
  PROVE  Kept(p, r)
<1>1. \A a \in Addr : q.tcp[a] = "TCP_LOGIN" => r.tcp[a] = "TCP_LOGIN"
  BY DEF Undisturbed, LoggedIn
<1>2. \A a \in LoggedIn(p) : a \in Addr
  BY DEF LoggedIn
<1>3. HeadReady(p) => /\ HeadReady(r)
                      /\ r.conns[1] = p.conns[1] \/ (p.cool /\ ~ r.cool)
  BY DEF Kept, Undisturbed
<1>4. MainServes(p) => MainServes(r)
  BY DEF Kept, Undisturbed
<1>5. LoggedIn(r) = LoggedIn(q)
  BY DEF Undisturbed
<1> QED BY <1>1, <1>2, <1>3, <1>4, <1>5 DEF Kept

(* Nothing of the head and of the joined connections changes.              *)
LEMMA SameUndisturbed ==
  ASSUME NEW p, NEW q, q.conns = p.conns, q.msg = p.msg, q.cool = p.cool, Shape(p),
         \A a \in Addr : q.tcp[a] = "TCP_LOGIN" <=> p.tcp[a] = "TCP_LOGIN"
  PROVE  Undisturbed(p, q)
<1>1. HeadReady(p) => p.conns[1] \in Addr
  BY DEF HeadReady, Shape, PoolType
<1> QED BY <1>1 DEF Undisturbed, MainServes, HeadReady, LoggedIn

(* With a head that has joined, SetSyncMessage leaves the list and makes   *)
(* the head serve.                                                         *)
LEMMA SyncServes ==
  ASSUME NEW p, Shape(p), HeadReady(p)
  PROVE  LET q == SetSyncMessage(p)
         IN  /\ q.conns = p.conns /\ q.tcp = p.tcp /\ q.cool = p.cool
             /\ MainServes(q) /\ q \in PoolType
<1>1. p \in PoolType /\ p.conns[1] \in Addr
  BY DEF Shape, PoolType, HeadReady
<1>2. CASE p.msg[p.conns[1]] = "ALL"
  <2>1. SetSyncMessage(p) = p
    BY <1>2 DEF SetSyncMessage, HeadReady
  <2> QED BY <1>1, <1>2, <2>1 DEF MainServes
<1>3. CASE p.msg[p.conns[1]] # "ALL"
  <2> DEFINE q == Promote(p)
  <2>1. SetSyncMessage(p) = q
    BY <1>3 DEF SetSyncMessage, HeadReady
  <2>2. /\ q.conns = p.conns /\ q.tcp = p.tcp /\ q.cool = p.cool
        /\ q.msg[p.conns[1]] = "ALL"
    BY <1>1 DEF Promote, PoolType
  <2>3. q \in PoolType
    BY <1>1 DEF Promote, PoolType, Message
  <2> HIDE DEF q
  <2> QED BY <2>1, <2>2, <2>3 DEF MainServes, HeadReady
<1> QED BY <1>2, <1>3

LEMMA RefreshServes ==
  ASSUME NEW p, Shape(p), HeadReady(p)
  PROVE  LET q == Refresh(p)
         IN  /\ q.conns = p.conns /\ q.tcp = p.tcp
             /\ MainServes(q)
<1> DEFINE r == IF Len(p.conns) = 1 THEN GetBackUpFronts(p) ELSE p
<1>1. Shape(r) /\ r.conns = p.conns /\ r.tcp = p.tcp
  BY GetBackUpLemma
<1>2. Refresh(p) = SetSyncMessage(r)
  BY DEF Refresh
<1> HIDE DEF r
<1>3. HeadReady(r)
  BY <1>1 DEF HeadReady
<1> QED BY <1>1, <1>2, <1>3, SyncServes

LEMMA RefreshUndisturbed ==
  ASSUME NEW p, PoolInv(p)
  PROVE  Undisturbed(p, Refresh(p))
<1>1. Refresh(p).tcp = p.tcp /\ Refresh(p).cool = p.cool
  BY InvSubscribed, RefreshLemma
<1> QED BY <1>1, RefreshServes DEF PoolInv, Undisturbed, MainServes, LoggedIn

(* ChangeFirst may close the main connection, and then leaves a subscribed *)
(* successor and two joined connections.                                   *)
LEMMA ChangeFirstKept ==
  ASSUME NEW p, PoolInv(p), ~ NullClose(p)
  PROVE  LET q == ChangeFirst(p)
         IN  Kept(p, q)
<1>1. CASE ~ p.cool
  BY <1>1 DEF ChangeFirst, Kept, LoggedIn
<1>2. CASE p.cool
  <2> DEFINE r == [p EXCEPT !.cool = FALSE]
             q == ChangeFirst(p)
  <2>1. /\ p \in PoolType /\ p.tcp \in [Addr -> TcpStatus]
    BY DEF PoolInv, Shape, PoolType
  <2>2. /\ r \in PoolType /\ r.conns = p.conns /\ r.tcp = p.tcp /\ r.msg = p.msg
        /\ r.told = p.told /\ r.cool = FALSE /\ r.asked = p.asked
    BY <2>1 DEF PoolType
  <2> HIDE DEF r
  <2>3. PoolInv(r) /\ LoggedIn(r) = LoggedIn(p)
    BY <2>2 DEF PoolInv, Shape, Listed, HeadKnown, MainOK, ToldOK, LoggedIn, HeadReady
  <2>4. CASE Cardinality(LoggedIn(p)) <= 2
    <3> DEFINE s == SwapFirst(GetBackUpFronts(r))
    <3>1. q = SetSyncMessage(s)
      BY <1>2, <2>4 DEF ChangeFirst, r
    <3>2. Shape(s) /\ HeadOK(s) /\ s.tcp = p.tcp /\ s.cool = FALSE
          /\ s.msg = p.msg /\ s.told = p.told
      BY <2>2, <2>3, GetBackUpLemma, SwapFirstLemma DEF PoolInv
    <3> HIDE DEF s, q
    <3>3. q.tcp = p.tcp /\ q.cool = FALSE
      <4>1. Subscribed(s) /\ ToldOK(s, {})
        BY <2>2, <2>3, <3>2
           DEF PoolInv, MainOK, HeadOK, HeadReady, Subscribed, ToldOK, LoggedIn,
               Shape, PoolType
      <4> QED BY <4>1, <3>1, <3>2, SyncLemma
    <3>4. ASSUME HeadReady(p) PROVE MainServes(q)
      <4>1. LoggedIn(s) # {}
        BY <2>1, <3>2, <3>4 DEF HeadReady, LoggedIn, PoolType
      <4>2. HeadReady(s)
        BY <3>2, <4>1 DEF HeadOK
      <4> QED BY <3>1, <3>2, <4>2, SyncServes
    <3>5. \A a \in LoggedIn(p) : q.tcp[a] = "TCP_LOGIN"
      BY <3>3 DEF LoggedIn
    <3>6. q.cool = FALSE
      BY <3>3
    <3> QED BY <1>2, <3>4, <3>5, <3>6 DEF q, Kept, MainServes
  <2>5. CASE ~ (Cardinality(LoggedIn(p)) <= 2)
    <3> DEFINE h == r.conns[1]
               e == EraseConnection(r, h)
               s == SwapFirst(e)
    <3>1. q = SetSyncMessage(s)
      BY <1>2, <2>2, <2>5 DEF ChangeFirst, r
    <3>2. HeadReady(r)
      <4>1. IsFiniteSet(LoggedIn(p)) /\ Cardinality(LoggedIn(p)) \in Nat
        BY FiniteJoined, FS_CardinalityType DEF PoolInv
      <4>2. HeadReady(p)
        BY <4>1, <1>2, <2>5 DEF NullClose
      <4> QED BY <4>2, <2>2 DEF HeadReady
    <3>3. h \in Members(r) /\ h \in Addr
      BY <3>2, <2>2 DEF HeadReady, Members, PoolType
    <3>4. /\ Shape(e) /\ ToldOK(e, {}) /\ Subscribed(e) /\ e.cool = r.cool
          /\ e.tcp = [r.tcp EXCEPT ![h] = "NONE"]
          /\ e.msg = [r.msg EXCEPT ![h] = "none"]
      BY <2>3, <3>3, EraseLemma
    <3> HIDE DEF e, q
    <3>5. \A a \in Addr : e.msg[a] # "ALL"
      BY <2>2, <2>3, <3>3, <3>4 DEF PoolInv, MainOK, PoolType
    <3>6. /\ Shape(s) /\ HeadOK(s) /\ s.tcp = e.tcp /\ s.msg = e.msg
          /\ s.told = e.told /\ s.cool = e.cool
      BY <3>4, SwapFirstLemma
    <3> HIDE DEF s, h
    <3>7. Subscribed(s) /\ ToldOK(s, {})
      BY <3>4, <3>5, <3>6 DEF Subscribed, ToldOK, HeadReady, Shape, PoolType
    <3>8. q.tcp = e.tcp /\ q.cool = FALSE
      BY <2>2, <3>1, <3>4, <3>6, <3>7, SyncLemma
    <3>9. LoggedIn(q) = LoggedIn(p) \ {h}
      BY <2>1, <2>2, <3>4, <3>8 DEF LoggedIn
    <3>10. Cardinality(LoggedIn(q)) >= 2
      <4>1. IsFiniteSet(LoggedIn(p))
        BY FiniteJoined DEF PoolInv
      <4>2. Cardinality(LoggedIn(p)) \in Nat
        BY <4>1, FS_CardinalityType
      <4>3. \/ Cardinality(LoggedIn(p) \ {h}) = Cardinality(LoggedIn(p))
            \/ Cardinality(LoggedIn(p) \ {h}) = Cardinality(LoggedIn(p)) - 1
        BY <4>1, FS_RemoveElement
      <4> QED BY <2>5, <3>9, <4>2, <4>3
    <3>11. MainServes(q)
      <4>1. LoggedIn(s) = LoggedIn(q)
        BY <3>6, <3>8 DEF LoggedIn
      <4>2. LoggedIn(s) # {}
        BY <3>10, <4>1, FS_EmptySet
      <4>3. HeadReady(s)
        BY <3>6, <4>2 DEF HeadOK
      <4> QED BY <3>1, <3>6, <4>3, SyncServes
    <3> QED BY <1>2, <3>8, <3>10, <3>11 DEF q, Kept, MainServes
  <2> QED BY <2>4, <2>5
<1> QED BY <1>1, <1>2

(* A join adds to the joined connections and leaves a head that has joined *)
(* where it is.                                                            *)
LEMMA SubscribeKept ==
  ASSUME NEW p, PoolInv(p), NEW a \in Addr, p.tcp[a] = "TCP_ENCODE",
         NEW m, m = IF LoggedIn(p) = {} THEN "ALL" ELSE "SEQUENCE"
  PROVE  Kept(p, Subscribe(LoginSuccess(p, a), a, m))
<1> DEFINE l == JoinRecord(p, a, m)
           s == SetSyncMessage(l)
           q == Subscribe(LoginSuccess(p, a), a, m)
<1>1. \A b \in LoggedIn(p) : q.tcp[b] = "TCP_LOGIN"
  <2>1. \A b \in Addr : b # a => q.tcp[b] = p.tcp[b]
    BY SubscribeLemma
  <2> QED BY <2>1 DEF LoggedIn
<1>2. ASSUME HeadReady(p) PROVE MainServes(q) /\ q.conns = p.conns
  <2>1. p.tcp \in [Addr -> TcpStatus]
    BY DEF PoolInv, Shape, PoolType
  <2>2. /\ Shape(l) /\ l.conns = p.conns
        /\ l.tcp = [p.tcp EXCEPT ![a] = "TCP_LOGIN"]
        /\ l.msg = [p.msg EXCEPT ![a] = m]
        /\ l.told = p.told /\ l.cool = p.cool /\ l.asked = p.asked
        /\ \A b \in Addr : b # a => l.udp[b] = p.udp[b]
    <3>1. m \in Message
      BY DEF Message
    <3> QED BY <3>1, JoinRecorded
  <2>3. q = [s EXCEPT !.told = [@ EXCEPT ![a] = m]]
    BY DEF Subscribe, JoinRecord
  <2> HIDE DEF l, q
  <2>4. HeadReady(l)
    BY <1>2, <2>1, <2>2 DEF HeadReady, PoolInv, Shape, PoolType
  <2>5. s.conns = l.conns /\ MainServes(s) /\ s \in PoolType
    BY <2>2, <2>4, SyncServes
  <2> HIDE DEF s
  <2>6. q.conns = s.conns /\ q.tcp = s.tcp /\ q.msg = s.msg
    BY <2>3, <2>5 DEF PoolType
  <2> QED BY <2>2, <2>5, <2>6 DEF MainServes, HeadReady
<1> QED BY <1>1, <1>2 DEF Kept, MainServes

LEMMA SyncedKept ==
  ASSUME NEW p, PoolInv(p), NEW a \in Addr, p.tcp[a] = "TCP_ENCODE"
  PROVE  Kept(p, LoginSuccess(p, a))
<1> DEFINE q == LoginSuccess(p, a)
<1>1. /\ q.conns = p.conns /\ q.msg = p.msg
      /\ q.tcp = [p.tcp EXCEPT ![a] = "TCP_LOGIN"]
  BY LoginLemma
<1> HIDE DEF q
<1>2. p.tcp \in [Addr -> TcpStatus] /\ (p.conns # << >> => p.conns[1] \in Addr)
  BY DEF PoolInv, Shape, PoolType
<1>3. HeadReady(p) => HeadReady(q)
  BY <1>1, <1>2 DEF HeadReady
<1>4. \A b \in LoggedIn(p) : q.tcp[b] = "TCP_LOGIN"
  BY <1>1, <1>2 DEF LoggedIn
<1> QED BY <1>1, <1>3, <1>4 DEF Kept, MainServes, q

LEMMA InsertUndisturbed ==
  ASSUME NEW p, PoolInv(p),
         NEW s \in Lists(Addr \ Members(p), PoolLimit - Len(p.conns))
  PROVE  Undisturbed(p, Insert(p, s))
<1> DEFINE q == Insert(p, s)
<1>1. /\ PoolInv(q) /\ q.msg = p.msg /\ q.udp = p.udp /\ q.cool = p.cool
      /\ \A a \in Addr : q.tcp[a] = p.tcp[a] \/ p.tcp[a] = "NONE"
      /\ \A a \in Addr : q.tcp[a] = "TCP_LOGIN" <=> p.tcp[a] = "TCP_LOGIN"
      /\ HeadReady(p) => HeadReady(q) /\ q.conns[1] = p.conns[1]
      /\ p.conns # << >> => q.conns # << >> /\ q.conns[1] = p.conns[1]
  BY InsertLemma
<1> HIDE DEF q
<1>2. Undisturbed(p, q)
  BY <1>1 DEF Undisturbed, MainServes, LoggedIn
<1> QED BY <1>2 DEF q

(* The close of one connection: the others stay as they are, and so does a *)
(* head that has joined, if it is another.                                 *)
LEMMA CloseKeepsOthers ==
  ASSUME PoolInv(pool), NEW a \in Addr, Closed(a)
  PROVE  /\ \A b \in LoggedIn(pool) \ {a} : pool'.tcp[b] = "TCP_LOGIN"
         /\ HeadReady(pool) /\ a # pool.conns[1] =>
              pool'.conns[1] = pool.conns[1] /\ MainServes(pool')
<1> DEFINE e == EraseConnection(pool, a)
           k == Position(pool, a)
           n == Len(pool.conns)
<1>1. /\ pool \in PoolType /\ pool.tcp \in [Addr -> TcpStatus]
      /\ pool.conns \in Seq(Addr) /\ n \in Nat
  BY DEF PoolInv, Shape, PoolType
<1>2. a \in Members(pool) /\ pool' = Refresh(e)
  BY DEF Closed
<1>3. /\ Shape(e) /\ Subscribed(e) /\ ToldOK(e, {})
      /\ e.tcp = [pool.tcp EXCEPT ![a] = "NONE"]
  BY <1>2, EraseLemma
<1>4. pool'.tcp = e.tcp
  BY <1>2, <1>3, RefreshLemma
<1>5. \A b \in LoggedIn(pool) \ {a} : pool'.tcp[b] = "TCP_LOGIN"
  <2> HIDE DEF e
  <2> QED BY <1>1, <1>3, <1>4 DEF LoggedIn
<1>6. ASSUME HeadReady(pool), a # pool.conns[1]
      PROVE  pool'.conns[1] = pool.conns[1] /\ MainServes(pool')
  <2>1. k \in 1 .. n /\ pool.conns[k] = a
    BY <1>2 DEF Position, Members
  <2>2. k # 1
    BY <1>6, <2>1
  <2>3. e.conns = Without(pool.conns, k)
    <3>1. Forget(pool, a) \in [conns : Seq(Addr), tcp : [Addr -> TcpStatus],
             udp : [Addr -> UdpStatus], msg : [Addr -> Message],
             told : [Addr -> Message], waiting : SUBSET Addr, asked : SUBSET Addr,
             old : SUBSET Addr, version : BOOLEAN, cool : BOOLEAN]
      BY <1>1 DEF Forget, PoolType, TcpStatus, UdpStatus, Message
    <3> HIDE DEF k
    <3> QED BY <3>1 DEF EraseConnection, k
  <2> HIDE DEF e, k
  <2>4. /\ Len(Without(pool.conns, k)) = n - 1
        /\ 1 \in 1 .. n - 1 /\ Without(pool.conns, k)[1] = pool.conns[1]
    BY <1>1, <2>1, <2>2 DEF Without
  <2>5. HeadReady(e)
    <3>1. e.conns # << >>
      BY <1>1, <2>3, <2>4
    <3>2. pool.conns[1] \in Addr /\ pool.tcp[pool.conns[1]] = "TCP_LOGIN"
      BY <1>1, <1>6 DEF HeadReady
    <3>3. e.conns[1] = pool.conns[1]
      BY <2>3, <2>4
    <3> QED BY <1>1, <1>3, <1>6, <3>1, <3>2, <3>3 DEF HeadReady
  <2> QED BY <1>2, <1>3, <2>3, <2>4, <2>5, RefreshServes
<1> QED BY <1>5, <1>6

(* Every step but a close keeps the main connection and the joined ones.   *)
LEMMA GrowKept ==
  ASSUME PoolInv(pool), Grow
  PROVE  Kept(pool, pool')
<1>1. Undisturbed(pool, pool) /\ Undisturbed(pool, Refresh(pool))
  BY RefreshUndisturbed DEF Undisturbed
<1>2. PoolInv(Refresh(pool)) /\ Members(Refresh(pool)) = Members(pool)
      /\ Len(Refresh(pool).conns) = Len(pool.conns)
  <2>1. PoolInv(Refresh(pool)) /\ Refresh(pool).tcp = pool.tcp
        /\ Len(Refresh(pool).conns) = Len(pool.conns)
    BY InvSubscribed, RefreshLemma
  <2> QED BY <2>1, MembersLemma DEF PoolInv
<1>3. ASSUME NEW a \in Addr, NEW fails \in BOOLEAN, Start(a, fails)
      PROVE  Kept(pool, pool')
  <2>1. CASE ~ CanStart(a) \/ fails
    <3>1. pool' = pool \/ pool' = Refresh(pool)
      BY <1>3, <2>1 DEF Start
    <3> QED BY <1>1, <3>1, UndisturbedKept
  <2>2. CASE CanStart(a) /\ ~ fails
    <3>1. pool' = Insert(pool, <<a>>)
      BY <1>3, <2>2 DEF Start
    <3>2. /\ Len(pool.conns) \in Nat /\ PoolLimit - Len(pool.conns) \in Nat
          /\ 1 \in 0 .. PoolLimit - Len(pool.conns)
      BY <2>2, PoolAssumption DEF CanStart, PoolInv, Shape, PoolType
    <3>3. <<a>> \in [1 .. 1 -> Addr \ Members(pool)]
      BY <2>2 DEF CanStart
    <3>4. <<a>> \in Lists(Addr \ Members(pool), PoolLimit - Len(pool.conns))
      BY <3>2, <3>3 DEF Lists
    <3> QED BY <3>1, <3>4, InsertUndisturbed, UndisturbedKept
  <2> QED BY <2>1, <2>2
<1>4. ASSUME NEW a \in pool.asked, NEW added \in NewFronts,
             NEW fails \in BOOLEAN, NEW last \in BOOLEAN,
             BackupRes(a, added, fails, last)
      PROVE  Kept(pool, pool')
  <2> DEFINE p == IF fails THEN Refresh(pool) ELSE pool
             q == Insert(p, added)
             r == [q EXCEPT !.asked = @ \ {a}]
  <2>1. /\ PoolInv(p) /\ Members(p) = Members(pool)
        /\ Len(p.conns) = Len(pool.conns) /\ Undisturbed(pool, p)
    BY <1>1, <1>2
  <2>2. pool' = IF last THEN r ELSE q
    BY <1>4 DEF BackupRes
  <2> HIDE DEF p
  <2>3. added \in Lists(Addr \ Members(p), PoolLimit - Len(p.conns))
    BY <2>1 DEF NewFronts
  <2>4. PoolInv(q) /\ Undisturbed(p, q)
    BY <2>1, <2>3, InsertLemma, InsertUndisturbed
  <2> HIDE DEF q
  <2>5. q \in PoolType /\ Shape(q)
    BY <2>4 DEF PoolInv, Shape
  <2>6. r.conns = q.conns /\ r.msg = q.msg /\ r.tcp = q.tcp /\ r.cool = q.cool
    BY <2>5 DEF PoolType
  <2> HIDE DEF r
  <2>7. Undisturbed(q, r)
    BY <2>5, <2>6, SameUndisturbed
  <2>8. Kept(pool, q) /\ Kept(pool, r)
    BY <2>1, <2>4, <2>7, UndisturbedKept, KeptThenUndisturbed
  <2> QED BY <2>2, <2>8
<1> QED BY <1>3, <1>4 DEF Grow

LEMMA HandshakeKept ==
  ASSUME PoolInv(pool), NEW a \in Addr, Handshake(a) \/ Udp(a), ~ Closed(a)
  PROVE  Kept(pool, pool')
<1>1. pool \in PoolType /\ pool.tcp \in [Addr -> TcpStatus] /\ Shape(pool)
  BY DEF PoolInv, Shape, PoolType
<1>2. CASE Joined(a)
  <2> DEFINE m == IF LoggedIn(pool) = {} THEN "ALL" ELSE "SEQUENCE"
  <2>1. pool.tcp[a] = "TCP_ENCODE" /\ pool' = Subscribe(LoginSuccess(pool, a), a, m)
    BY <1>2 DEF Joined
  <2> QED BY <2>1, SubscribeKept
<1>2a. CASE Synced(a)
  BY <1>2a, SyncedKept DEF Synced
<1>3. CASE ~ Joined(a) /\ ~ Synced(a)
  <2>1. CASE Connected(a) \/ \E modern \in BOOLEAN : KeyExchanged(a, modern)
    <3>1. /\ pool'.conns = pool.conns /\ pool'.msg = pool.msg
          /\ pool'.cool = pool.cool
          /\ pool.tcp[a] # "TCP_LOGIN"
          /\ \/ pool'.tcp = [pool.tcp EXCEPT ![a] = "TCP_CONNECT"]
             \/ pool'.tcp = [pool.tcp EXCEPT ![a] = "TCP_ENCODE"]
      BY <1>1, <2>1 DEF Connected, KeyExchanged, PoolType
    <3>2. \A b \in Addr : pool'.tcp[b] = "TCP_LOGIN" <=> pool.tcp[b] = "TCP_LOGIN"
      BY <1>1, <3>1
    <3> QED BY <1>1, <3>1, <3>2, SameUndisturbed, UndisturbedKept
  <2>2. CASE Refused(a) \/ Udp(a)
    <3>1. /\ pool'.conns = pool.conns /\ pool'.msg = pool.msg
          /\ pool'.cool = pool.cool /\ pool'.tcp = pool.tcp
      BY <1>1, <2>2 DEF Refused, Udp, UdpRegistered, UdpTimeout, PoolType
    <3> QED BY <1>1, <3>1, SameUndisturbed, UndisturbedKept
  <2> QED BY <1>3, <2>1, <2>2 DEF Handshake
<1> QED BY <1>2, <1>2a, <1>3

LEMMA StepKept ==
  ASSUME PoolInv(pool), [Next]_vars, \A a \in Addr : ~ Closed(a)
  PROVE  Kept(pool, pool')
<1>1. pool \in PoolType /\ Shape(pool) /\ Undisturbed(pool, pool)
  BY DEF PoolInv, Shape, Undisturbed
<1>2. CASE Grow
  BY <1>2, GrowKept
<1>3. CASE \E a \in Addr : Handshake(a) \/ Udp(a)
  BY <1>3, HandshakeKept
<1>4. CASE \E s \in {"main", "vice"} : InfoConnected(s) \/ InfoClosed(s)
  <2>1. pool' = pool
    BY <1>4 DEF InfoConnected, InfoClosed
  <2> QED BY <1>1, <2>1, UndisturbedKept
<1>5. CASE SessionMain
  <2>1. /\ pool'.conns = pool.conns /\ pool'.tcp = pool.tcp
        /\ pool'.msg = pool.msg /\ pool'.cool = pool.cool
    BY <1>1, <1>5, GetBackUpLemma DEF SessionMain
  <2> QED BY <1>1, <2>1, SameUndisturbed, UndisturbedKept
<1>6. CASE ChangeMain
  BY <1>6, ChangeFirstKept DEF ChangeMain
<1>7. CASE CheckBackup
  <2> DEFINE p == IF change THEN ChangeFirst(pool) ELSE pool
  <2>1. PoolInv(p) /\ Kept(pool, p)
    BY <1>1, <1>7, ChangeFirstLemma, ChangeFirstKept, UndisturbedKept DEF CheckBackup
  <2>2. pool' = Refresh(p)
    BY <1>7 DEF CheckBackup
  <2> HIDE DEF p
  <2> QED BY <2>1, <2>2, RefreshUndisturbed, KeptThenUndisturbed
<1>8. CASE Cooled
  <2>1. /\ pool'.conns = pool.conns /\ pool'.tcp = pool.tcp /\ pool'.msg = pool.msg
    BY <1>1, <1>8 DEF Cooled, PoolType
  <2> QED BY <1>1, <2>1 DEF Kept, MainServes, HeadReady, LoggedIn
<1>9. CASE ChangeFirstNextTime \/ UNCHANGED vars
  <2>1. pool' = pool
    BY <1>9 DEF ChangeFirstNextTime, vars
  <2> QED BY <1>1, <2>1, UndisturbedKept
<1> QED BY <1>2, <1>3, <1>4, <1>5, <1>6, <1>7, <1>8, <1>9 DEF Next

(* The three promises about one step, for the compositions as well.        *)
LEMMA MainKeptStep ==
  ASSUME Inv, [Next]_vars, MainServes(pool), ~ MainServes(pool')
  PROVE  Closed(pool.conns[1])
<1>1. PoolInv(pool)
  BY DEF Inv
<1>2. CASE \A a \in Addr : ~ Closed(a)
  BY <1>1, <1>2, StepKept DEF Kept
<1>3. ASSUME NEW a \in Addr, Closed(a), a # pool.conns[1]
      PROVE  MainServes(pool')
  BY <1>1, <1>3, CloseKeepsOthers DEF MainServes
<1> QED BY <1>2, <1>3

LEMMA ThrottledStep ==
  ASSUME Inv, [Next]_vars, HeadReady(pool), pool'.conns # << >>,
         pool'.conns[1] # pool.conns[1]
  PROVE  (pool.cool /\ ~ pool'.cool) \/ Closed(pool.conns[1])
<1>1. PoolInv(pool)
  BY DEF Inv
<1>2. CASE \A a \in Addr : ~ Closed(a)
  BY <1>1, <1>2, StepKept DEF Kept
<1>3. ASSUME NEW a \in Addr, Closed(a), a # pool.conns[1]
      PROVE  pool'.conns[1] = pool.conns[1]
  BY <1>1, <1>3, CloseKeepsOthers
<1> QED BY <1>2, <1>3

LEMMA GiveUpStep ==
  ASSUME Inv, [Next]_vars, NEW a \in LoggedIn(pool), a \notin Members(pool'), ~ Closed(a)
  PROVE  Cardinality(LoggedIn(pool')) >= 2
<1>1. PoolInv(pool) /\ Shape(pool')
  BY NextInv DEF Inv, PoolInv
<1>2. a \in Addr /\ pool'.tcp[a] # "TCP_LOGIN"
  BY <1>1, MembersLemma DEF LoggedIn
<1>3. CASE \A b \in Addr : ~ Closed(b)
  BY <1>1, <1>2, <1>3, StepKept DEF Kept
<1>4. CASE \E b \in Addr : Closed(b)
  BY <1>1, <1>2, <1>4, CloseKeepsOthers
<1> QED BY <1>3, <1>4

(* For every number of fronts: a main connection that carries the full     *)
(* subscription stops doing so only in the step in which its own socket    *)
(* closes, whatever SetSyncMessage, SwapFirst and ChangeFirst do meanwhile. *)
THEOREM MainKept == Spec => MainLostOnlyByClose
<1>1. Inv /\ [Next]_vars
      => (MainServes(pool) /\ ~ MainServes(pool)' => Closed(pool.conns[1]))
  BY MainKeptStep DEF MainServes, HeadReady
<1> QED BY <1>1, Invariance, PTL DEF Spec, MainLostOnlyByClose

(* For every number of fronts: a head that has joined is replaced only by  *)
(* a forced change, which needs ten quiet seconds and starts them again,   *)
(* or because its socket closes.                                           *)
THEOREM ChangesApart == Spec => ChangesThrottled
<1>1. Inv /\ [Next]_vars
      => (HeadReady(pool) /\ pool'.conns # << >> /\ pool'.conns[1] # pool.conns[1]
          => (pool.cool /\ ~ pool'.cool) \/ Closed(pool.conns[1]))
  BY ThrottledStep
<1> QED BY <1>1, Invariance, PTL DEF Spec, ChangesThrottled

(* For every number of fronts: the client gives up a joined connection by  *)
(* itself only where two joined ones remain.                               *)
THEOREM TwoStay == Spec => GiveUpLeavesTwo
<1>1. Inv /\ [Next]_vars
      => \A a \in LoggedIn(pool) :
           a \notin Members(pool') => \/ Cardinality(LoggedIn(pool')) >= 2
                                     \/ Closed(a)
  BY GiveUpStep
<1> QED BY <1>1, Invariance, PTL DEF Spec, GiveUpLeavesTwo

-----------------------------------------------------------------------------
(* What of MainRestored needs no fairness.  The ten-second timer runs while *)
(* there are connections, and every run of it leaves the full subscription *)
(* with a main connection, or finds that no front has joined.              *)
Armed == pool.conns # << >> => backupTimer

LEMMA ArmedStep == Inv /\ Armed /\ [Next]_vars => Armed'
<1> SUFFICES ASSUME Inv, Armed, [Next]_vars, pool'.conns # << >> PROVE backupTimer'
  BY DEF Armed
<1>1. CASE Quiet
  <2>1. pool.conns # << >>
    BY <1>1, QuietKeepsList DEF Inv
  <2>2. backupTimer' = backupTimer
    BY <1>1 DEF Quiet, Connected, KeyExchanged, Refused, Joined, Synced, Udp,
                UdpRegistered, UdpTimeout, BackupRes, SessionMain, ChangeMain, ChangeFirstNextTime,
                CheckBackup, Cooled
  <2> QED BY <2>1, <2>2 DEF Armed
<1>2. ASSUME NEW a \in Addr, NEW fails \in BOOLEAN, Start(a, fails) PROVE backupTimer'
  BY <1>2 DEF Start, Armed
<1>3. ASSUME NEW a \in Addr, Closed(a) PROVE backupTimer'
  BY <1>3 DEF Closed, Members, Armed
<1>4. CASE \/ \E s \in {"main", "vice"} : InfoConnected(s) \/ InfoClosed(s)
           \/ UNCHANGED vars
  BY <1>4 DEF InfoConnected, InfoClosed, vars, Armed
<1> QED BY <1>1, <1>2, <1>3, <1>4 DEF Next, Grow, Handshake, Quiet

(* For every number of fronts: as long as the session has a connection,    *)
(* also one that came with a reply to another, the timer is running.       *)
THEOREM TimerArmed == Spec => []Armed
<1>1. Init => Armed
  BY DEF Init, EmptyPool, Armed
<1> QED BY <1>1, ArmedStep, Invariance, PTL DEF Spec

(* For every number of fronts: whatever closes and joins have left, one    *)
(* run of the timer, a change of the main connection included, leaves a    *)
(* joined head where any front has joined, and where the head has joined   *)
(* before, it serves in full.  No step undoes the first: so the second run *)
(* mends what the first one finds.                                         *)
THEOREM CheckMends ==
  Spec => [][/\ CheckBackup => /\ HeadReady(pool') \/ LoggedIn(pool') = {}
                               /\ HeadReady(pool) => MainServes(pool')
             /\ HeadReady(pool) => HeadReady(pool') \/ LoggedIn(pool') = {}]_vars
<1>1. ASSUME Inv, CheckBackup
      PROVE  /\ HeadReady(pool') \/ LoggedIn(pool') = {}
             /\ HeadReady(pool) => MainServes(pool')
  <2> DEFINE p == IF change THEN ChangeFirst(pool) ELSE pool
  <2>1. PoolInv(p) /\ (HeadReady(pool) => HeadReady(p))
    BY <1>1, ChangeFirstLemma, ChangeFirstKept DEF Inv, CheckBackup, Kept
  <2>2. pool' = Refresh(p)
    BY <1>1 DEF CheckBackup
  <2> HIDE DEF p
  <2>3. HeadOK(pool')
    BY <2>1, <2>2, InvSubscribed, RefreshLemma
  <2>4. HeadReady(p) => MainServes(pool')
    BY <2>1, <2>2, RefreshServes DEF PoolInv
  <2> QED BY <2>1, <2>3, <2>4 DEF HeadOK
<1>2. ASSUME Inv, [Next]_vars, HeadReady(pool)
      PROVE  HeadReady(pool') \/ LoggedIn(pool') = {}
  <2>1. CASE \A a \in Addr : ~ Closed(a)
    BY <1>2, <2>1, StepKept DEF Inv, Kept
  <2>2. ASSUME NEW a \in Addr, Closed(a) PROVE HeadOK(pool')
    <3>1. a \in Members(pool) /\ pool' = Refresh(EraseConnection(pool, a))
      BY <2>2 DEF Closed
    <3> QED BY <1>2, <3>1, EraseLemma, RefreshLemma DEF Inv
  <2> QED BY <2>1, <2>2 DEF HeadOK
<1>3. Inv /\ [Next]_vars
      => /\ CheckBackup => /\ HeadReady(pool') \/ LoggedIn(pool') = {}
                           /\ HeadReady(pool) => MainServes(pool')
         /\ HeadReady(pool) => HeadReady(pool') \/ LoggedIn(pool') = {}
  BY <1>1, <1>2
<1> QED BY <1>3, Invariance, PTL DEF Spec

-----------------------------------------------------------------------------
(* What of InfoRestored needs no fairness: a socket for user information is *)
(* lost only by its own close, and a run of the timer that finds a front   *)
(* opens the first one that is lost.                                       *)
Sockets == {"main", "vice"}

Reopened == /\ info'["main"] # "NULL"
            /\ info["main"] # "NULL" => info'["vice"] # "NULL"

LEMMA StartedSockets ==
  ASSUME NEW i \in [Sockets -> InfoStatus], NEW fails \in BOOLEAN
  PROVE  /\ InfoStart(i, fails) \in [Sockets -> InfoStatus]
         /\ \A s \in Sockets : InfoStart(i, fails)[s] = "NULL" => i[s] = "NULL"
         /\ InfoStart(i, fails)["main"] # "NULL"
         /\ i["main"] # "NULL" => InfoStart(i, fails)["vice"] # "NULL"
<1>1. DOMAIN i = Sockets
  OBVIOUS
<1>2. CASE InfoAllAlive(i)
  BY <1>1, <1>2 DEF InfoStart, InfoAllAlive, Sockets
<1>3. CASE ~ InfoAllAlive(i)
  BY <1>3 DEF InfoStart, InfoStatus, Sockets
<1> QED BY <1>2, <1>3

LEMMA StartsLoseNone ==
  ASSUME info \in [Sockets -> InfoStatus], NEW n, NEW i \in InfoStarts(n)
  PROVE  \A s \in Sockets : i[s] = "NULL" => info[s] = "NULL"
<1>1. CASE n = 0
  BY <1>1 DEF InfoStarts
<1>2. CASE n # 0
  <2>1. \/ \E f \in BOOLEAN : i = InfoStart(info, f)
        \/ \E f \in BOOLEAN, g \in BOOLEAN : i = InfoStart(InfoStart(info, f), g)
    BY <1>2 DEF InfoStarts
  <2>2. CASE \E f \in BOOLEAN : i = InfoStart(info, f)
    BY <2>2, StartedSockets
  <2>3. ASSUME NEW f \in BOOLEAN, NEW g \in BOOLEAN, i = InfoStart(InfoStart(info, f), g)
        PROVE  \A s \in Sockets : i[s] = "NULL" => info[s] = "NULL"
    <3> DEFINE j == InfoStart(info, f)
    <3>1. j \in [Sockets -> InfoStatus] /\ \A s \in Sockets : j[s] = "NULL" => info[s] = "NULL"
      BY StartedSockets
    <3> HIDE DEF j
    <3>2. \A s \in Sockets : InfoStart(j, g)[s] = "NULL" => j[s] = "NULL"
      BY <3>1, StartedSockets
    <3> QED BY <2>3, <3>1, <3>2 DEF j
  <2> QED BY <2>1, <2>2, <2>3
<1> QED BY <1>1, <1>2

(* For every number of fronts, whichever sockets fail at once or close     *)
(* while the other is being opened.                                        *)
THEOREM CheckReopens ==
  Spec => [][/\ CheckBackup /\ pool'.conns # << >> => Reopened
             /\ \A s \in Sockets : info[s] # "NULL" /\ info'[s] = "NULL"
                                    => InfoClosed(s)]_vars
<1>1. ASSUME Inv PROVE info \in [Sockets -> InfoStatus]
  BY <1>1 DEF Inv, TypeOK, Sockets
<1>2. ASSUME Inv, CheckBackup, pool'.conns # << >> PROVE Reopened
  <2> DEFINE p == IF change THEN ChangeFirst(pool) ELSE pool
  <2>1. PoolInv(p)
    BY <1>2, ChangeFirstLemma DEF Inv, CheckBackup
  <2>2. pool' = Refresh(p) /\ info' \in InfoStarts(IF p.conns = << >> THEN 0 ELSE 1)
    BY <1>2 DEF CheckBackup
  <2> HIDE DEF p
  <2>3. p.conns # << >>
    BY <1>2, <2>1, <2>2, RefreshKeepsLength DEF PoolInv, Shape
  <2>4. PICK f \in BOOLEAN : info' = InfoStart(info, f)
    BY <2>2, <2>3 DEF InfoStarts
  <2> QED BY <1>1, <1>2, <2>4, StartedSockets DEF Reopened
<1>3. ASSUME Inv, [Next]_vars, NEW s \in Sockets, info[s] # "NULL", info'[s] = "NULL"
      PROVE  InfoClosed(s)
  <2>1. info \in [Sockets -> InfoStatus]
    BY <1>1, <1>3
  <2>2. ASSUME NEW n, info' \in InfoStarts(n) PROVE FALSE
    BY <1>3, <2>1, <2>2, StartsLoseNone
  <2>3. CASE Grow \/ CheckBackup
    BY <2>2, <2>3 DEF Grow, Start, BackupRes, CheckBackup
  <2>4. info' # info
    BY <1>3
  <2>5. CASE \E a \in Addr : Handshake(a) \/ Udp(a)
    <3>1. PICK a \in Addr : Handshake(a) \/ Udp(a)
      BY <2>5
    <3>2. /\ ~ Connected(a) /\ ~ (\E modern \in BOOLEAN : KeyExchanged(a, modern))
          /\ ~ Refused(a)
      BY <2>4 DEF Connected, KeyExchanged, Refused
    <3>3. ~ Joined(a) /\ ~ Synced(a) /\ ~ Closed(a)
      BY <2>4 DEF Joined, Synced, Closed
    <3>4. ~ UdpRegistered(a) /\ ~ UdpTimeout(a)
      BY <2>4 DEF UdpRegistered, UdpTimeout
    <3> QED BY <3>1, <3>2, <3>3, <3>4 DEF Handshake, Udp
  <2>6. CASE SessionMain \/ ChangeMain \/ ChangeFirstNextTime \/ Cooled \/ UNCHANGED vars
    BY <2>4, <2>6 DEF SessionMain, ChangeMain, ChangeFirstNextTime, Cooled, vars
  <2>7. ASSUME NEW t \in Sockets, InfoConnected(t) PROVE FALSE
    BY <1>3, <2>1, <2>7 DEF InfoConnected
  <2>8. ASSUME NEW t \in Sockets, InfoClosed(t) PROVE InfoClosed(s)
    <3>1. t = s
      BY <1>3, <2>1, <2>8 DEF InfoClosed
    <3> QED BY <2>8, <3>1
  <2> QED BY <1>3, <2>3, <2>5, <2>6, <2>7, <2>8 DEF Next, Sockets
<1>4. Inv /\ [Next]_vars
      => /\ CheckBackup /\ pool'.conns # << >> => Reopened
         /\ \A s \in Sockets : info[s] # "NULL" /\ info'[s] = "NULL" => InfoClosed(s)
  BY <1>2, <1>3
<1> QED BY <1>4, Invariance, PTL DEF Spec
=============================================================================
