------------------------ MODULE MicrophoneList_proofs ------------------------
(***************************************************************************)
(* Proofs about a client's copy of the queue of speakers: what the queue   *)
(* promises its viewers, and that a copy which was told whole follows the  *)
(* server and keeps the promises, for any users, guests and bounds.        *)
(***************************************************************************)
EXTENDS MicrophoneList, SequenceTheorems, FiniteSetTheorems, TLAPS

-----------------------------------------------------------------------------
(* What the changes of a queue do to it.                                   *)

\* The helpers for sequences are the same ones under both names.
LEMMA ProperDef ==
  ASSUME NEW q
  PROVE  Viewer!Proper(q) <=> q \in Seq(User) /\ IsInjective(q)
<1> QED BY DEF Viewer!Proper, Viewer!IsInjective, IsInjective

LEMMA HelperDefs ==
  ASSUME NEW q, NEW r
  PROVE  /\ Viewer!ToSet(q) = ToSet(q)
         /\ Viewer!Last(q) = Last(q)
         /\ Viewer!IsStrictPrefix(q, r) <=> IsStrictPrefix(q, r)
<1> QED BY DEF Viewer!ToSet, ToSet, Viewer!Last, Last, Viewer!IsStrictPrefix,
               IsStrictPrefix, Viewer!IsPrefix, IsPrefix

\* Where u is in a queue that has him.
LEMMA PlaceFacts ==
  ASSUME NEW q, Viewer!Proper(q), NEW u \in ToSet(q)
  PROVE  /\ Viewer!Place(q, u) \in 1 .. Len(q) /\ q[Viewer!Place(q, u)] = u
         /\ Len(q) \in Nat /\ DOMAIN q = 1 .. Len(q)
         /\ \A i \in 1 .. Len(q) : q[i] = u => i = Viewer!Place(q, u)
<1>1. q \in Seq(User) /\ Len(q) \in Nat /\ DOMAIN q = 1 .. Len(q)
  BY ProperDef
<1>2. \E i \in DOMAIN q : q[i] = u
  BY DEF ToSet
<1>3. Viewer!Place(q, u) \in DOMAIN q /\ q[Viewer!Place(q, u)] = u
  BY <1>2 DEF Viewer!Place
<1> QED BY <1>1, <1>3, ProperDef DEF IsInjective

\* Who waits has a place behind the first.
LEMMA WaitingFacts ==
  ASSUME NEW q, Viewer!Proper(q), NEW u \in Viewer!Waiting(q)
  PROVE  /\ u \in ToSet(q) /\ Viewer!Place(q, u) \in 2 .. Len(q)
         /\ u # Last(q) => Viewer!Place(q, u) < Len(q)
         /\ u # q[2] => Viewer!Place(q, u) > 2
<1>1. q \in Seq(User) /\ Len(q) \in Nat /\ DOMAIN q = 1 .. Len(q)
  BY ProperDef
<1>2. PICK i \in 2 .. Len(q) : u = q[i]
  BY DEF Viewer!Waiting
<1>3. u \in ToSet(q)
  BY <1>1, <1>2 DEF ToSet
<1>4. Viewer!Place(q, u) = i /\ q[Viewer!Place(q, u)] = u
  BY <1>1, <1>2, <1>3, PlaceFacts
<1> QED BY <1>1, <1>2, <1>3, <1>4 DEF Last

\* The elements of a queue after each change.
LEMMA ExchangeFacts ==
  ASSUME NEW q, Viewer!Proper(q), NEW i \in 2 .. Len(q) - 1
  PROVE  /\ Viewer!Exchange(q, i) \in Seq(User) /\ Len(Viewer!Exchange(q, i)) = Len(q)
         /\ \A j \in 1 .. Len(q) :
              Viewer!Exchange(q, i)[j]
                = IF j = i THEN q[i + 1] ELSE IF j = i + 1 THEN q[i] ELSE q[j]
<1>1. /\ q \in Seq(User) /\ Len(q) \in Nat /\ DOMAIN q = 1 .. Len(q)
      /\ q \in [1 .. Len(q) -> User]
  BY ProperDef
<1> DEFINE e == Viewer!Exchange(q, i)
<1>2. /\ e \in [1 .. Len(q) -> User]
      /\ \A j \in 1 .. Len(q) :
           e[j] = IF j = i THEN q[i + 1] ELSE IF j = i + 1 THEN q[i] ELSE q[j]
  BY <1>1 DEF Viewer!Exchange
<1> HIDE DEF e
<1>3. e \in Seq(User) /\ Len(e) = Len(q)
  BY <1>1, <1>2
<1> QED BY <1>2, <1>3 DEF e

LEMMA SecondFacts ==
  ASSUME NEW q, Viewer!Proper(q), NEW u \in ToSet(q), Viewer!Place(q, u) > 2
  PROVE  /\ Viewer!Second(q, u) \in Seq(User) /\ Len(Viewer!Second(q, u)) = Len(q)
         /\ \A j \in 1 .. Len(q) :
              Viewer!Second(q, u)[j]
                = IF j = 2 THEN q[Viewer!Place(q, u)]
                  ELSE IF j > 2 /\ j <= Viewer!Place(q, u) THEN q[j - 1] ELSE q[j]
<1>1. /\ q \in Seq(User) /\ Len(q) \in Nat /\ DOMAIN q = 1 .. Len(q)
      /\ q \in [1 .. Len(q) -> User]
  BY ProperDef
<1> DEFINE p == Viewer!Place(q, u)
           s == Viewer!Second(q, u)
<1>2. p \in 3 .. Len(q) /\ q[p] = u
  BY PlaceFacts
<1>3. /\ s \in [1 .. Len(q) -> User]
      /\ \A j \in 1 .. Len(q) : s[j] = IF j = 2 THEN q[p]
                                       ELSE IF j > 2 /\ j <= p THEN q[j - 1] ELSE q[j]
  BY <1>1, <1>2 DEF Viewer!Second
<1> HIDE DEF s
<1>4. s \in Seq(User) /\ Len(s) = Len(q)
  BY <1>1, <1>3
<1> QED BY <1>3, <1>4 DEF s

LEMMA LeftFacts ==
  ASSUME NEW q, Viewer!Proper(q), NEW u \in ToSet(q)
  PROVE  /\ Viewer!Left(q, u) \in Seq(User) /\ Len(Viewer!Left(q, u)) = Len(q) - 1
         /\ \A j \in 1 .. Len(q) - 1 :
              Viewer!Left(q, u)[j] = IF j < Viewer!Place(q, u) THEN q[j] ELSE q[j + 1]
<1>1. /\ q \in Seq(User) /\ Len(q) \in Nat /\ DOMAIN q = 1 .. Len(q)
      /\ q \in [1 .. Len(q) -> User]
  BY ProperDef
<1> DEFINE p == Viewer!Place(q, u)
           l == Viewer!Left(q, u)
           n == Len(q) - 1
<1>2. p \in 1 .. Len(q)
  BY PlaceFacts
<1>3. /\ l \in [1 .. n -> User]
      /\ \A j \in 1 .. n : l[j] = IF j < p THEN q[j] ELSE q[j + 1]
  BY <1>1, <1>2 DEF Viewer!Left
<1>4. n \in Nat
  BY <1>1, <1>2
<1> HIDE DEF l, n
<1>5. l \in Seq(User) /\ Len(l) = n
  BY <1>3, <1>4
<1> QED BY <1>3, <1>5 DEF l, n

\* No change brings anybody in twice, and only the front's leaving moves the front.
LEMMA ExchangeProper ==
  ASSUME NEW q, Viewer!Proper(q), NEW i \in 2 .. Len(q) - 1
  PROVE  Viewer!Proper(Viewer!Exchange(q, i)) /\ Head(Viewer!Exchange(q, i)) = Head(q)
<1>1. q \in Seq(User) /\ Len(q) \in Nat /\ DOMAIN q = 1 .. Len(q) /\ IsInjective(q)
  BY ProperDef
<1> DEFINE e == Viewer!Exchange(q, i)
<1>2. /\ e \in Seq(User) /\ Len(e) = Len(q) /\ DOMAIN e = 1 .. Len(q)
      /\ \A j \in 1 .. Len(q) :
           e[j] = IF j = i THEN q[i + 1] ELSE IF j = i + 1 THEN q[i] ELSE q[j]
  BY ExchangeFacts, LenProperties
<1> HIDE DEF e
<1>3. IsInjective(e) /\ Head(e) = Head(q)
  BY <1>1, <1>2 DEF IsInjective
<1> QED BY <1>2, <1>3, ProperDef DEF e

LEMMA SecondProper ==
  ASSUME NEW q, Viewer!Proper(q), NEW u \in ToSet(q), Viewer!Place(q, u) > 2
  PROVE  Viewer!Proper(Viewer!Second(q, u)) /\ Head(Viewer!Second(q, u)) = Head(q)
<1>1. q \in Seq(User) /\ Len(q) \in Nat /\ DOMAIN q = 1 .. Len(q) /\ IsInjective(q)
  BY ProperDef
<1> DEFINE p == Viewer!Place(q, u)
           s == Viewer!Second(q, u)
<1>2. p \in 3 .. Len(q)
  BY PlaceFacts
<1>3. /\ s \in Seq(User) /\ Len(s) = Len(q) /\ DOMAIN s = 1 .. Len(q)
      /\ \A j \in 1 .. Len(q) : s[j] = IF j = 2 THEN q[p]
                                       ELSE IF j > 2 /\ j <= p THEN q[j - 1] ELSE q[j]
  BY SecondFacts, LenProperties
<1> HIDE DEF s, p
<1>4. IsInjective(s) /\ Head(s) = Head(q)
  BY <1>1, <1>2, <1>3 DEF IsInjective
<1> QED BY <1>3, <1>4, ProperDef DEF s

LEMMA LeftProper ==
  ASSUME NEW q, Viewer!Proper(q), NEW u \in ToSet(q)
  PROVE  Viewer!Proper(Viewer!Left(q, u)) /\ (u # Head(q) => Head(Viewer!Left(q, u)) = Head(q))
<1>1. q \in Seq(User) /\ Len(q) \in Nat /\ DOMAIN q = 1 .. Len(q) /\ IsInjective(q)
  BY ProperDef
<1> DEFINE p == Viewer!Place(q, u)
           l == Viewer!Left(q, u)
<1>2. p \in 1 .. Len(q) /\ q[p] = u
  BY PlaceFacts
<1>3. /\ l \in Seq(User) /\ Len(l) = Len(q) - 1 /\ DOMAIN l = 1 .. Len(q) - 1
      /\ \A j \in 1 .. Len(q) - 1 : l[j] = IF j < p THEN q[j] ELSE q[j + 1]
  BY LeftFacts, LenProperties
<1> HIDE DEF l, p
<1>4. IsInjective(l)
  <2>1. ASSUME NEW a \in 1 .. Len(q) - 1, NEW b \in 1 .. Len(q) - 1, l[a] = l[b]
        PROVE  a = b
    <3> DEFINE At(i) == IF i < p THEN i ELSE i + 1
    <3>1. l[a] = q[At(a)] /\ l[b] = q[At(b)] /\ At(a) \in DOMAIN q /\ At(b) \in DOMAIN q
      BY <1>1, <1>2, <1>3
    <3>2. At(a) = At(b)
      BY <1>1, <2>1, <3>1 DEF IsInjective
    <3> QED BY <1>2, <3>2
  <2> QED BY <1>3, <2>1 DEF IsInjective
<1>5. u # Head(q) => Head(l) = Head(q)
  <2> SUFFICES ASSUME u # Head(q) PROVE Head(l) = Head(q)
    OBVIOUS
  <2>1. p # 1 /\ 1 \in 1 .. Len(q) - 1
    BY <1>1, <1>2
  <2> QED BY <1>1, <1>2, <1>3, <2>1
<1> QED BY <1>3, <1>4, <1>5, ProperDef DEF l

\* A move keeps everybody, and the speaker where he is.
LEMMA MoveProper ==
  ASSUME NEW q, Viewer!Proper(q), NEW u \in Viewer!Waiting(q)
  PROVE  /\ Viewer!CanLower(q, u) => /\ Viewer!Proper(Viewer!Lowered(q, u))
                                     /\ Head(Viewer!Lowered(q, u)) = Head(q)
         /\ Viewer!CanRaise(q, u) => /\ Viewer!Proper(Viewer!Raised(q, u))
                                     /\ Head(Viewer!Raised(q, u)) = Head(q)
                                     /\ Viewer!Proper(Viewer!Second(q, u))
                                     /\ Head(Viewer!Second(q, u)) = Head(q)
<1>1. /\ Viewer!Place(q, u) \in 2 .. Len(q) /\ u \in ToSet(q)
      /\ u # Last(q) => Viewer!Place(q, u) < Len(q)
      /\ u # q[2] => Viewer!Place(q, u) > 2
      /\ Len(q) \in Nat
  BY WaitingFacts, ProperDef
<1>2. ASSUME Viewer!CanLower(q, u)
      PROVE  Viewer!Proper(Viewer!Lowered(q, u)) /\ Head(Viewer!Lowered(q, u)) = Head(q)
  <2>1. u # Last(q)
    BY <1>2, HelperDefs DEF Viewer!CanLower
  <2>2. Viewer!Place(q, u) \in 2 .. Len(q) - 1
    BY <1>1, <2>1
  <2> QED BY <2>2, ExchangeProper DEF Viewer!Lowered
<1>3. ASSUME Viewer!CanRaise(q, u)
      PROVE  Viewer!Proper(Viewer!Raised(q, u)) /\ Head(Viewer!Raised(q, u)) = Head(q)
  <2>1. Viewer!Place(q, u) - 1 \in 2 .. Len(q) - 1
    BY <1>1, <1>3 DEF Viewer!CanRaise
  <2> QED BY <2>1, ExchangeProper DEF Viewer!Raised
<1>4. ASSUME Viewer!CanRaise(q, u)
      PROVE  Viewer!Proper(Viewer!Second(q, u)) /\ Head(Viewer!Second(q, u)) = Head(q)
  BY <1>1, <1>4, SecondProper DEF Viewer!CanRaise
<1> QED BY <1>2, <1>3, <1>4

LEMMA EmptyProper == Viewer!Proper(<< >>)
<1>1. << >> \in Seq(User) /\ DOMAIN << >> = {}
  OBVIOUS
<1> QED BY <1>1, ProperDef DEF IsInjective

\* Whoever joins comes behind the others.
LEMMA JoinFacts ==
  ASSUME NEW q, Viewer!Proper(q), NEW r, Viewer!Proper(r),
         IsStrictPrefix(q, r), q # << >>
  PROVE  Head(r) = Head(q)
<1>1. /\ q \in Seq(User) /\ r \in Seq(User)
      /\ SubSeq(q, 1, Len(q)) = SubSeq(r, 1, Len(q))
      /\ Len(q) <= Len(r)
  BY ProperDef DEF IsStrictPrefix, IsPrefix
<1>2. Len(q) \in Nat \ {0} /\ Len(r) \in Nat
  BY <1>1
<1>3. SubSeq(q, 1, Len(q))[1] = q[1] /\ SubSeq(r, 1, Len(q))[1] = r[1]
  BY <1>1, <1>2
<1> QED BY <1>1, <1>2, <1>3

\* A sequence is a strict prefix of itself with more behind it.
LEMMA AppendedPrefix ==
  ASSUME NEW q \in Seq(User), NEW us \in Seq(User), us # << >>
  PROVE  IsStrictPrefix(q, q \o us)
<1>1. /\ q \o us \in Seq(User) /\ Len(q \o us) = Len(q) + Len(us)
      /\ \A i \in 1 .. Len(q) + Len(us) :
           (q \o us)[i] = IF i <= Len(q) THEN q[i] ELSE us[i - Len(q)]
  BY ConcatProperties
<1>2. Len(q) \in Nat /\ Len(us) \in Nat \ {0}
  OBVIOUS
<1>3. SubSeq(q \o us, 1, Len(q)) = q
  <2>1. /\ SubSeq(q \o us, 1, Len(q)) \in Seq(User)
        /\ Len(SubSeq(q \o us, 1, Len(q))) = Len(q)
        /\ \A i \in 1 .. Len(q) : SubSeq(q \o us, 1, Len(q))[i] = q[i]
    BY <1>1, <1>2
  <2> QED BY <2>1, SeqEqual
<1>4. SubSeq(q, 1, Len(q)) = q
  BY SubSeqFull
<1>5. q # q \o us
  BY <1>1, <1>2
<1>6. Len(q) <= Len(q \o us) /\ SubSeq(q, 1, Len(q)) = SubSeq(q \o us, 1, Len(q))
  BY <1>1, <1>2, <1>3, <1>4
<1> QED BY <1>5, <1>6, Zenon DEF IsStrictPrefix, IsPrefix

-----------------------------------------------------------------------------
(* What the handlers do to a list that nobody is in twice.                 *)

\* list::remove takes out the one place of u.
LEMMA WithoutIsLeft ==
  ASSUME NEW l, Viewer!Proper(l), NEW u \in ToSet(l)
  PROVE  Without(l, u) = Viewer!Left(l, u)
<1> DEFINE p == Viewer!Place(l, u)
           Kept == {i \in DOMAIN l : l[i] # u}
           Upto(j) == {k \in Kept : k <= j}
           Rank(i) == CHOOSE j \in Kept : Cardinality(Upto(j)) = i
<1>1. /\ p \in 1 .. Len(l) /\ Len(l) \in Nat /\ DOMAIN l = 1 .. Len(l)
      /\ \A i \in 1 .. Len(l) : l[i] = u <=> i = p
  BY PlaceFacts
<1> HIDE DEF p
<1>2. Kept = (1 .. Len(l)) \ {p}
  BY <1>1
<1> HIDE DEF Kept
<1>3. Cardinality(Kept) = Len(l) - 1
  <2>1. IsFiniteSet(1 .. Len(l)) /\ Cardinality(1 .. Len(l)) = Len(l)
    BY <1>1, FS_Interval
  <2>2. Cardinality((1 .. Len(l)) \ {p}) = Cardinality(1 .. Len(l)) - 1
    BY <1>1, <2>1, FS_RemoveElement, Zenon
  <2> QED BY <1>2, <2>1, <2>2, Zenon
<1>4. ASSUME NEW j \in Kept
      PROVE  Cardinality(Upto(j)) = IF j < p THEN j ELSE j - 1
  <2>1. j \in 1 .. Len(l) /\ j # p /\ IsFiniteSet(1 .. j) /\ Cardinality(1 .. j) = j
    BY <1>1, <1>2, FS_Interval
  <2>2. CASE j < p
    <3>1. Upto(j) = 1 .. j
      BY <1>1, <1>2, <2>1, <2>2
    <3> QED BY <2>1, <2>2, <3>1
  <2>3. CASE j > p
    <3>1. Upto(j) = (1 .. j) \ {p} /\ p \in 1 .. j
      BY <1>1, <1>2, <2>1, <2>3
    <3>2. Cardinality((1 .. j) \ {p}) = j - 1
      BY <2>1, <3>1, FS_RemoveElement
    <3>3. Cardinality(Upto(j)) = j - 1
      BY <3>1, <3>2, Zenon
    <3> QED BY <1>1, <2>1, <2>3, <3>3
  <2> QED BY <1>1, <2>1, <2>2, <2>3
<1>5. ASSUME NEW i \in 1 .. Len(l) - 1
      PROVE  Rank(i) = IF i < p THEN i ELSE i + 1
  <2> DEFINE r == IF i < p THEN i ELSE i + 1
  <2>1. r \in Kept /\ Cardinality(Upto(r)) = i
    <3>1. r \in Kept
      BY <1>1, <1>2
    <3>2. Cardinality(Upto(r)) = IF r < p THEN r ELSE r - 1
      BY <1>4, <3>1
    <3> QED BY <1>1, <3>1, <3>2
  <2>2. ASSUME NEW j \in Kept, Cardinality(Upto(j)) = i
        PROVE  j = r
    <3>1. i = IF j < p THEN j ELSE j - 1
      BY <1>4, <2>2
    <3> QED BY <1>1, <1>2, <3>1
  <2> HIDE DEF r, Upto
  <2>3. Rank(i) = r
    BY <2>1, <2>2
  <2> QED BY <2>3 DEF r
<1> HIDE DEF Rank
<1>6. [i \in 1 .. Cardinality(Kept) |-> l[Rank(i)]]
        = [i \in 1 .. Len(l) - 1 |-> IF i < p THEN l[i] ELSE l[i + 1]]
  BY <1>3, <1>5
<1> QED BY <1>6 DEF Without, Viewer!Left, Kept, Rank, p

\* list::insert.
LEMMA InsertFacts ==
  ASSUME NEW l \in Seq(User), NEW i \in 1 .. Len(l) + 1, NEW u \in User
  PROVE  /\ InsertAt(l, i, u) \in Seq(User)
         /\ Len(InsertAt(l, i, u)) = Len(l) + 1
         /\ \A j \in 1 .. Len(l) + 1 :
              InsertAt(l, i, u)[j] = IF j < i THEN l[j] ELSE IF j = i THEN u ELSE l[j - 1]
<1>1. Len(l) \in Nat /\ i \in Nat
  OBVIOUS
<1> DEFINE a == SubSeq(l, 1, i - 1)
           b == SubSeq(l, i, Len(l))
           au == a \o <<u>>
<1>2. /\ a \in Seq(User) /\ Len(a) = i - 1
      /\ \A j \in 1 .. i - 1 : a[j] = l[j]
  <2>1. \A j \in 1 .. i - 1 : l[j] \in User
    BY <1>1
  <2> QED BY <1>1, <2>1, SubSeqProperties
<1>3. /\ b \in Seq(User) /\ Len(b) = Len(l) - i + 1
      /\ \A j \in 1 .. Len(l) - i + 1 : b[j] = l[i + j - 1]
  <2>1. \A j \in i .. Len(l) : l[j] \in User
    BY <1>1
  <2> QED BY <1>1, <2>1, SubSeqProperties
<1>4. <<u>> \in Seq(User) /\ Len(<<u>>) = 1 /\ <<u>>[1] = u
  OBVIOUS
<1> HIDE DEF a, b
<1>5. /\ au \in Seq(User) /\ Len(au) = i
      /\ \A j \in 1 .. i : au[j] = IF j < i THEN l[j] ELSE u
  <2>1. /\ au \in Seq(User) /\ Len(au) = Len(a) + 1
        /\ \A j \in 1 .. Len(a) + 1 :
             au[j] = IF j <= Len(a) THEN a[j] ELSE <<u>>[j - Len(a)]
    BY <1>2, <1>4, ConcatProperties
  <2> QED BY <1>1, <1>2, <1>4, <2>1
<1> HIDE DEF au
<1>6. /\ au \o b \in Seq(User) /\ Len(au \o b) = Len(au) + Len(b)
      /\ \A j \in 1 .. Len(au) + Len(b) :
           (au \o b)[j] = IF j <= Len(au) THEN au[j] ELSE b[j - Len(au)]
  BY <1>3, <1>5, ConcatProperties
<1>7. InsertAt(l, i, u) = au \o b
  BY DEF InsertAt, au, a, b
<1>8. ASSUME NEW j \in 1 .. Len(l) + 1
      PROVE  (au \o b)[j] = IF j < i THEN l[j] ELSE IF j = i THEN u ELSE l[j - 1]
  <2>1. CASE j <= i
    BY <1>1, <1>3, <1>5, <1>6, <2>1
  <2>2. CASE j > i
    <3>1. (au \o b)[j] = b[j - i] /\ j - i \in 1 .. Len(l) - i + 1
      BY <1>1, <1>3, <1>5, <1>6, <2>2
    <3>2. b[j - i] = l[i + (j - i) - 1]
      BY <1>3, <3>1
    <3>3. i + (j - i) - 1 = j - 1 /\ j \in Nat /\ j # i /\ ~ (j < i)
      BY <1>1, <2>2
    <3> QED BY <3>1, <3>2, <3>3
  <2>3. j <= i \/ j > i
    BY <1>1
  <2> QED BY <2>1, <2>2, <2>3, Zenon
<1> QED BY <1>1, <1>3, <1>5, <1>6, <1>7, <1>8

\* Find finds the place of somebody who waits, and no second one of him.
LEMMA FindFacts ==
  ASSUME NEW l, Viewer!Proper(l), NEW u \in Viewer!Waiting(l)
  PROVE  Find(l, u) = Viewer!Place(l, u) /\ ~ Spoiled(l, Find(l, u))
<1> DEFINE p == Viewer!Place(l, u)
<1>1. /\ p \in 2 .. Len(l) /\ Len(l) \in Nat /\ u \in ToSet(l)
      /\ DOMAIN l = 1 .. Len(l) /\ l[p] = u
      /\ \A i \in 1 .. Len(l) : l[i] = u => i = p
  BY WaitingFacts, PlaceFacts
<1> HIDE DEF p
<1>2. p \in 2 .. Len(l) + 1 /\ (p <= Len(l) => l[p] = u) /\ \A j \in 2 .. p - 1 : l[j] # u
  BY <1>1
<1>3. ASSUME NEW i \in 2 .. Len(l) + 1, i <= Len(l) => l[i] = u,
             \A j \in 2 .. i - 1 : l[j] # u
      PROVE  i = p
  BY <1>1, <1>3
<1>4. Find(l, u) = p
  BY <1>2, <1>3 DEF Find
<1> QED BY <1>1, <1>4 DEF Spoiled, p

\* The orders that the clients' checks allow do to a list what they mean.
LEMMA DownFollows ==
  ASSUME NEW l, Viewer!Proper(l), NEW u, Viewer!CanLower(l, u)
  PROVE  MovedDown(l, u) = {Viewer!Lowered(l, u)}
<1> DEFINE p == Viewer!Place(l, u)
           e == Viewer!Exchange(l, p)
           r == InsertAt(Viewer!Left(l, u), p + 1, u)
<1>1. u \in Viewer!Waiting(l) /\ u # Last(l)
  BY HelperDefs DEF Viewer!CanLower
<1>2. /\ p \in 2 .. Len(l) - 1 /\ u \in ToSet(l) /\ l[p] = u
      /\ l \in Seq(User) /\ Len(l) \in Nat
      /\ \A i \in 1 .. Len(l) : l[i] = u => i = p
  BY <1>1, WaitingFacts, PlaceFacts, ProperDef
<1>3. MovedDown(l, u) = {r}
  <2>1. Find(l, u) = p /\ ~ Spoiled(l, Find(l, u)) /\ Without(l, u) = Viewer!Left(l, u)
    BY <1>1, <1>2, FindFacts, WithoutIsLeft
  <2>2. Len(l) > 2 /\ Head(l) # u /\ ~ (p > Len(l))
    BY <1>2
  <2> QED BY <1>1, <2>1, <2>2 DEF MovedDown
<1>4. /\ e \in Seq(User) /\ Len(e) = Len(l)
      /\ \A j \in 1 .. Len(l) :
           e[j] = IF j = p THEN l[p + 1] ELSE IF j = p + 1 THEN l[p] ELSE l[j]
  BY <1>2, ExchangeFacts
<1>5. /\ r \in Seq(User) /\ Len(r) = Len(l)
      /\ \A j \in 1 .. Len(l) : r[j] = IF j < p + 1 THEN Viewer!Left(l, u)[j]
                                       ELSE IF j = p + 1 THEN u
                                       ELSE Viewer!Left(l, u)[j - 1]
  <2>1. Viewer!Left(l, u) \in Seq(User) /\ Len(Viewer!Left(l, u)) = Len(l) - 1 /\ u \in User
    BY <1>2, LeftFacts
  <2>2. p + 1 \in 1 .. Len(Viewer!Left(l, u)) + 1 /\ Len(l) - 1 + 1 = Len(l)
    BY <1>2, <2>1
  <2> QED BY <2>1, <2>2, InsertFacts
<1>6. \A j \in 1 .. Len(l) - 1 : Viewer!Left(l, u)[j] = IF j < p THEN l[j] ELSE l[j + 1]
  BY <1>2, LeftFacts
<1> HIDE DEF p, e, r
<1>7. r = e
  <2>1. ASSUME NEW j \in 1 .. Len(l) PROVE r[j] = e[j]
    BY <1>2, <1>4, <1>5, <1>6
  <2> QED BY <1>4, <1>5, <2>1, SeqEqual
<1> QED BY <1>3, <1>7 DEF Viewer!Lowered, e, p

LEMMA UpFollows ==
  ASSUME NEW l, Viewer!Proper(l), NEW u, Viewer!CanRaise(l, u)
  PROVE  MovedUp(l, u) = {Viewer!Raised(l, u)}
<1> DEFINE p == Viewer!Place(l, u)
           e == Viewer!Exchange(l, p - 1)
           r == InsertAt(Viewer!Left(l, u), p - 1, u)
<1>1. u \in Viewer!Waiting(l) /\ u # l[2]
  BY DEF Viewer!CanRaise
<1>2. /\ p \in 3 .. Len(l) /\ u \in ToSet(l) /\ l[p] = u
      /\ l \in Seq(User) /\ Len(l) \in Nat
      /\ \A i \in 1 .. Len(l) : l[i] = u => i = p
  BY <1>1, WaitingFacts, PlaceFacts, ProperDef
<1>3. MovedUp(l, u) = {r}
  <2>1. Find(l, u) = p /\ ~ Spoiled(l, Find(l, u)) /\ Without(l, u) = Viewer!Left(l, u)
    BY <1>1, <1>2, FindFacts, WithoutIsLeft
  <2>2. Len(l) > 2 /\ Head(l) # u
    BY <1>2
  <2> QED BY <1>1, <2>1, <2>2 DEF MovedUp
<1>4. /\ e \in Seq(User) /\ Len(e) = Len(l)
      /\ \A j \in 1 .. Len(l) :
           e[j] = IF j = p - 1 THEN l[p] ELSE IF j = p THEN l[p - 1] ELSE l[j]
  <2>1. p - 1 \in 2 .. Len(l) - 1 /\ p - 1 + 1 = p
    BY <1>2
  <2> QED BY <2>1, ExchangeFacts
<1>5. /\ r \in Seq(User) /\ Len(r) = Len(l)
      /\ \A j \in 1 .. Len(l) : r[j] = IF j < p - 1 THEN Viewer!Left(l, u)[j]
                                       ELSE IF j = p - 1 THEN u
                                       ELSE Viewer!Left(l, u)[j - 1]
  <2>1. Viewer!Left(l, u) \in Seq(User) /\ Len(Viewer!Left(l, u)) = Len(l) - 1 /\ u \in User
    BY <1>2, LeftFacts
  <2>2. p - 1 \in 1 .. Len(Viewer!Left(l, u)) + 1 /\ Len(l) - 1 + 1 = Len(l)
    BY <1>2, <2>1
  <2> QED BY <2>1, <2>2, InsertFacts
<1>6. \A j \in 1 .. Len(l) - 1 : Viewer!Left(l, u)[j] = IF j < p THEN l[j] ELSE l[j + 1]
  BY <1>2, LeftFacts
<1> HIDE DEF p, e, r
<1>7. r = e
  <2>1. ASSUME NEW j \in 1 .. Len(l) PROVE r[j] = e[j]
    BY <1>2, <1>4, <1>5, <1>6
  <2> QED BY <1>4, <1>5, <2>1, SeqEqual
<1> QED BY <1>3, <1>7 DEF Viewer!Raised, e, p

LEMMA TopFollows ==
  ASSUME NEW l, Viewer!Proper(l), NEW u, Viewer!CanRaise(l, u)
  PROVE  Topped(l, u) = Viewer!Second(l, u)
<1> DEFINE p == Viewer!Place(l, u)
           e == Viewer!Second(l, u)
           r == InsertAt(Viewer!Left(l, u), 2, u)
<1>1. u \in Viewer!Waiting(l) /\ u # l[2]
  BY DEF Viewer!CanRaise
<1>2. /\ p \in 3 .. Len(l) /\ u \in ToSet(l) /\ l[p] = u
      /\ l \in Seq(User) /\ Len(l) \in Nat
      /\ \A i \in 1 .. Len(l) : l[i] = u => i = p
  BY <1>1, WaitingFacts, PlaceFacts, ProperDef
<1>3. Topped(l, u) = r
  <2>1. Without(l, u) = Viewer!Left(l, u)
    BY <1>2, WithoutIsLeft
  <2>2. Len(l) > 2 /\ Head(l) # u
    BY <1>2
  <2> QED BY <1>1, <2>1, <2>2 DEF Topped
<1>4. /\ e \in Seq(User) /\ Len(e) = Len(l)
      /\ \A j \in 1 .. Len(l) : e[j] = IF j = 2 THEN l[p]
                                       ELSE IF j > 2 /\ j <= p THEN l[j - 1] ELSE l[j]
  BY <1>2, SecondFacts
<1>5. /\ r \in Seq(User) /\ Len(r) = Len(l)
      /\ \A j \in 1 .. Len(l) : r[j] = IF j < 2 THEN Viewer!Left(l, u)[j]
                                       ELSE IF j = 2 THEN u
                                       ELSE Viewer!Left(l, u)[j - 1]
  <2>1. Viewer!Left(l, u) \in Seq(User) /\ Len(Viewer!Left(l, u)) = Len(l) - 1 /\ u \in User
    BY <1>2, LeftFacts
  <2>2. 2 \in 1 .. Len(Viewer!Left(l, u)) + 1 /\ Len(l) - 1 + 1 = Len(l)
    BY <1>2, <2>1
  <2> QED BY <2>1, <2>2, InsertFacts
<1>6. \A j \in 1 .. Len(l) - 1 : Viewer!Left(l, u)[j] = IF j < p THEN l[j] ELSE l[j + 1]
  BY <1>2, LeftFacts
<1> HIDE DEF p, e, r
<1>7. r = e
  <2>1. ASSUME NEW j \in 1 .. Len(l) PROVE r[j] = e[j]
    BY <1>2, <1>4, <1>5, <1>6
  <2> QED BY <1>4, <1>5, <2>1, SeqEqual
<1> QED BY <1>3, <1>7 DEF e

-----------------------------------------------------------------------------
(* What is under way tells what the server has done since.                 *)

\* The states of the server: nobody is in its queue twice.
Servers == {s \in [queue : Seq(User), mute : BOOLEAN, disable : BOOLEAN,
                   guests : SUBSET Guest, mic : BOOLEAN] : IsInjective(s.queue)}

Messages == [type : {"joins"}, uids : Seq(User)]
            \cup [type : {"join", "leave", "top"}, uid : User]
            \cup [type : {"move"}, uid : User, down : BOOLEAN]
            \cup [type : {"mute", "disable"}, on : BOOLEAN]
            \cup [type : {"addguest", "removeguest"}, uid : Guest]
            \cup [type : {"kickall", "clearguest", "style"}]
            \cup [type : {"channel"}, mic : BOOLEAN]
            \cup [type : {"sync"}, all : Servers]

\* What m says of the queue: it was q and is r.
QueueTold(q, m, r) ==
  \/ m.type = "joins" /\ m.uids \in Seq(User) \ {<< >>} /\ r = q \o m.uids
  \/ m.type = "join" /\ m.uid \in User /\ r = q \o <<m.uid>>
  \/ m.type = "leave" /\ m.uid \in ToSet(q) /\ r = Viewer!Left(q, m.uid)
  \/ m.type = "move" /\ m.down /\ Viewer!CanLower(q, m.uid)
     /\ r = Viewer!Lowered(q, m.uid)
  \/ m.type = "move" /\ ~ m.down /\ Viewer!CanRaise(q, m.uid)
     /\ r = Viewer!Raised(q, m.uid)
  \/ m.type = "top" /\ Viewer!CanRaise(q, m.uid) /\ r = Viewer!Second(q, m.uid)
  \/ m.type = "kickall" /\ r = << >>

\* What m says of what anybody may do.
RulesTold(s, m, t) ==
  \/ m.type = "mute" /\ t = [s EXCEPT !.mute = m.on]
  \/ m.type = "disable" /\ t = [s EXCEPT !.disable = m.on]
  \/ m.type = "addguest" /\ t = [s EXCEPT !.guests = @ \cup {m.uid}]
  \/ m.type = "removeguest" /\ t = [s EXCEPT !.guests = @ \ {m.uid}]
  \/ m.type = "clearguest" /\ t = [s EXCEPT !.guests = {}]

\* The server was s when it sent m and t afterwards.  A change of channel tells
\* nothing of the new queue.
Told(s, m, t) ==
  \/ QueueTold(s.queue, m, t.queue) /\ t = [s EXCEPT !.queue = t.queue]
  \/ RulesTold(s, m, t)
  \/ m.type = "style" /\ t = NewQueue(t.mic)
  \/ m.type = "sync" /\ s = t /\ m.all = t
  \/ m.type = "channel"

\* The client holds what the server had in state s.
Copy(s) == list = s.queue /\ mute = s.mute /\ disable = s.disable /\ guests = s.guests

\* There were states of the server such that each message under way tells the step
\* from one to the next, up to the present one, and a copy that can be relied on is
\* the one before the oldest message.
History(h) ==
  /\ h \in [Nat -> Servers]
  /\ h[Len(sent)] = server
  /\ \A i \in 1 .. Len(sent) : Told(h[i - 1], sent[i], h[i])
  /\ synced => Copy(h[0])

\* Nothing is under way, and nothing relied on, without a connection.
Offline == ~ subscribed => sent = << >> /\ ~ synced /\ requests = 0

Inv == sent \in Seq(Messages) /\ Offline /\ \E h : History(h)

-----------------------------------------------------------------------------
(* The server's side of a step.                                            *)

LEMMA ServerFields ==
  ASSUME NEW s \in Servers
  PROVE  /\ Viewer!Proper(s.queue)
         /\ s.mute \in BOOLEAN /\ s.disable \in BOOLEAN /\ s.mic \in BOOLEAN
         /\ s.guests \subseteq Guest
         /\ s = [queue |-> s.queue, mute |-> s.mute, disable |-> s.disable,
                 guests |-> s.guests, mic |-> s.mic]
<1> QED BY ProperDef DEF Servers

LEMMA NewQueueServer ==
  ASSUME NEW mic \in BOOLEAN, NEW q, Viewer!Proper(q), NEW gs \in SUBSET Guest
  PROVE  /\ NewQueue(mic) \in Servers
         /\ [NewQueue(mic) EXCEPT !.queue = q, !.guests = gs] \in Servers
<1>1. Viewer!Proper(<< >>)
  BY EmptyProper
<1> QED BY <1>1, ProperDef DEF NewQueue, Servers

\* A change of the queue, or of a rule, is told as what it is.
LEMMA QueueServer ==
  ASSUME NEW s \in Servers, NEW q, Viewer!Proper(q), NEW t, t = [s EXCEPT !.queue = q],
         NEW m, QueueTold(s.queue, m, q)
  PROVE  t \in Servers /\ Told(s, m, t)
<1>1. t \in Servers /\ t.queue = q
  BY ProperDef DEF Servers
<1> QED BY <1>1 DEF Told

\* A message that tells what the server does prolongs the history.
LEMMA AppendHistory ==
  ASSUME Inv, NEW m \in Messages, sent' = Append(sent, m), UNCHANGED client,
         server' \in Servers, Told(server, m, server')
  PROVE  sent' \in Seq(Messages) /\ \E h : History(h)'
<1>1. PICK h : History(h)
  BY DEF Inv
<1>2. sent \in Seq(Messages) /\ Len(sent) \in Nat
      /\ UNCHANGED <<list, mute, disable, guests, synced>>
  BY DEF Inv, client
<1>3. /\ sent' \in Seq(Messages) /\ Len(sent') = Len(sent) + 1
      /\ sent'[Len(sent) + 1] = m
      /\ \A i \in 1 .. Len(sent) : sent'[i] = sent[i]
  BY <1>2
<1>4. PICK g \in [Nat -> Servers] :
        g[Len(sent) + 1] = server' /\ \A i \in 0 .. Len(sent) : g[i] = h[i]
  <2> DEFINE f == [h EXCEPT ![Len(sent) + 1] = server']
  <2>1. /\ f \in [Nat -> Servers] /\ f[Len(sent) + 1] = server'
        /\ \A i \in 0 .. Len(sent) : f[i] = h[i]
    BY <1>1, <1>2 DEF History
  <2> QED BY <2>1
<1>5. ASSUME NEW i \in 1 .. Len(sent') PROVE Told(g[i - 1], sent'[i], g[i])
  <2>1. CASE i = Len(sent) + 1
    <3>1. g[i - 1] = server /\ sent'[i] = m /\ g[i] = server'
      BY <1>1, <1>2, <1>3, <1>4, <2>1 DEF History
    <3> QED BY <3>1
  <2>2. CASE i \in 1 .. Len(sent)
    <3>1. g[i - 1] = h[i - 1] /\ sent'[i] = sent[i] /\ g[i] = h[i]
      BY <1>2, <1>3, <1>4, <2>2
    <3> QED BY <1>1, <2>2, <3>1 DEF History
  <2> QED BY <1>2, <1>3, <2>1, <2>2
<1>6. (synced => Copy(g[0]))'
  <2>1. synced => Copy(h[0]) /\ g[0] = h[0]
    BY <1>1, <1>2, <1>4 DEF History
  <2> QED BY <1>2, <1>4, <2>1 DEF Copy
<1>7. History(g)'
  BY <1>3, <1>4, <1>5, <1>6 DEF History
<1> QED BY <1>3, <1>7

\* A step that is told keeps the invariant, whether or not the client hears of it.
LEMMA TellInv ==
  ASSUME Inv, NEW m \in Messages, Tell(m), server' \in Servers, Told(server, m, server')
  PROVE  Inv'
<1>1. UNCHANGED client /\ UNCHANGED <<subscribed, requests, synced>>
  BY DEF Tell, client
<1>2. CASE subscribed
  <2>1. sent' \in Seq(Messages) /\ \E h : History(h)'
    BY <1>1, <1>2, AppendHistory DEF Tell
  <2> QED BY <1>1, <1>2, <2>1 DEF Inv, Offline
<1>3. CASE ~ subscribed
  <2>1. sent' = << >> /\ ~ synced' /\ requests' = 0
    BY <1>1, <1>3 DEF Inv, Offline, Tell
  <2>2. PICK g : g = [i \in Nat |-> server']
    OBVIOUS
  <2>3. History(g)'
    BY <2>1, <2>2 DEF History
  <2> QED BY <1>1, <1>3, <2>1, <2>3 DEF Inv, Offline
<1> QED BY <1>2, <1>3

\* A set of queues that TLC can enumerate holds queues only.
LEMMA QueuesProper ==
  ASSUME NEW q \in Queues
  PROVE  Viewer!Proper(q)
<1>1. PICK n \in 0 .. Cardinality(User) : q \in [1 .. n -> User] /\ IsInjective(q)
  BY DEF Queues
<1>2. n \in Nat
  BY <1>1
<1>3. q \in Seq(User)
  BY <1>1, <1>2
<1> QED BY <1>1, <1>3, ProperDef

LEMMA ServerIsServer == Inv => server \in Servers /\ Viewer!Proper(server.queue)
<1> SUFFICES ASSUME Inv PROVE server \in Servers /\ Viewer!Proper(server.queue)
  OBVIOUS
<1>1. PICK h : History(h)
  BY DEF Inv
<1>2. Len(sent) \in Nat
  BY DEF Inv
<1>3. server \in Servers
  BY <1>1, <1>2 DEF History
<1> QED BY <1>3, ServerFields

\* A change of the queue that is told as what it is keeps the invariant.
LEMMA QueueInv ==
  ASSUME Inv, NEW q, Viewer!Proper(q), Queue(q),
         NEW m \in Messages, QueueTold(server.queue, m, q), Tell(m)
  PROVE  Inv'
<1>1. server \in Servers
  BY ServerIsServer
<1>2. server' \in Servers /\ Told(server, m, server')
  BY <1>1, QueueServer DEF Queue
<1> QED BY <1>2, TellInv

LEMMA JoinInv ==
  ASSUME Inv, NEW us \in Queues, Len(us) \in 1 .. 2, ServerJoin(us)
  PROVE  Inv'
<1> DEFINE q == server.queue \o us
<1>1. us \in Seq(User) \ {<< >>} /\ server.queue \in Seq(User)
  <2>1. us \in Seq(User) /\ server.queue \in Seq(User)
    BY QueuesProper, ServerIsServer, ProperDef
  <2> QED BY <2>1
<1>2. Viewer!Proper(q) /\ Queue(q)
  BY <1>1, ConcatProperties, ProperDef DEF ServerJoin
<1>3. CASE Tell([type |-> "joins", uids |-> us])
  <2> DEFINE m == [type |-> "joins", uids |-> us]
  <2>1. m \in Messages /\ QueueTold(server.queue, m, q)
    BY <1>1 DEF Messages, QueueTold
  <2> QED BY <1>2, <1>3, <2>1, QueueInv
<1>4. CASE Len(us) = 1 /\ Tell([type |-> "join", uid |-> us[1]])
  <2> DEFINE m == [type |-> "join", uid |-> us[1]]
  <2>1. us[1] \in User /\ us = <<us[1]>>
    BY <1>1, <1>4
  <2>2. m \in Messages
    BY <2>1 DEF Messages
  <2>3. QueueTold(server.queue, m, q)
    BY <2>1 DEF QueueTold
  <2> QED BY <1>2, <1>4, <2>2, <2>3, QueueInv
<1> QED BY <1>3, <1>4 DEF ServerJoin

LEMMA LeaveInv ==
  ASSUME Inv, NEW u \in User, ServerLeave(u)
  PROVE  Inv'
<1> DEFINE m == [type |-> "leave", uid |-> u]
<1>1. m \in Messages /\ QueueTold(server.queue, m, Viewer!Left(server.queue, u))
  BY DEF Messages, QueueTold, ServerLeave
<1>2. Viewer!Proper(Viewer!Left(server.queue, u))
  BY ServerIsServer, LeftProper DEF ServerLeave
<1> QED BY <1>1, <1>2, QueueInv DEF ServerLeave

LEMMA MoveInv ==
  ASSUME Inv, NEW u \in User, ServerMove(u)
  PROVE  Inv'
<1> DEFINE q == server.queue
<1>1. Viewer!Proper(q)
  BY ServerIsServer
<1>2. CASE /\ Viewer!CanLower(q, u) /\ Queue(Viewer!Lowered(q, u))
           /\ Tell([type |-> "move", uid |-> u, down |-> TRUE])
  <2> DEFINE m == [type |-> "move", uid |-> u, down |-> TRUE]
  <2>1. m \in Messages /\ QueueTold(q, m, Viewer!Lowered(q, u))
    BY <1>2 DEF Messages, QueueTold
  <2>2. Viewer!Proper(Viewer!Lowered(q, u))
    BY <1>1, <1>2, MoveProper DEF Viewer!CanLower
  <2> QED BY <1>2, <2>1, <2>2, QueueInv
<1>3. CASE /\ Viewer!CanRaise(q, u) /\ Queue(Viewer!Raised(q, u))
           /\ Tell([type |-> "move", uid |-> u, down |-> FALSE])
  <2> DEFINE m == [type |-> "move", uid |-> u, down |-> FALSE]
  <2>1. m \in Messages /\ QueueTold(q, m, Viewer!Raised(q, u))
    BY <1>3 DEF Messages, QueueTold
  <2>2. Viewer!Proper(Viewer!Raised(q, u))
    BY <1>1, <1>3, MoveProper DEF Viewer!CanRaise
  <2> QED BY <1>3, <2>1, <2>2, QueueInv
<1>4. CASE /\ Viewer!CanRaise(q, u) /\ Queue(Viewer!Second(q, u))
           /\ Tell([type |-> "top", uid |-> u])
  <2> DEFINE m == [type |-> "top", uid |-> u]
  <2>1. m \in Messages /\ QueueTold(q, m, Viewer!Second(q, u))
    BY <1>4 DEF Messages, QueueTold
  <2>2. Viewer!Proper(Viewer!Second(q, u))
    BY <1>1, <1>4, MoveProper DEF Viewer!CanRaise
  <2> QED BY <1>4, <2>1, <2>2, QueueInv
<1> QED BY <1>2, <1>3, <1>4 DEF ServerMove

LEMMA ClearInv ==
  ASSUME Inv, ServerClear
  PROVE  Inv'
<1> DEFINE m == [type |-> "kickall"]
<1>1. m \in Messages /\ QueueTold(server.queue, m, << >>)
  BY DEF Messages, QueueTold
<1> QED BY <1>1, EmptyProper, QueueInv DEF ServerClear

LEMMA SetInv ==
  ASSUME Inv, NEW on \in BOOLEAN, ServerSet(on)
  PROVE  Inv'
<1>1. CASE /\ server' = [server EXCEPT !.mute = on]
           /\ Tell([type |-> "mute", on |-> on])
  <2> DEFINE m == [type |-> "mute", on |-> on]
  <2>1. m \in Messages /\ Told(server, m, server')
    BY <1>1 DEF Messages, Told, RulesTold
  <2>2. server' \in Servers
    BY <1>1, ServerIsServer DEF Servers
  <2> QED BY <1>1, <2>1, <2>2, TellInv
<1>2. CASE /\ server' = [server EXCEPT !.disable = on]
           /\ Tell([type |-> "disable", on |-> on])
  <2> DEFINE m == [type |-> "disable", on |-> on]
  <2>1. m \in Messages /\ Told(server, m, server')
    BY <1>2 DEF Messages, Told, RulesTold
  <2>2. server' \in Servers
    BY <1>2, ServerIsServer DEF Servers
  <2> QED BY <1>2, <2>1, <2>2, TellInv
<1> QED BY <1>1, <1>2 DEF ServerSet

LEMMA GuestsInv ==
  ASSUME Inv, ServerGuests
  PROVE  Inv'
<1>1. ASSUME NEW u \in Guest, server' = [server EXCEPT !.guests = @ \cup {u}],
             Tell([type |-> "addguest", uid |-> u])
      PROVE  Inv'
  <2> DEFINE m == [type |-> "addguest", uid |-> u]
  <2>1. m \in Messages /\ Told(server, m, server')
    BY <1>1 DEF Messages, Told, RulesTold
  <2>2. server' \in Servers
    BY <1>1, ServerIsServer DEF Servers
  <2> QED BY <1>1, <2>1, <2>2, TellInv
<1>2. ASSUME NEW u \in Guest, server' = [server EXCEPT !.guests = @ \ {u}],
             Tell([type |-> "removeguest", uid |-> u])
      PROVE  Inv'
  <2> DEFINE m == [type |-> "removeguest", uid |-> u]
  <2>1. m \in Messages /\ Told(server, m, server')
    BY <1>2 DEF Messages, Told, RulesTold
  <2>2. server' \in Servers
    BY <1>2, ServerIsServer DEF Servers
  <2> QED BY <1>2, <2>1, <2>2, TellInv
<1>3. CASE server' = [server EXCEPT !.guests = {}] /\ Tell([type |-> "clearguest"])
  <2> DEFINE m == [type |-> "clearguest"]
  <2>1. m \in Messages /\ Told(server, m, server')
    BY <1>3 DEF Messages, Told, RulesTold
  <2>2. server' \in Servers
    BY <1>3, ServerIsServer DEF Servers
  <2> QED BY <1>3, <2>1, <2>2, TellInv
<1> QED BY <1>1, <1>2, <1>3 DEF ServerGuests

LEMMA ChannelInv ==
  ASSUME Inv, ServerChannel
  PROVE  Inv'
<1>1. ASSUME server' \in Servers, Tell([type |-> "channel", mic |-> server'.mic])
      PROVE  Inv'
  <2> PICK m : m = [type |-> "channel", mic |-> server'.mic]
    OBVIOUS
  <2>1. m \in Messages /\ Told(server, m, server')
    BY <1>1, ServerFields DEF Messages, Told
  <2> QED BY <1>1, <2>1, TellInv
<1>2. ASSUME NEW mic \in BOOLEAN, server' = NewQueue(mic)
      PROVE  server' \in Servers
  BY <1>2, EmptyProper, NewQueueServer
<1>3. ASSUME NEW q \in Queues, NEW gs \in SUBSET Guest,
             server' = [NewQueue(TRUE) EXCEPT !.queue = q, !.guests = gs]
      PROVE  server' \in Servers
  BY <1>3, QueuesProper, NewQueueServer
<1>4. CASE server' = NewQueue(~ server.mic) /\ Tell([type |-> "style"])
  <2> DEFINE m == [type |-> "style"]
  <2>1. server' \in Servers
    BY <1>2, <1>4
  <2>2. server'.mic = ~ server.mic
    BY <1>4 DEF NewQueue
  <2>3. m \in Messages /\ Told(server, m, server')
    BY <1>4, <2>2 DEF Messages, Told
  <2> QED BY <1>4, <2>1, <2>3, TellInv
<1> QED BY <1>1, <1>2, <1>3, <1>4 DEF ServerChannel

LEMMA SyncInv ==
  ASSUME Inv, ServerSync
  PROVE  Inv'
<1>1. subscribed /\ subscribed' /\ UNCHANGED <<server, client>>
  BY DEF Inv, Offline, ServerSync
<1>2. CASE sent' = sent
  <2>1. PICK h : History(h)
    BY DEF Inv
  <2>2. History(h)'
    BY <1>1, <1>2, <2>1 DEF History, Copy, client
  <2> QED BY <1>1, <1>2, <2>2 DEF Inv, Offline
<1>3. CASE sent' = Append(sent, [type |-> "sync", all |-> server])
  <2> DEFINE m == [type |-> "sync", all |-> server]
  <2>1. server \in Servers /\ server' = server
    BY <1>1, ServerIsServer
  <2>2. m \in Messages /\ Told(server, m, server')
    BY <2>1 DEF Messages, Told
  <2>3. sent' \in Seq(Messages) /\ \E h : History(h)'
    BY <1>1, <1>3, <2>1, <2>2, AppendHistory
  <2> QED BY <1>1, <2>3 DEF Inv, Offline
<1> QED BY <1>2, <1>3 DEF ServerSync

LEMMA ServerInv ==
  ASSUME Inv, Server
  PROVE  Inv'
<1>1. ASSUME NEW us \in Queues, Len(us) \in 1 .. 2, ServerJoin(us) PROVE Inv'
  BY <1>1, JoinInv
<1>2. ASSUME NEW u \in User, ServerLeave(u) PROVE Inv'
  BY <1>2, LeaveInv
<1>3. ASSUME NEW u \in User, ServerMove(u) PROVE Inv'
  BY <1>3, MoveInv
<1>4. ASSUME NEW on \in BOOLEAN, ServerSet(on) PROVE Inv'
  BY <1>4, SetInv
<1> QED BY <1>1, <1>2, <1>3, <1>4, ClearInv, GuestsInv, ChannelInv, SyncInv DEF Server

-----------------------------------------------------------------------------
(* The client's side of a step.                                            *)

\* What the type of a message says it tells.
LEMMA QueueMessage ==
  ASSUME NEW s \in Servers, NEW t \in Servers, NEW m, Told(s, m, t),
         m.type \in {"joins", "join", "leave", "move", "top", "kickall"}
  PROVE  /\ QueueTold(s.queue, m, t.queue)
         /\ t.mute = s.mute /\ t.disable = s.disable /\ t.guests = s.guests
<1>1. QueueTold(s.queue, m, t.queue) /\ t = [s EXCEPT !.queue = t.queue]
  BY DEF Told, RulesTold
<1> QED BY <1>1, ServerFields

LEMMA RulesMessage ==
  ASSUME NEW s \in Servers, NEW t \in Servers, NEW m, Told(s, m, t),
         m.type \in {"mute", "disable", "addguest", "removeguest", "clearguest"}
  PROVE  /\ RulesTold(s, m, t) /\ t.queue = s.queue
         /\ t.mute = IF m.type = "mute" THEN m.on ELSE s.mute
         /\ t.disable = IF m.type = "disable" THEN m.on ELSE s.disable
         /\ t.guests = IF m.type = "addguest" THEN s.guests \cup {m.uid}
                       ELSE IF m.type = "removeguest" THEN s.guests \ {m.uid}
                       ELSE IF m.type = "clearguest" THEN {}
                       ELSE s.guests
<1>1. RulesTold(s, m, t)
  BY DEF Told, QueueTold
<1> QED BY <1>1 DEF RulesTold, Servers

\* A handler of a message about the queue makes of the list before it the list after.
LEMMA ListFollows ==
  ASSUME NEW s \in Servers, NEW t \in Servers, Told(s, Head(sent), t), list = s.queue,
         OnJoinQueue \/ OnMulJoinQueue \/ OnLeaveQueue \/ OnMoveQueue
           \/ OnTopQueue \/ OnKickAllQueue
  PROVE  list' = t.queue
<1> DEFINE m == Head(sent)
<1>1. Viewer!Proper(list) /\ list \in Seq(User)
  BY ServerFields, ProperDef
<1>2. m.type \in {"joins", "join", "leave", "move", "top", "kickall"}
  BY DEF OnJoinQueue, OnMulJoinQueue, OnLeaveQueue, OnMoveQueue, OnTopQueue,
         OnKickAllQueue, Receive
<1>3. QueueTold(list, m, t.queue)
  BY <1>2, QueueMessage
<1> HIDE DEF m
<1>4. CASE OnJoinQueue
  <2>1. m.type = "join" /\ list' = Append(list, m.uid)
    BY <1>4 DEF OnJoinQueue, Receive, NewList, m
  <2>2. m.uid \in User /\ t.queue = list \o <<m.uid>>
    BY <1>3, <2>1 DEF QueueTold
  <2>3. Append(list, m.uid) = list \o <<m.uid>>
    BY <1>1, <2>2
  <2> QED BY <2>1, <2>2, <2>3
<1>5. CASE OnMulJoinQueue
  BY <1>3, <1>5 DEF OnMulJoinQueue, Receive, NewList, QueueTold, m
<1>6. CASE OnLeaveQueue
  <2>1. m.type = "leave" /\ list' = Without(list, m.uid)
    BY <1>6 DEF OnLeaveQueue, Receive, NewList, m
  <2>2. m.uid \in ToSet(list) /\ t.queue = Viewer!Left(list, m.uid)
    BY <1>3, <2>1 DEF QueueTold
  <2> QED BY <1>1, <2>1, <2>2, WithoutIsLeft
<1>7. CASE OnMoveQueue
  <2>1. m.type = "move"
        /\ list' \in IF m.down THEN MovedDown(list, m.uid) ELSE MovedUp(list, m.uid)
    BY <1>7 DEF OnMoveQueue, Receive, NewList, m
  <2>2. CASE m.down
    <3>1. Viewer!CanLower(list, m.uid) /\ t.queue = Viewer!Lowered(list, m.uid)
      BY <1>3, <2>1, <2>2 DEF QueueTold
    <3> QED BY <1>1, <2>1, <2>2, <3>1, DownFollows
  <2>3. CASE ~ m.down
    <3>1. Viewer!CanRaise(list, m.uid) /\ t.queue = Viewer!Raised(list, m.uid)
      BY <1>3, <2>1, <2>3 DEF QueueTold
    <3> QED BY <1>1, <2>1, <2>3, <3>1, UpFollows
  <2> QED BY <2>2, <2>3
<1>8. CASE OnTopQueue
  <2>1. m.type = "top" /\ list' = Topped(list, m.uid)
    BY <1>8 DEF OnTopQueue, Receive, NewList, m
  <2>2. Viewer!CanRaise(list, m.uid) /\ t.queue = Viewer!Second(list, m.uid)
    BY <1>3, <2>1 DEF QueueTold
  <2> QED BY <1>1, <2>1, <2>2, TopFollows
<1>9. CASE OnKickAllQueue
  BY <1>3, <1>9 DEF OnKickAllQueue, Receive, NewList, QueueTold, m
<1> QED BY <1>4, <1>5, <1>6, <1>7, <1>8, <1>9

\* A handler makes of a copy of the server before the message a copy of it after.
LEMMA CopyFollows ==
  ASSUME NEW s \in Servers, NEW t \in Servers, Told(s, Head(sent), t),
         synced => Copy(s), Handle
  PROVE  (synced => Copy(t))'
<1> DEFINE m == Head(sent)
<1>1. CASE OnJoinQueue \/ OnMulJoinQueue \/ OnLeaveQueue \/ OnMoveQueue
             \/ OnTopQueue \/ OnKickAllQueue
  <2>1. m.type \in {"joins", "join", "leave", "move", "top", "kickall"}
    BY <1>1 DEF OnJoinQueue, OnMulJoinQueue, OnLeaveQueue, OnMoveQueue, OnTopQueue,
                OnKickAllQueue, Receive
  <2>2. UNCHANGED <<mute, disable, guests, synced>>
    BY <1>1 DEF OnJoinQueue, OnMulJoinQueue, OnLeaveQueue, OnMoveQueue, OnTopQueue,
                OnKickAllQueue, NewList
  <2>3. t.mute = s.mute /\ t.disable = s.disable /\ t.guests = s.guests
    BY <2>1, QueueMessage
  <2>4. synced => list' = t.queue
    BY <1>1, ListFollows DEF Copy
  <2> QED BY <2>2, <2>3, <2>4 DEF Copy
<1>2. CASE OnMuteQueue
  <2>1. m.type = "mute" /\ mute' = m.on /\ UNCHANGED <<list, disable, guests, synced>>
    BY <1>2 DEF OnMuteQueue, Receive
  <2> QED BY <2>1, RulesMessage DEF Copy
<1>3. CASE OnDisableQueue
  <2>1. m.type = "disable" /\ disable' = m.on /\ UNCHANGED <<list, mute, guests, synced>>
    BY <1>3 DEF OnDisableQueue, Receive
  <2> QED BY <2>1, RulesMessage DEF Copy
<1>4. CASE OnGuest
  <2>1. /\ \/ m.type = "addguest" /\ guests' = guests \cup {m.uid}
           \/ m.type = "removeguest" /\ guests' = guests \ {m.uid}
           \/ m.type = "clearguest" /\ guests' = {}
        /\ UNCHANGED <<list, mute, disable, synced>>
    BY <1>4 DEF OnGuest, Receive
  <2> QED BY <2>1, RulesMessage DEF Copy
<1>5. CASE OnSync
  <2>1. m.type = "sync" /\ list' = m.all.queue /\ mute' = m.all.mute
        /\ disable' = m.all.disable /\ guests' = m.all.guests
    BY <1>5 DEF OnSync, Receive
  <2>2. m.all = t
    BY <2>1 DEF Told, QueueTold, RulesTold
  <2> QED BY <2>1, <2>2 DEF Copy
<1>6. CASE CurrectChannelChanged
  BY <1>6 DEF CurrectChannelChanged
<1>7. CASE OnChangeStyle
  <2>1. CASE synced'
    <3>1. m.type = "style" /\ list' = << >> /\ mute' = FALSE /\ disable' = FALSE
          /\ guests' = {}
      BY <1>7, <2>1 DEF OnChangeStyle, Receive, client
    <3>2. t = NewQueue(t.mic)
      BY <3>1 DEF Told, QueueTold, RulesTold
    <3>3. t.queue = << >> /\ t.mute = FALSE /\ t.disable = FALSE /\ t.guests = {}
      BY <3>2 DEF NewQueue
    <3> QED BY <3>1, <3>3 DEF Copy
  <2> QED BY <2>1
<1> QED BY <1>1, <1>2, <1>3, <1>4, <1>5, <1>6, <1>7 DEF Handle

\* What a viewer sees.
seen == IF synced THEN list ELSE << >>

ViewerStep == [Viewer!Next]_<<synced, seen>>

\* What is told of a queue is a change of a queue of speakers.
LEMMA QueueStep ==
  ASSUME NEW q, Viewer!Proper(q), NEW r, Viewer!Proper(r), NEW m, QueueTold(q, m, r),
         synced, synced', list = q, list' = r, q # r
  PROVE  ViewerStep
<1>1. Viewer!Next <=> Viewer!Join \/ Viewer!Leave \/ Viewer!Move \/ Viewer!Clear
  BY DEF Viewer!Next, Viewer!Enter, Viewer!Hide
<1>2. CASE m.type = "joins" /\ m.uids \in Seq(User) \ {<< >>} /\ r = q \o m.uids
  <2>1. IsStrictPrefix(q, r)
    BY <1>2, AppendedPrefix, ProperDef
  <2> QED BY <1>1, <2>1, HelperDefs DEF Viewer!Join, ViewerStep
<1>3. CASE m.type = "join" /\ m.uid \in User /\ r = q \o <<m.uid>>
  <2>1. <<m.uid>> \in Seq(User) /\ <<m.uid>> # << >>
    BY <1>3
  <2>2. IsStrictPrefix(q, r)
    BY <1>3, <2>1, AppendedPrefix, ProperDef
  <2> QED BY <1>1, <2>2, HelperDefs DEF Viewer!Join, ViewerStep
<1>4. CASE m.type = "leave" /\ m.uid \in ToSet(q) /\ r = Viewer!Left(q, m.uid)
  BY <1>1, <1>4, HelperDefs DEF Viewer!Leave, ViewerStep
<1>5. CASE Viewer!CanLower(q, m.uid) /\ r = Viewer!Lowered(q, m.uid)
  BY <1>1, <1>5 DEF Viewer!Move, Viewer!CanLower, ViewerStep
<1>6. CASE /\ Viewer!CanRaise(q, m.uid)
           /\ r = Viewer!Raised(q, m.uid) \/ r = Viewer!Second(q, m.uid)
  BY <1>1, <1>6 DEF Viewer!Move, Viewer!CanRaise, ViewerStep
<1>7. CASE r = << >>
  BY <1>1, <1>7 DEF Viewer!Clear, ViewerStep
<1> QED BY <1>2, <1>3, <1>4, <1>5, <1>6, <1>7 DEF QueueTold

\* Handling a message is, for a viewer, a change of a queue of speakers, or nothing,
\* or the beginning or the end of what he can rely on.
LEMMA HandleViewer ==
  ASSUME NEW s \in Servers, NEW t \in Servers, Told(s, Head(sent), t),
         synced => Copy(s), Handle
  PROVE  ViewerStep
<1> DEFINE m == Head(sent)
<1>1. synced' \in BOOLEAN \/ synced' = synced
  BY DEF Handle, OnJoinQueue, OnMulJoinQueue, OnLeaveQueue, OnMoveQueue, OnTopQueue,
         OnKickAllQueue, OnMuteQueue, OnDisableQueue, OnGuest, OnSync,
         CurrectChannelChanged, OnChangeStyle, NewList, client
<1>2. (synced => Copy(t))'
  BY CopyFollows
<1>3. CASE synced /\ synced'
  <2>1. list = s.queue /\ list' = t.queue
    BY <1>2, <1>3 DEF Copy
  <2>2. Viewer!Proper(s.queue) /\ Viewer!Proper(t.queue)
    BY ServerFields
  <2>3. m.type # "channel"
    BY <1>3 DEF Handle, OnJoinQueue, OnMulJoinQueue, OnLeaveQueue, OnMoveQueue,
                OnTopQueue, OnKickAllQueue, OnMuteQueue, OnDisableQueue, OnGuest,
                OnSync, CurrectChannelChanged, OnChangeStyle, Receive
  <2>4. CASE QueueTold(s.queue, m, t.queue) /\ s.queue # t.queue
    BY <1>3, <2>1, <2>2, <2>4, QueueStep
  <2>5. CASE s.queue = t.queue
    BY <1>3, <2>1, <2>5 DEF ViewerStep, seen
  <2>6. CASE t.queue = << >> /\ s.queue # t.queue
    BY <1>3, <2>1, <2>6
       DEF ViewerStep, Viewer!Next, Viewer!Clear
  <2>7. CASE RulesTold(s, m, t)
    <3>1. s.queue = t.queue
      BY <2>7 DEF RulesTold, Servers
    <3> QED BY <2>5, <3>1
  <2>8. CASE t = NewQueue(t.mic)
    <3>1. t.queue = << >>
      BY <2>8 DEF NewQueue
    <3> QED BY <2>5, <2>6, <3>1
  <2> QED BY <2>3, <2>4, <2>5, <2>7, <2>8 DEF Told
<1>4. CASE ~ synced /\ synced'
  <2>1. synced' = TRUE
    BY <1>1, <1>4
  <2>2. Viewer!Proper(list')
    BY <1>2, <1>4, ServerFields DEF Copy
  <2> QED BY <1>4, <2>1, <2>2 DEF ViewerStep, Viewer!Next, Viewer!Enter
<1>5. CASE synced /\ ~ synced'
  <2>1. synced' = FALSE
    BY <1>1, <1>5
  <2> QED BY <2>1 DEF ViewerStep, Viewer!Next, Viewer!Hide
<1>6. CASE ~ synced /\ ~ synced'
  BY <1>1, <1>6 DEF ViewerStep, Viewer!Next, Viewer!Hide, seen
<1> QED BY <1>3, <1>4, <1>5, <1>6

\* A handled message shortens the history.
LEMMA HandleInv ==
  ASSUME Inv, Handle
  PROVE  Inv' /\ ViewerStep
<1>1. PICK h : History(h)
  BY DEF Inv
<1>2. /\ sent # << >> /\ sent' = Tail(sent) /\ UNCHANGED <<server, subscribed>>
      /\ sent \in Seq(Messages)
  BY DEF Inv, Handle, OnJoinQueue, OnMulJoinQueue, OnLeaveQueue, OnMoveQueue,
         OnTopQueue, OnKickAllQueue, OnMuteQueue, OnDisableQueue, OnGuest, OnSync,
         CurrectChannelChanged, OnChangeStyle, Receive
<1>3. /\ Len(sent) \in Nat \ {0} /\ sent' \in Seq(Messages)
      /\ Len(sent') = Len(sent) - 1 /\ Head(sent) = sent[1]
      /\ \A i \in 1 .. Len(sent') : sent'[i] = sent[i + 1]
  BY <1>2
<1>4. /\ h[0] \in Servers /\ h[1] \in Servers
      /\ Told(h[0], Head(sent), h[1]) /\ (synced => Copy(h[0]))
  <2>1. h \in [Nat -> Servers] /\ 1 \in 1 .. Len(sent) /\ 1 - 1 = 0
    BY <1>1, <1>3 DEF History
  <2>2. Told(h[1 - 1], sent[1], h[1]) /\ (synced => Copy(h[0]))
    BY <1>1, <2>1 DEF History
  <2> QED BY <1>3, <2>1, <2>2
<1>5. (synced => Copy(h[1]))' /\ ViewerStep
  BY <1>4, CopyFollows, HandleViewer
<1>6. PICK g \in [Nat -> Servers] : \A i \in Nat : g[i] = h[i + 1]
  <2> DEFINE f == [i \in Nat |-> h[i + 1]]
  <2>1. f \in [Nat -> Servers] /\ \A i \in Nat : f[i] = h[i + 1]
    BY <1>1 DEF History
  <2> QED BY <2>1
<1>7. g[Len(sent')] = server'
  BY <1>1, <1>2, <1>3, <1>6 DEF History
<1>8. ASSUME NEW i \in 1 .. Len(sent') PROVE Told(g[i - 1], sent'[i], g[i])
  <2>1. i + 1 \in 1 .. Len(sent) /\ i + 1 - 1 = i /\ i - 1 + 1 = i /\ i - 1 \in Nat /\ i \in Nat
    BY <1>3
  <2>2. Told(h[i], sent[i + 1], h[i + 1])
    BY <1>1, <2>1 DEF History
  <2> QED BY <1>3, <1>6, <2>1, <2>2
<1>9. (synced => Copy(g[0]))'
  <2>1. g[0] = h[1]
    BY <1>6
  <2> QED BY <1>5, <2>1
<1>10. History(g)'
  BY <1>6, <1>7, <1>8, <1>9 DEF History
<1> QED BY <1>2, <1>3, <1>5, <1>10 DEF Inv, Offline

-----------------------------------------------------------------------------
(* Every step.                                                             *)

LEMMA InitInv == Init => Inv
<1> SUFFICES ASSUME Init PROVE Inv
  OBVIOUS
<1>1. server \in Servers
  BY EmptyProper, NewQueueServer DEF Init
<1> DEFINE g == [i \in Nat |-> server]
<1>2. sent \in Seq(Messages) /\ Len(sent) = 0
  BY DEF Init
<1>3. History(g)
  BY <1>1, <1>2 DEF Init, History
<1> QED BY <1>2, <1>3 DEF Inv, Offline, Init

LEMMA LoseInv ==
  ASSUME Inv, Lose
  PROVE  Inv' /\ ViewerStep
<1>1. /\ ~ subscribed' /\ sent' = << >> /\ requests' = 0 /\ synced' = FALSE
      /\ server' = server
  BY DEF Lose
<1>2. server \in Servers
  BY ServerIsServer
<1>3. PICK g : g = [i \in Nat |-> server]
  OBVIOUS
<1>4. History(g)'
  BY <1>1, <1>2, <1>3 DEF History
<1>5. ViewerStep
  BY <1>1 DEF ViewerStep, Viewer!Next, Viewer!Hide
<1> QED BY <1>1, <1>4, <1>5 DEF Inv, Offline

LEMMA ResumeInv ==
  ASSUME Inv, Resume
  PROVE  Inv' /\ UNCHANGED client
<1>1. /\ subscribed' = TRUE /\ ~ synced' /\ UNCHANGED <<server, client>>
  BY DEF Inv, Offline, Resume, client
<1>2. server \in Servers
  BY ServerIsServer
<1> DEFINE m == [type |-> "channel", mic |-> server.mic]
<1>3. m \in Messages /\ Told(server, m, server)
  BY <1>2, ServerFields DEF Messages, Told
<1>4. sent' \in {<< >>, <<m>>}
  BY DEF Resume
<1> HIDE DEF m
<1>5. /\ sent' \in Seq(Messages) /\ Len(sent') \in {0, 1}
      /\ \A i \in 1 .. Len(sent') : sent'[i] = m
  <2>1. CASE sent' = << >>
    BY <2>1
  <2>2. CASE sent' = <<m>>
    <3>1. <<m>> \in Seq(Messages) /\ Len(<<m>>) = 1 /\ <<m>>[1] = m
      BY <1>3
    <3> QED BY <2>2, <3>1
  <2> QED BY <1>4, <2>1, <2>2
<1>6. PICK g : g = [i \in Nat |-> server]
  OBVIOUS
<1>7. \A i \in 1 .. Len(sent') : Told(g[i - 1], sent'[i], g[i])
  <2>1. \A i \in 1 .. Len(sent') : g[i - 1] = server /\ g[i] = server
    BY <1>5, <1>6
  <2> QED BY <1>3, <1>5, <2>1
<1>8. History(g)'
  BY <1>1, <1>2, <1>5, <1>6, <1>7 DEF History
<1> QED BY <1>1, <1>5, <1>8 DEF Inv, Offline

LEMMA NextInv == Inv /\ [Next]_vars => Inv' /\ ViewerStep
<1> SUFFICES ASSUME Inv, [Next]_vars PROVE Inv' /\ ViewerStep
  OBVIOUS
<1>1. ASSUME UNCHANGED client PROVE ViewerStep
  BY <1>1 DEF client, ViewerStep, seen
<1>2. CASE Server
  <2>1. UNCHANGED client
    BY <1>2 DEF Server, ServerJoin, ServerLeave, ServerMove, ServerClear, ServerSet,
                ServerGuests, ServerChannel, ServerSync, Tell
  <2> QED BY <1>1, <1>2, <2>1, ServerInv
<1>3. CASE UNCHANGED vars
  <2>1. UNCHANGED client
    BY <1>3 DEF vars
  <2>2. PICK h : History(h)
    BY DEF Inv
  <2>3. History(h)'
    BY <1>3, <2>2 DEF vars, net, client, History, Copy
  <2> QED BY <1>1, <1>3, <2>1, <2>3 DEF vars, net, client, Inv, Offline
<1> QED BY <1>1, <1>2, <1>3, HandleInv, LoseInv, ResumeInv DEF Next

LEMMA InvHolds == Spec => []Inv
<1>1. Inv /\ [Next]_vars => Inv'
  BY NextInv
<1> QED BY <1>1, InitInv, PTL DEF Spec

\* Whatever was told, in whatever order with the sync, and whatever was lost, a copy
\* that was told whole is the server's queue as soon as nothing is under way.
THEOREM CopyCatchesUp == Spec => []CaughtUp
<1>1. Inv => CaughtUp
  <2> SUFFICES ASSUME Inv, synced, sent = << >>
               PROVE  server = [queue |-> list, mute |-> mute, disable |-> disable,
                                guests |-> guests, mic |-> server.mic]
    BY DEF CaughtUp
  <2>1. Copy(server) /\ server \in Servers
    BY ServerIsServer DEF Inv, History
  <2> QED BY <2>1, ServerFields DEF Copy
<1> QED BY <1>1, InvHolds, PTL

\* A copy that can be relied on changes as a queue of speakers does.
THEOREM ImplementsQueue == Spec => ViewerSpec
<1>1. Init => Viewer!Init
  BY DEF Init, Viewer!Init
<1>2. Inv /\ [Next]_vars => [Viewer!Next]_<<synced, seen>>
  BY NextInv DEF ViewerStep
<1> QED BY <1>1, <1>2, InvHolds, PTL DEF Spec, ViewerSpec, Viewer!Spec, seen

-----------------------------------------------------------------------------
(* What a queue of speakers promises, and with it every copy.              *)

LEMMA ViewerMove ==
  ASSUME Viewer!Proper(seen), Viewer!Move
  PROVE  Viewer!Proper(seen') /\ Head(seen') = Head(seen)
<1>1. PICK u \in Viewer!Waiting(seen) :
        \/ Viewer!CanLower(seen, u) /\ seen' = Viewer!Lowered(seen, u)
        \/ Viewer!CanRaise(seen, u) /\ seen' = Viewer!Raised(seen, u)
        \/ Viewer!CanRaise(seen, u) /\ seen' = Viewer!Second(seen, u)
  BY DEF Viewer!Move, seen
<1> QED BY <1>1, MoveProper

LEMMA ViewerProper ==
  ASSUME Viewer!Proper(seen), ViewerStep
  PROVE  Viewer!Proper(seen)'
<1>1. CASE Viewer!Enter \/ Viewer!Join
  BY <1>1 DEF Viewer!Enter, Viewer!Join, seen
<1>2. CASE Viewer!Hide \/ Viewer!Clear
  BY <1>2, EmptyProper DEF Viewer!Hide, Viewer!Clear, seen
<1>3. CASE Viewer!Leave
  <2>1. PICK u \in ToSet(seen) : seen' = Viewer!Left(seen, u)
    BY <1>3, HelperDefs DEF Viewer!Leave, seen
  <2> QED BY <2>1, LeftProper
<1>4. CASE Viewer!Move
  BY <1>4, ViewerMove
<1>5. CASE UNCHANGED <<synced, seen>>
  BY <1>5
<1> QED BY <1>1, <1>2, <1>3, <1>4, <1>5 DEF ViewerStep, Viewer!Next

\* Nobody is in a queue of speakers twice.
THEOREM NobodyTwice == Viewer!Spec => []Viewer!Proper(seen)
<1>1. Viewer!Init => Viewer!Proper(seen)
  BY EmptyProper DEF Viewer!Init, seen
<1>2. Viewer!Proper(seen) /\ [Viewer!Next]_<<synced, seen>> => Viewer!Proper(seen)'
  BY ViewerProper DEF ViewerStep
<1> QED BY <1>1, <1>2, PTL DEF Viewer!Spec, seen

\* Only the speaker's own leaving makes another one the speaker.
THEOREM SpeakerKept == Viewer!Spec => Viewer!SpeakerStays
<1> DEFINE Kept == synced /\ synced' /\ seen # << >> /\ seen' # << >>
                     /\ Head(seen') # Head(seen)
                     => seen' = Viewer!Left(seen, Head(seen))
<1>1. Viewer!Proper(seen) /\ [Viewer!Next]_<<synced, seen>> => [Kept]_<<synced, seen>>
  <2> SUFFICES ASSUME Viewer!Proper(seen), Viewer!Next, synced, synced', seen # << >>,
                      seen' # << >>, Head(seen') # Head(seen)
               PROVE  seen' = Viewer!Left(seen, Head(seen))
    BY DEF Kept
  <2>1. CASE Viewer!Join
    <3>1. IsStrictPrefix(seen, seen') /\ Viewer!Proper(seen')
      BY <2>1, HelperDefs DEF Viewer!Join, seen
    <3> QED BY <3>1, JoinFacts
  <2>2. CASE Viewer!Leave
    <3>1. PICK u \in ToSet(seen) : seen' = Viewer!Left(seen, u)
      BY <2>2, HelperDefs DEF Viewer!Leave, seen
    <3> QED BY <3>1, LeftProper
  <2>3. CASE Viewer!Move
    BY <2>3, ViewerMove
  <2>4. ~ Viewer!Enter /\ ~ Viewer!Hide /\ ~ Viewer!Clear
    BY DEF Viewer!Enter, Viewer!Hide, Viewer!Clear, seen
  <2> QED BY <2>1, <2>2, <2>3, <2>4 DEF Viewer!Next
<1> QED BY <1>1, NobodyTwice, PTL DEF Viewer!Spec, Viewer!SpeakerStays, seen

\* So no order of messages makes a copy that can be relied on hold somebody twice, or
\* change its speaker otherwise than by his leaving.
THEOREM CopyKeepsPromises == Spec => []Viewer!Proper(seen) /\ Viewer!SpeakerStays
<1> QED BY ImplementsQueue, NobodyTwice, SpeakerKept DEF ViewerSpec
=============================================================================
