---------------------------- MODULE KernelProofs ----------------------------
(***************************************************************************)
(* What the functions of Kernel.tla preserve, for any number of threads,   *)
(* priorities and wait lists.                                              *)
(***************************************************************************)
EXTENDS Kernel, SequenceTheorems, FiniteSetTheorems, WellFoundedInduction, TLAPS

-----------------------------------------------------------------------------
(* Lists and loops *)

(* A non-empty set of naturals has a least element: __rt_ffs finds a bit    *)
(* whenever one is set.                                                     *)
LEMMA MinIsLeast ==
    ASSUME NEW S \in SUBSET Nat, S # {}
    PROVE  Min(S) \in S /\ \A y \in S : Min(S) <= y
<1>1. \E x \in S : \A y \in S : ~(<<y, x>> \in OpToRel(<, Nat))
  BY NatLessThanWellFounded, WFMin
<1>2. PICK x \in S : \A y \in S : ~(<<y, x>> \in OpToRel(<, Nat))
  BY <1>1
<1>3. ASSUME NEW y \in S PROVE x <= y
  <2>1. <<y, x>> \in Nat \X Nat
    OBVIOUS
  <2>2. ~(y < x)
    BY <1>2, <2>1 DEF OpToRel
  <2>3. QED
    BY <2>2
<1>4. QED
  BY <1>3 DEF Min

(* What holds before a loop and is kept by each of its rounds holds after it. *)
LEMMA CountUp ==
    ASSUME NEW N, N \in Nat, NEW G, 0 \in G, \A n \in 1 .. N : n - 1 \in G => n \in G
    PROVE  N \in G
<1> DEFINE Bad == {n \in 0 .. N : n \notin G}
<1>1. CASE Bad = {}
  BY <1>1
<1>2. CASE Bad # {}
  <2>1. Bad \in SUBSET Nat
    OBVIOUS
  <2>2. PICK m \in Bad : \A y \in Bad : m <= y
    <3> HIDE DEF Bad
    <3> QED
      BY <1>2, <2>1, MinIsLeast
  <2>3. m \in 0 .. N /\ m \notin G /\ m # 0
    OBVIOUS
  <2>4. m \in 1 .. N /\ m - 1 \in 0 .. N /\ ~(m <= m - 1)
    BY <2>3
  <2>5. m - 1 \in G
    BY <2>2, <2>4
  <2> QED
    BY <2>3, <2>4, <2>5
<1> QED
  BY <1>1, <1>2

\* The states f[0], ..., f[N] of a loop of N rounds that starts in a.
Rounds(f, a, N, S, Step) ==
    /\ f \in [0 .. N -> S]
    /\ f[0] = a
    /\ \A n \in 1 .. N : f[n] = Step[n][f[n - 1]]

(* A loop of N rounds, each of which leads from S to S, has its states in S.  *)
LEMMA RoundsExist ==
    ASSUME NEW S, NEW a, a \in S, NEW N, N \in Nat,
           NEW Step, Step \in [1 .. N -> [S -> S]]
    PROVE  \E f : Rounds(f, a, N, S, Step)
<1> SUFFICES \E f \in [0 .. N -> S] :
               f[0] = a /\ \A n \in 1 .. N : f[n] = Step[n][f[n - 1]]
  BY DEF Rounds
<1> DEFINE Run(m, f) == f[0] = a /\ \A n \in 1 .. m : f[n] = Step[n][f[n - 1]]
           Bad == {m \in 0 .. N : ~ \E f \in [0 .. m -> S] : Run(m, f)}
<1>1. CASE Bad = {}
  <2>1. N \in 0 .. N
    OBVIOUS
  <2>2. N \notin Bad
    BY <1>1
  <2> QED
    BY <2>1, <2>2
<1>2. CASE Bad # {}
  <2>1. Bad \in SUBSET Nat
    OBVIOUS
  <2> HIDE DEF Bad
  <2>2. PICK m \in Bad : \A y \in Bad : m <= y
    BY <1>2, <2>1, MinIsLeast
  <2> USE DEF Bad
  <2>3. m \in 0 .. N /\ ~ \E f \in [0 .. m -> S] : Run(m, f)
    OBVIOUS
  <2>4. CASE m = 0
    <3> DEFINE f == [i \in 0 .. 0 |-> a]
    <3>1. f \in [0 .. 0 -> S] /\ Run(0, f)
      OBVIOUS
    <3> QED
      BY <2>3, <2>4, <3>1
  <2>5. CASE m # 0
    <3>1. m - 1 \in 0 .. N /\ m - 1 \notin Bad
      <4>1. m - 1 \in 0 .. N /\ ~(m <= m - 1)
        BY <2>3, <2>5
      <4> QED
        BY <2>2, <4>1
    <3>2. PICK g \in [0 .. m - 1 -> S] : Run(m - 1, g)
      BY <3>1
    <3> DEFINE f == [i \in 0 .. m |-> IF i = m THEN Step[m][g[m - 1]] ELSE g[i]]
    <3>3. f \in [0 .. m -> S]
      <4>1. m \in 1 .. N /\ m - 1 \in 0 .. m - 1
        BY <2>3, <2>5
      <4>2. Step[m][g[m - 1]] \in S
        BY <4>1
      <4> QED
        BY <2>3, <4>2
    <3>4. f[0] = a
      BY <2>3, <2>5, <3>2
    <3>5. ASSUME NEW n \in 1 .. m PROVE f[n] = Step[n][f[n - 1]]
      <4>1. CASE n = m
        <5>1. f[m] = Step[m][g[m - 1]] /\ f[m - 1] = g[m - 1]
          BY <2>3, <2>5
        <5> QED
          BY <4>1, <5>1
      <4>2. CASE n # m
        <5>1. n \in 1 .. m - 1 /\ f[n] = g[n] /\ f[n - 1] = g[n - 1]
          BY <2>3, <2>5, <4>2
        <5> QED
          BY <3>2, <5>1
      <4> QED
        BY <4>1, <4>2
    <3> QED
      BY <2>3, <3>3, <3>4, <3>5
  <2> QED
    BY <2>4, <2>5
<1> QED
  BY <1>1, <1>2

(* The elements of a list are what its positions hold.                      *)
LEMMA ToSetIsRange ==
    ASSUME NEW S, NEW s \in Seq(S), NEW x
    PROVE  x \in ToSet(s) <=> \E i \in 1 .. Len(s) : s[i] = x
BY DEF ToSet

\* The list r is s without the node at n.
WithoutNode(r, s, n) ==
    /\ n \in 1 .. Len(s) /\ Len(r) = Len(s) - 1
    /\ \A j \in 1 .. Len(s) - 1 : r[j] = IF j < n THEN s[j] ELSE s[j + 1]

\* The list r is s with e linked in at n.
WithNode(r, s, n, e) ==
    /\ Len(r) = Len(s) + 1 /\ r[n] = e
    /\ \A j \in 1 .. n - 1 : r[j] = s[j]
    /\ \A j \in n + 1 .. Len(s) + 1 : r[j] = s[j - 1]

(* Unlinking a node moves those behind it up by one, and keeps their order.  *)
LEMMA RemovePositions ==
    ASSUME NEW S, NEW s, s \in Seq(S), NEW e, e \in ToSet(s),
           NEW q, q = RemoveFirst(s, e)
    PROVE  q \in Seq(S) /\ \E n : s[n] = e /\ WithoutNode(q, s, n)
<1> DEFINE I == {i \in 1 .. Len(s) : s[i] = e}
           n == Min(I)
           r == RemoveAt(s, n)
<1>0. \E i \in 1 .. Len(s) : s[i] = e
  BY ToSetIsRange
<1>1. n \in 1 .. Len(s) /\ s[n] = e
  <2>1. I \in SUBSET Nat /\ I # {}
    BY <1>0
  <2>2. Min(I) \in I
    BY ONLY <2>1, MinIsLeast
  <2>3. QED
    BY <2>2
<1>2. RemoveFirst(s, e) = r
  BY <1>0 DEF RemoveFirst, SelectInSeq
<1> HIDE DEF n
<1>3. /\ r \in Seq(S) /\ Len(r) = Len(s) - 1
      /\ \A j \in 1 .. Len(s) - 1 : r[j] = IF j < n THEN s[j] ELSE s[j + 1]
  <2> DEFINE a == SubSeq(s, 1, n - 1)
             b == SubSeq(s, n + 1, Len(s))
  <2>1. /\ a \in Seq(S) /\ Len(a) = n - 1
        /\ \A j \in 1 .. n - 1 : a[j] = s[j]
    BY <1>1
  <2>2. /\ b \in Seq(S) /\ Len(b) = Len(s) - n
        /\ \A j \in 1 .. Len(s) - n : b[j] = s[n + j]
    BY <1>1
  <2>3. r = a \o b
    BY DEF RemoveAt
  <2> HIDE DEF a, b, r
  <2>4. /\ a \o b \in Seq(S) /\ Len(a \o b) = Len(a) + Len(b)
        /\ \A j \in 1 .. Len(a) + Len(b) :
               (a \o b)[j] = IF j <= Len(a) THEN a[j] ELSE b[j - Len(a)]
    BY ONLY <2>1, <2>2, ConcatProperties
  <2>5. /\ n \in 1 .. Len(s) /\ Len(s) \in Nat
        /\ Len(a) + Len(b) = Len(s) - 1
    BY <1>1, <2>1, <2>2
  <2>6. r \in Seq(S) /\ Len(r) = Len(s) - 1
    BY ONLY <2>3, <2>4, <2>5
  <2>7. ASSUME NEW j \in 1 .. Len(s) - 1
        PROVE  r[j] = IF j < n THEN s[j] ELSE s[j + 1]
    <3>1. CASE j < n
      <4>1. j \in 1 .. n - 1 /\ j <= Len(a) /\ j \in 1 .. Len(a) + Len(b)
        BY ONLY <3>1, <2>1, <2>5, j \in 1 .. Len(s) - 1
      <4> QED
        BY ONLY <3>1, <4>1, <2>1, <2>3, <2>4
    <3>2. CASE ~(j < n)
      <4>1. /\ ~(j <= Len(a)) /\ j \in 1 .. Len(a) + Len(b)
            /\ j - Len(a) \in 1 .. Len(s) - n /\ n + (j - Len(a)) = j + 1
        BY ONLY <3>2, <2>1, <2>5, j \in 1 .. Len(s) - 1
      <4>2. b[j - Len(a)] = s[j + 1]
        BY ONLY <4>1, <2>2
      <4> QED
        BY ONLY <3>2, <4>1, <4>2, <2>3, <2>4
    <3> QED
      BY <3>1, <3>2
  <2> QED
    BY <2>6, <2>7
<1> HIDE DEF r
<1>4. WithoutNode(r, s, n)
  BY <1>1, <1>3 DEF WithoutNode
<1> QED
  BY <1>1, <1>2, <1>3, <1>4

(* Unlinking a node takes that thread, and no other, off a list.            *)
LEMMA RemoveFirstRemoves ==
    ASSUME NEW S, NEW s \in Seq(S), IsInjective(s), NEW e
    PROVE  /\ RemoveFirst(s, e) \in Seq(S)
           /\ ToSet(RemoveFirst(s, e)) = ToSet(s) \ {e}
           /\ IsInjective(RemoveFirst(s, e))
<1>1. CASE e \in ToSet(s)
  <2> DEFINE r == RemoveFirst(s, e)
  <2>0. r \in Seq(S) /\ \E n : s[n] = e /\ WithoutNode(r, s, n)
    BY ONLY <1>1, s \in Seq(S), RemovePositions
  <2> HIDE DEF r
  <2>1. PICK n \in 1 .. Len(s) :
            /\ s[n] = e
            /\ \A j \in 1 .. Len(s) - 1 : r[j] = IF j < n THEN s[j] ELSE s[j + 1]
    BY <2>0 DEF WithoutNode
  <2>3. r \in Seq(S) /\ Len(r) = Len(s) - 1
    BY <2>0 DEF WithoutNode
  <2>4. IsInjective(r)
    <3> DEFINE at(j) == IF j < n THEN j ELSE j + 1
    <3>1. ASSUME NEW j \in 1 .. Len(s) - 1
          PROVE  at(j) \in 1 .. Len(s) /\ r[j] = s[at(j)]
      BY <2>1, <2>3
    <3>2. ASSUME NEW i \in 1 .. Len(s) - 1, NEW j \in 1 .. Len(s) - 1,
                 at(i) = at(j)
          PROVE  i = j
      BY <2>1, <3>2
    <3>3. \A i, j \in 1 .. Len(s) : s[i] = s[j] => i = j
      BY DEF IsInjective
    <3> HIDE DEF at
    <3>4. ASSUME NEW i \in 1 .. Len(s) - 1, NEW j \in 1 .. Len(s) - 1,
                 r[i] = r[j]
          PROVE  i = j
      BY <3>1, <3>2, <3>3, <3>4
    <3>5. DOMAIN r = 1 .. Len(s) - 1
      BY <2>1, <2>3
    <3>6. QED
      BY <3>4, <3>5 DEF IsInjective
  <2>5. ToSet(r) = ToSet(s) \ {e}
    <3>1. ASSUME NEW x \in ToSet(r) PROVE x \in ToSet(s) \ {e}
      <4> DEFINE at(j) == IF j < n THEN j ELSE j + 1
      <4>1. PICK j \in 1 .. Len(r) : r[j] = x
        BY <2>3, ToSetIsRange
      <4>2. at(j) \in 1 .. Len(s) /\ s[at(j)] = x /\ at(j) # n
        BY <2>1, <2>3, <4>1
      <4>3. \A h, i \in 1 .. Len(s) : s[h] = s[i] => h = i
        BY DEF IsInjective
      <4> HIDE DEF at
      <4>4. x # e
        BY <2>1, <4>2, <4>3
      <4>5. QED
        BY <4>2, <4>4, ToSetIsRange
    <3>2. ASSUME NEW x \in ToSet(s) \ {e} PROVE x \in ToSet(r)
      <4>1. PICK i \in 1 .. Len(s) : s[i] = x
        BY DEF ToSet
      <4>2. i # n
        BY <4>1, <2>1
      <4>3. CASE i < n
        <5>1. i \in 1 .. Len(r) /\ r[i] = x
          BY <4>1, <4>3, <2>1, <2>3
        <5>2. QED
          BY <5>1, <2>3 DEF ToSet
      <4>4. CASE i > n
        <5>1. i - 1 \in 1 .. Len(r) /\ r[i - 1] = x
          BY <4>1, <4>4, <2>1, <2>3
        <5>2. QED
          BY <5>1, <2>3 DEF ToSet
      <4>5. QED
        BY <4>2, <4>3, <4>4, <2>1
    <3>3. QED
      BY <3>1, <3>2
  <2>6. QED
    BY <2>3, <2>4, <2>5 DEF r
<1>2. CASE e \notin ToSet(s)
  <2>1. RemoveFirst(s, e) = s
    BY <1>2, ToSetIsRange DEF RemoveFirst
  <2>3. QED
    BY <1>2, <2>1
<1>3. QED
  BY <1>1, <1>2

(* Linking a node at a position moves those from there on down by one.       *)
LEMMA InsertPositions ==
    ASSUME NEW S, NEW s, s \in Seq(S), NEW e, e \in S, NEW n, n \in 1 .. Len(s) + 1,
           NEW r, r = InsertAt(s, n, e)
    PROVE  r \in Seq(S) /\ WithNode(r, s, n, e)
<1> DEFINE a == SubSeq(s, 1, n - 1)
           b == SubSeq(s, n, Len(s))
           c == a \o <<e>>
<1>1. /\ a \in Seq(S) /\ Len(a) = n - 1
      /\ \A j \in 1 .. n - 1 : a[j] = s[j]
  OBVIOUS
<1>2. /\ b \in Seq(S) /\ Len(b) = Len(s) - n + 1
      /\ \A j \in 1 .. Len(s) - n + 1 : b[j] = s[n + j - 1]
  OBVIOUS
<1>3. r = c \o b
  BY DEF InsertAt
<1> HIDE DEF a, b
<1>4. /\ c \in Seq(S) /\ Len(c) = n
      /\ \A j \in 1 .. n : c[j] = IF j < n THEN a[j] ELSE e
  BY <1>1
<1> HIDE DEF c
<1>5. /\ c \o b \in Seq(S) /\ Len(c \o b) = Len(c) + Len(b)
      /\ \A j \in 1 .. Len(c) + Len(b) :
             (c \o b)[j] = IF j <= Len(c) THEN c[j] ELSE b[j - Len(c)]
  BY ONLY <1>2, <1>4, ConcatProperties
<1>6. /\ r \in Seq(S) /\ Len(r) = Len(s) + 1
      /\ \A j \in 1 .. Len(s) + 1 :
             r[j] = IF j < n THEN s[j] ELSE IF j = n THEN e ELSE s[j - 1]
  BY <1>1, <1>2, <1>3, <1>4, <1>5
<1> QED
  BY ONLY <1>6, s \in Seq(S), n \in 1 .. Len(s) + 1 DEF WithNode

(* Linking a thread at any position adds it, once, to a list.               *)
LEMMA InsertAtInserts ==
    ASSUME NEW S, NEW s \in Seq(S), IsInjective(s),
           NEW e \in S, e \notin ToSet(s), NEW n \in 1 .. Len(s) + 1
    PROVE  /\ InsertAt(s, n, e) \in Seq(S)
           /\ ToSet(InsertAt(s, n, e)) = ToSet(s) \union {e}
           /\ IsInjective(InsertAt(s, n, e))
<1> DEFINE r == InsertAt(s, n, e)
<1>1. /\ r \in Seq(S) /\ Len(r) = Len(s) + 1
      /\ \A j \in 1 .. Len(s) + 1 :
             r[j] = IF j < n THEN s[j] ELSE IF j = n THEN e ELSE s[j - 1]
  <2>1. r \in Seq(S) /\ WithNode(r, s, n, e)
    BY ONLY s \in Seq(S), e \in S, n \in 1 .. Len(s) + 1, InsertPositions
  <2> HIDE DEF r
  <2> QED
    BY <2>1 DEF WithNode
<1> HIDE DEF r
<1>2. IsInjective(r)
  <2>1. \A j \in 1 .. Len(s) : s[j] # e
    BY DEF ToSet
  <2>2. \A i, j \in 1 .. Len(s) : s[i] = s[j] => i = j
    BY DEF IsInjective
  <2> SUFFICES ASSUME NEW i \in 1 .. Len(s) + 1, NEW j \in 1 .. Len(s) + 1,
                      r[i] = r[j]
               PROVE  i = j
    BY <1>1 DEF IsInjective
  <2>3. CASE i = n
    <3>1. r[j] = e
      BY <1>1, <2>3
    <3>2. QED
      BY <1>1, <2>1, <2>3, <3>1
  <2>4. CASE j = n
    <3>1. r[i] = e
      BY <1>1, <2>4
    <3>2. QED
      BY <1>1, <2>1, <2>4, <3>1
  <2>5. CASE i # n /\ j # n
    <3> DEFINE f(h) == IF h < n THEN h ELSE h - 1
    <3>1. f(i) \in 1 .. Len(s) /\ f(j) \in 1 .. Len(s)
      BY <2>5
    <3>2. r[i] = s[f(i)] /\ r[j] = s[f(j)]
      BY <1>1, <2>5
    <3>3. f(i) = f(j)
      BY <2>2, <3>1, <3>2
    <3>4. QED
      BY <2>5, <3>3
  <2>6. QED
    BY <2>3, <2>4, <2>5
<1>3. ASSUME NEW x \in ToSet(r) PROVE x \in ToSet(s) \union {e}
  <2>1. PICK j \in 1 .. Len(r) : r[j] = x
    BY <1>1, ToSetIsRange
  <2>2. CASE j = n
    BY <2>1, <2>2, <1>1
  <2>3. CASE j < n
    <3>1. j \in 1 .. Len(s) /\ s[j] = x
      BY <2>1, <2>3, <1>1
    <3>2. QED
      BY <3>1, ToSetIsRange
  <2>4. CASE j > n
    <3>1. j - 1 \in 1 .. Len(s) /\ s[j - 1] = x
      BY <2>1, <2>4, <1>1
    <3>2. QED
      BY <3>1, ToSetIsRange
  <2>5. QED
    BY <2>1, <2>2, <2>3, <2>4
<1>4. e \in ToSet(r)
  <2>1. n \in 1 .. Len(r) /\ r[n] = e
    BY <1>1
  <2>2. QED
    BY <2>1, <1>1, ToSetIsRange
<1>5. ASSUME NEW x \in ToSet(s) PROVE x \in ToSet(r)
  <2>1. PICK i \in 1 .. Len(s) : s[i] = x
    BY DEF ToSet
  <2>2. CASE i < n
    <3>1. i \in 1 .. Len(r) /\ r[i] = x
      BY <2>1, <2>2, <1>1
    <3>2. QED
      BY <3>1, <1>1, ToSetIsRange
  <2>3. CASE i >= n
    <3>1. i + 1 \in 1 .. Len(r) /\ r[i + 1] = x
      BY <2>1, <2>3, <1>1
    <3>2. QED
      BY <3>1, <1>1, ToSetIsRange
  <2>4. QED
    BY <2>1, <2>2, <2>3
<1>6. QED
  BY <1>1, <1>2, <1>3, <1>4, <1>5 DEF r

(* Linking a thread at the tail is linking it at the last position.         *)
LEMMA AppendInserts ==
    ASSUME NEW S, NEW s \in Seq(S), IsInjective(s), NEW e \in S, e \notin ToSet(s)
    PROVE  /\ Append(s, e) \in Seq(S)
           /\ ToSet(Append(s, e)) = ToSet(s) \union {e}
           /\ IsInjective(Append(s, e))
<1>1. /\ Append(s, e) \in Seq(S) /\ Len(Append(s, e)) = Len(s) + 1
      /\ \A j \in 1 .. Len(s) : Append(s, e)[j] = s[j]
      /\ Append(s, e)[Len(s) + 1] = e
  OBVIOUS
<1>2. IsInjective(Append(s, e))
  BY <1>1 DEF IsInjective, ToSet
<1>3. ToSet(Append(s, e)) = ToSet(s) \union {e}
  BY <1>1 DEF ToSet
<1>4. QED
  BY <1>1, <1>2, <1>3

(* A list is empty exactly when it has no elements.                         *)
LEMMA EmptyList ==
    ASSUME NEW S, NEW s \in Seq(S)
    PROVE  s = <<>> <=> ToSet(s) = {}
<1>1. s = <<>> => ToSet(s) = {}
  BY DEF ToSet
<1>2. s # <<>> => ToSet(s) # {}
  <2>1. s # <<>> => 1 \in 1 .. Len(s)
    OBVIOUS
  <2>2. QED
    BY <2>1, ToSetIsRange
<1>3. QED
  BY <1>1, <1>2

(* The first element of a list is one of its elements.                      *)
LEMMA HeadIsElement ==
    ASSUME NEW S, NEW s \in Seq(S), s # <<>>
    PROVE  Head(s) \in ToSet(s) /\ Head(s) \in S
BY DEF ToSet

-----------------------------------------------------------------------------
(* A kernel state in which thread t is on no list and everybody else is     *)
(* where its state says: the state inside a handler that moves t.           *)
Loose(k, t) ==
    /\ k \in KernelState
    /\ GroupMatchesTable(k)
    /\ ListsAreSets(k)
    /\ LinkedByStat(k, Thread \ {t})
    /\ \A p \in Priority : t \notin ToSet(k.ready[p])
    /\ \A l \in WaitList : t \notin ToSet(k.wait[l])

(* The fields that moving a thread between lists leaves alone.              *)
SameButLists(u, k) ==
    /\ u.stat = k.stat /\ u.prio = k.prio /\ u.cur = k.cur
    /\ u.nest = k.nest /\ u.err = k.err /\ u.timer = k.timer

(* rt_list_remove takes one thread off every list and keeps the rest.       *)
LEMMA UnlinkEffect ==
    ASSUME NEW k \in KernelState, ListsAreSets(k), NEW t \in Thread
    PROVE  /\ Unlink(k, t) \in KernelState
           /\ ListsAreSets(Unlink(k, t))
           /\ \A p \in Priority :
                  ToSet(Unlink(k, t).ready[p]) = ToSet(k.ready[p]) \ {t}
           /\ \A l \in WaitList :
                  ToSet(Unlink(k, t).wait[l]) = ToSet(k.wait[l]) \ {t}
           /\ Unlink(k, t).group = k.group
           /\ SameButLists(Unlink(k, t), k)
<1> DEFINE u == Unlink(k, t)
<1>1. /\ u.ready = [p \in Priority |-> RemoveFirst(k.ready[p], t)]
      /\ u.wait = [l \in WaitList |-> RemoveFirst(k.wait[l], t)]
      /\ u.group = k.group
      /\ SameButLists(u, k)
  BY DEF Unlink, KernelState, SameButLists
<1> HIDE DEF u
<1>2. ASSUME NEW p \in Priority
      PROVE  /\ u.ready[p] \in Seq(Thread)
             /\ ToSet(u.ready[p]) = ToSet(k.ready[p]) \ {t}
             /\ IsInjective(u.ready[p])
  <2>1. k.ready[p] \in Seq(Thread) /\ IsInjective(k.ready[p])
    BY DEF KernelState, ListsAreSets
  <2>2. u.ready[p] = RemoveFirst(k.ready[p], t)
    BY <1>1
  <2>3. QED
    BY <2>1, <2>2, RemoveFirstRemoves
<1>3. ASSUME NEW l \in WaitList
      PROVE  /\ u.wait[l] \in Seq(Thread)
             /\ ToSet(u.wait[l]) = ToSet(k.wait[l]) \ {t}
             /\ IsInjective(u.wait[l])
  <2>1. k.wait[l] \in Seq(Thread) /\ IsInjective(k.wait[l])
    BY DEF KernelState, ListsAreSets
  <2>2. u.wait[l] = RemoveFirst(k.wait[l], t)
    BY <1>1
  <2>3. QED
    BY <2>1, <2>2, RemoveFirstRemoves
<1>4. u.ready \in [Priority -> Seq(Thread)] /\ u.wait \in [WaitList -> Seq(Thread)]
  BY <1>1, <1>2, <1>3
<1>5. u \in KernelState
  <2>1. u = [k EXCEPT !.ready = u.ready, !.wait = u.wait]
    BY <1>1 DEF u, Unlink
  <2>2. QED
    BY <2>1, <1>4 DEF KernelState
<1>6. ListsAreSets(u)
  BY <1>2, <1>3 DEF ListsAreSets
<1>7. QED
  BY <1>1, <1>2, <1>3, <1>5, <1>6 DEF u

(* Taking a thread that is not READY off its wait list.                     *)
LEMMA UnlinkLoosens ==
    ASSUME NEW k \in KernelState, KernelConsistent(k),
           NEW t \in Thread, k.stat[t] # "ready"
    PROVE  Loose(Unlink(k, t), t)
<1> DEFINE u == Unlink(k, t)
<1>1. /\ u \in KernelState /\ ListsAreSets(u)
      /\ \A p \in Priority : ToSet(u.ready[p]) = ToSet(k.ready[p]) \ {t}
      /\ \A l \in WaitList : ToSet(u.wait[l]) = ToSet(k.wait[l]) \ {t}
      /\ u.group = k.group /\ SameButLists(u, k)
  BY UnlinkEffect DEF KernelConsistent
<1> HIDE DEF u
<1>2. \A p \in Priority : t \notin ToSet(k.ready[p])
  BY DEF KernelConsistent, LinkedByStat, Listed
<1>3. \A p \in Priority : ToSet(u.ready[p]) = ToSet(k.ready[p])
  BY <1>1, <1>2
<1>4. GroupMatchesTable(u)
  <2>1. \A p \in Priority : u.ready[p] = <<>> <=> k.ready[p] = <<>>
    <3> TAKE p \in Priority
    <3>1. u.ready[p] \in Seq(Thread) /\ k.ready[p] \in Seq(Thread)
      BY <1>1 DEF KernelState
    <3>2. QED
      BY <3>1, <1>3, EmptyList
  <2>2. QED
    BY <1>1, <2>1 DEF GroupMatchesTable, KernelConsistent
<1>5. LinkedByStat(u, Thread \ {t})
  BY <1>1, <1>3 DEF LinkedByStat, Listed, KernelConsistent, SameButLists
<1>6. QED
  BY <1>1, <1>2, <1>3, <1>4, <1>5 DEF Loose, u

(* Taking a READY thread out of the ready queue: rt_schedule_remove_thread   *)
(* clears the bit of its priority exactly when the list becomes empty.      *)
LEMMA RemoveLoosens ==
    ASSUME NEW k \in KernelState, KernelConsistent(k),
           NEW t \in Thread, k.stat[t] = "ready"
    PROVE  /\ Loose(rt_schedule_remove_thread(k, t), t)
           /\ SameButLists(rt_schedule_remove_thread(k, t), k)
           /\ \A l \in WaitList :
                  ToSet(rt_schedule_remove_thread(k, t).wait[l]) = ToSet(k.wait[l])
<1> DEFINE u == Unlink(k, t)
           q == k.prio[t]
           r == rt_schedule_remove_thread(k, t)
<1>1. /\ u \in KernelState /\ ListsAreSets(u)
      /\ \A p \in Priority : ToSet(u.ready[p]) = ToSet(k.ready[p]) \ {t}
      /\ \A l \in WaitList : ToSet(u.wait[l]) = ToSet(k.wait[l]) \ {t}
      /\ u.group = k.group /\ SameButLists(u, k)
  BY UnlinkEffect DEF KernelConsistent
<1>2. q \in Priority
  BY DEF KernelState
<1>3. r = IF u.ready[q] = <<>> THEN [u EXCEPT !.group = @ \ {q}] ELSE u
  BY DEF rt_schedule_remove_thread
<1> HIDE DEF u, r, q
<1>4. /\ r \in KernelState /\ SameButLists(r, k)
      /\ r.ready = u.ready /\ r.wait = u.wait
      /\ r.group = IF u.ready[q] = <<>> THEN k.group \ {q} ELSE k.group
  <2>1. CASE u.ready[q] = <<>>
    BY <1>1, <1>2, <1>3, <2>1 DEF KernelState, SameButLists
  <2>2. CASE u.ready[q] # <<>>
    BY <1>1, <1>3, <2>2
  <2>3. QED
    BY <2>1, <2>2
<1>5. \A p \in Priority : t \in ToSet(k.ready[p]) <=> p = q
  BY <1>2 DEF KernelConsistent, LinkedByStat, Listed, q
<1>6. \A l \in WaitList : t \notin ToSet(k.wait[l])
  BY DEF KernelConsistent, LinkedByStat
<1>7. GroupMatchesTable(r)
  <2>1. ASSUME NEW p \in Priority, p # q
        PROVE  u.ready[p] = <<>> <=> k.ready[p] = <<>>
    <3>1. u.ready[p] \in Seq(Thread) /\ k.ready[p] \in Seq(Thread)
      BY <1>1 DEF KernelState
    <3>2. ToSet(u.ready[p]) = ToSet(k.ready[p])
      BY <1>1, <1>5, <2>1
    <3>3. QED
      BY <3>1, <3>2, EmptyList
  <2>2. k.ready[q] # <<>>
    <3>1. k.ready[q] \in Seq(Thread)
      BY <1>2 DEF KernelState
    <3>2. QED
      BY <1>2, <1>5, <3>1, EmptyList
  <2>3. k.group = {p \in Priority : k.ready[p] # <<>>}
    BY DEF KernelConsistent, GroupMatchesTable
  <2>4. QED
    BY <1>2, <1>4, <2>1, <2>2, <2>3 DEF GroupMatchesTable
<1>8. ListsAreSets(r)
  BY <1>1, <1>4 DEF ListsAreSets
<1>9. LinkedByStat(r, Thread \ {t})
  <2>1. ASSUME NEW x \in Thread \ {t} PROVE Listed(r, x) = Listed(k, x)
    BY <1>1, <1>4 DEF Listed
  <2>2. \A x \in Thread \ {t} : \A l \in WaitList :
            x \in ToSet(r.wait[l]) <=> x \in ToSet(k.wait[l])
    BY <1>1, <1>4
  <2>3. r.stat = k.stat /\ r.prio = k.prio
    BY <1>4 DEF SameButLists
  <2>4. LinkedByStat(k, Thread)
    BY DEF KernelConsistent
  <2>5. QED
    BY <2>1, <2>2, <2>3, <2>4 DEF LinkedByStat
<1>10. Loose(r, t)
  BY <1>1, <1>4, <1>7, <1>8, <1>9 DEF Loose
<1>11. ASSUME NEW l \in WaitList PROVE ToSet(r.wait[l]) = ToSet(k.wait[l])
  <2>1. ToSet(r.wait[l]) = ToSet(k.wait[l]) \ {t}
    BY <1>1, <1>4
  <2>2. QED
    BY <1>6, <2>1
<1>12. QED
  BY <1>4, <1>10, <1>11 DEF r

(* A loose thread whose own state, priority, timer or error changes stays    *)
(* loose.                                                                   *)
LEMMA LooseFrame ==
    ASSUME NEW k, NEW t \in Thread, Loose(k, t), NEW u \in KernelState,
           u.ready = k.ready, u.wait = k.wait, u.group = k.group,
           \A x \in Thread \ {t} : u.stat[x] = k.stat[x] /\ u.prio[x] = k.prio[x]
    PROVE  Loose(u, t)
<1>1. GroupMatchesTable(u) /\ ListsAreSets(u)
  BY DEF Loose, GroupMatchesTable, ListsAreSets
<1>2. LinkedByStat(u, Thread \ {t})
  BY DEF Loose, LinkedByStat, Listed
<1>3. QED
  BY <1>1, <1>2 DEF Loose

(* rt_schedule_insert_thread makes the table whole again.                   *)
LEMMA InsertTightens ==
    ASSUME NEW k, NEW t \in Thread, Loose(k, t),
           t = Idle \/ k.stat[Idle] = "ready"
    PROVE  /\ rt_schedule_insert_thread(k, t) \in KernelState
           /\ KernelConsistent(rt_schedule_insert_thread(k, t))
           /\ rt_schedule_insert_thread(k, t).stat = [k.stat EXCEPT ![t] = "ready"]
           /\ rt_schedule_insert_thread(k, t).wait = k.wait
           /\ rt_schedule_insert_thread(k, t).prio = k.prio
           /\ rt_schedule_insert_thread(k, t).cur = k.cur
           /\ rt_schedule_insert_thread(k, t).nest = k.nest
           /\ rt_schedule_insert_thread(k, t).err = k.err
           /\ rt_schedule_insert_thread(k, t).timer = k.timer
<1> DEFINE q == k.prio[t]
           r == rt_schedule_insert_thread(k, t)
<1>0. k \in KernelState /\ q \in Priority
  BY DEF Loose, KernelState
<1>1. /\ k.ready[q] \in Seq(Thread) /\ IsInjective(k.ready[q])
      /\ t \notin ToSet(k.ready[q])
  BY <1>0 DEF Loose, KernelState, ListsAreSets
<1>2. /\ Append(k.ready[q], t) \in Seq(Thread)
      /\ ToSet(Append(k.ready[q], t)) = ToSet(k.ready[q]) \union {t}
      /\ IsInjective(Append(k.ready[q], t))
  BY <1>1, AppendInserts
<1>3. /\ r.stat = [k.stat EXCEPT ![t] = "ready"]
      /\ r.ready = [k.ready EXCEPT ![q] = Append(k.ready[q], t)]
      /\ r.group = k.group \union {q}
      /\ r.wait = k.wait /\ r.prio = k.prio /\ r.cur = k.cur
      /\ r.nest = k.nest /\ r.err = k.err /\ r.timer = k.timer
  BY <1>0 DEF rt_schedule_insert_thread, KernelState
<1>4. r \in KernelState
  <2>1. r = [k EXCEPT !.stat = r.stat, !.ready = r.ready, !.group = r.group]
    BY <1>0, <1>3 DEF rt_schedule_insert_thread, KernelState
  <2>2. r.ready \in [Priority -> Seq(Thread)]
    BY <1>0, <1>2, <1>3 DEF KernelState
  <2>3. r.stat \in [Thread -> Stat] /\ r.group \in SUBSET Priority
    BY <1>0, <1>3 DEF KernelState, Stat
  <2> HIDE DEF r
  <2>4. QED
    BY <1>0, <2>1, <2>2, <2>3 DEF KernelState
<1> HIDE DEF r, q
<1>5. GroupMatchesTable(r)
  <2>1. k.ready \in [Priority -> Seq(Thread)]
    BY <1>0 DEF KernelState
  <2>2. r.ready[q] # <<>>
    <3>1. r.ready[q] = Append(k.ready[q], t)
      BY <1>0, <1>3, <2>1
    <3> QED
      BY <1>2, <3>1, EmptyList
  <2>3. \A p \in Priority \ {q} : r.ready[p] = k.ready[p]
    BY <1>3, <2>1
  <2>4. k.group = {p \in Priority : k.ready[p] # <<>>}
    BY DEF Loose, GroupMatchesTable
  <2>5. QED
    BY <1>0, <1>3, <2>2, <2>3, <2>4 DEF GroupMatchesTable
<1>6. ListsAreSets(r)
  BY <1>0, <1>2, <1>3 DEF ListsAreSets, Loose, KernelState
<1>7. \A p \in Priority :
          ToSet(r.ready[p]) = IF p = q THEN ToSet(k.ready[p]) \union {t}
                                       ELSE ToSet(k.ready[p])
  BY <1>0, <1>2, <1>3 DEF KernelState
<1>8. LinkedByStat(r, Thread)
  <2>1. ASSUME NEW x \in Thread \ {t}
        PROVE  /\ Listed(r, x) = IF r.stat[x] = "ready" THEN {r.prio[x]} ELSE {}
               /\ \A l \in WaitList : x \in ToSet(r.wait[l]) => r.stat[x] # "ready"
               /\ \A l, m \in WaitList :
                      x \in ToSet(r.wait[l]) /\ x \in ToSet(r.wait[m]) => l = m
    <3>1. r.stat[x] = k.stat[x]
      BY <1>0, <1>3 DEF KernelState
    <3>2. Listed(r, x) = Listed(k, x)
      BY <1>7 DEF Listed
    <3>3. QED
      BY <1>3, <3>1, <3>2 DEF Loose, LinkedByStat
  <2>2. r.stat[t] = "ready" /\ Listed(r, t) = {q}
    <3>1. r.stat[t] = "ready"
      BY <1>0, <1>3 DEF KernelState
    <3>2. \A p \in Priority : t \in ToSet(r.ready[p]) <=> p = q
      BY <1>7 DEF Loose
    <3>3. QED
      BY <1>0, <3>1, <3>2 DEF Listed
  <2>3. \A l \in WaitList : t \notin ToSet(r.wait[l])
    BY <1>3 DEF Loose
  <2>4. r.prio[t] = q
    BY <1>3 DEF q
  <2>5. QED
    BY <2>1, <2>2, <2>3, <2>4 DEF LinkedByStat
<1>9. r.stat[Idle] = "ready"
  BY <1>0, <1>3, KernelAssumption DEF KernelState
<1>10. QED
  BY <1>3, <1>4, <1>5, <1>6, <1>8, <1>9 DEF KernelConsistent, r

\* The wait lists of r are those of k, with t added to list l.
WaitAdds(r, k, l, t) ==
    \A m \in WaitList :
        ToSet(r.wait[m]) = IF m = l THEN ToSet(k.wait[m]) \union {t}
                                    ELSE ToSet(k.wait[m])

(* A loose thread that is not READY may be linked on one wait list, anywhere. *)
LEMMA WaitTightens ==
    ASSUME NEW k, NEW t \in Thread, NEW l \in WaitList, NEW n, NEW r,
           Loose(k, t), k.stat[t] # "ready", k.stat[Idle] = "ready",
           n \in 1 .. Len(k.wait[l]) + 1, r = LinkAt(k, l, n, t)
    PROVE  /\ r \in KernelState
           /\ KernelConsistent(r)
           /\ SameButLists(r, k)
           /\ WaitAdds(r, k, l, t)
<1>0. k \in KernelState
  BY DEF Loose
<1> DEFINE w == InsertAt(k.wait[l], n, t)
<1>1. /\ w \in Seq(Thread)
      /\ ToSet(w) = ToSet(k.wait[l]) \union {t}
      /\ IsInjective(w)
  <2>1. k.wait[l] \in Seq(Thread) /\ IsInjective(k.wait[l])
    BY <1>0 DEF Loose, KernelState, ListsAreSets
  <2>2. t \notin ToSet(k.wait[l])
    BY DEF Loose
  <2>3. QED
    BY <2>1, <2>2, InsertAtInserts
<1> HIDE DEF w
<1>2. r = [k EXCEPT !.wait = [k.wait EXCEPT ![l] = w]]
  BY <1>0 DEF w, LinkAt, KernelState
<1>3. [k.wait EXCEPT ![l] = w] \in [WaitList -> Seq(Thread)]
  BY <1>0, <1>1 DEF KernelState
<1>4. r \in KernelState
  BY <1>0, <1>2, <1>3 DEF KernelState
<1>5. /\ r.wait = [k.wait EXCEPT ![l] = w] /\ r.ready = k.ready
      /\ r.group = k.group /\ SameButLists(r, k)
  BY <1>0, <1>2 DEF KernelState, SameButLists
<1>6. \A m \in WaitList : r.wait[m] = IF m = l THEN w ELSE k.wait[m]
  BY <1>0, <1>5 DEF KernelState
<1>7. \A m \in WaitList :
          ToSet(r.wait[m]) = IF m = l THEN ToSet(k.wait[m]) \union {t}
                                      ELSE ToSet(k.wait[m])
  BY <1>1, <1>6
<1>8. GroupMatchesTable(r)
  BY <1>5 DEF Loose, GroupMatchesTable
<1>9. ListsAreSets(r)
  BY <1>1, <1>5, <1>6 DEF Loose, ListsAreSets
<1>10. LinkedByStat(r, Thread)
  <2>1. ASSUME NEW x \in Thread \ {t}
        PROVE  /\ Listed(r, x) = IF r.stat[x] = "ready" THEN {r.prio[x]} ELSE {}
               /\ \A m \in WaitList : x \in ToSet(r.wait[m]) => r.stat[x] # "ready"
               /\ \A m, o \in WaitList :
                      x \in ToSet(r.wait[m]) /\ x \in ToSet(r.wait[o]) => m = o
    <3>1. \A m \in WaitList : x \in ToSet(r.wait[m]) <=> x \in ToSet(k.wait[m])
      BY ONLY <1>7, x \in Thread \ {t}
    <3>2. Listed(r, x) = Listed(k, x)
      BY <1>5 DEF Listed
    <3>3. QED
      BY <1>5, <3>1, <3>2 DEF Loose, LinkedByStat, SameButLists
  <2>2. r.stat[t] # "ready" /\ Listed(r, t) = {}
    BY <1>5 DEF Loose, Listed, SameButLists
  <2>3. \A m \in WaitList : t \in ToSet(r.wait[m]) <=> m = l
    <3>1. \A m \in WaitList : t \notin ToSet(k.wait[m])
      BY DEF Loose
    <3>2. QED
      BY ONLY <1>7, <3>1
  <2>4. QED
    BY ONLY <2>1, <2>2, <2>3 DEF LinkedByStat
<1>11. QED
  BY <1>4, <1>5, <1>7, <1>8, <1>9, <1>10 DEF KernelConsistent, SameButLists, WaitAdds

(* rt_thread_suspend leaves the thread on no list, with its timer stopped.   *)
LEMMA SuspendLoosens ==
    ASSUME NEW k \in KernelState, KernelConsistent(k),
           NEW t \in Thread, k.stat[t] = "ready",
           NEW s, s = rt_thread_suspend(k, t)
    PROVE  /\ Loose(s, t)
           /\ s.stat = [k.stat EXCEPT ![t] = "suspend"]
           /\ s.timer = [k.timer EXCEPT ![t] = FALSE]
           /\ s.prio = k.prio /\ s.cur = k.cur /\ s.nest = k.nest /\ s.err = k.err
           /\ \A l \in WaitList : ToSet(s.wait[l]) = ToSet(k.wait[l])
<1> DEFINE r == rt_schedule_remove_thread(k, t)
<1>1. /\ Loose(r, t) /\ SameButLists(r, k)
      /\ \A l \in WaitList : ToSet(r.wait[l]) = ToSet(k.wait[l])
  BY RemoveLoosens
<1>2. s = [r EXCEPT !.stat[t] = "suspend", !.timer[t] = FALSE]
  BY DEF rt_thread_suspend, Suspend
<1> HIDE DEF r
<1>3. r \in KernelState
  BY <1>1 DEF Loose
<1>4. /\ s.stat = [r.stat EXCEPT ![t] = "suspend"]
      /\ s.timer = [r.timer EXCEPT ![t] = FALSE]
      /\ s.prio = r.prio /\ s.cur = r.cur /\ s.nest = r.nest /\ s.err = r.err
      /\ s.ready = r.ready /\ s.group = r.group /\ s.wait = r.wait
  BY <1>2, <1>3 DEF KernelState
<1>5. s \in KernelState
  <2>1. s.stat \in [Thread -> Stat] /\ s.timer \in [Thread -> BOOLEAN]
    BY <1>3, <1>4 DEF KernelState, Stat
  <2>2. s = [r EXCEPT !.stat = s.stat, !.timer = s.timer]
    BY ONLY <1>2, <1>3, <1>4 DEF KernelState
  <2>3. QED
    BY ONLY <1>3, <2>1, <2>2 DEF KernelState
<1>6. \A x \in Thread \ {t} : s.stat[x] = r.stat[x] /\ s.prio[x] = r.prio[x]
  BY <1>3, <1>4 DEF KernelState
<1>7. Loose(s, t)
  <2>1. Loose(r, t) /\ s.ready = r.ready /\ s.wait = r.wait /\ s.group = r.group
    BY <1>1, <1>4
  <2> QED
    BY ONLY <1>5, <1>6, <2>1, t \in Thread, LooseFrame
<1>8. QED
  BY <1>1, <1>4, <1>7 DEF SameButLists

(* rt_ipc_list_suspend takes the running thread out of the ready queue and   *)
(* links it on the wait list, for either discipline.                        *)
LEMMA ListSuspendEffect ==
    ASSUME NEW k \in KernelState, KernelConsistent(k),
           NEW t \in Thread, t # Idle, k.stat[t] = "ready",
           NEW l \in WaitList, NEW f,
           NEW r, r = rt_ipc_list_suspend(k, l, t, f)
    PROVE  /\ r \in KernelState
           /\ KernelConsistent(r)
           /\ r.stat = [k.stat EXCEPT ![t] = "suspend"]
           /\ r.timer = [k.timer EXCEPT ![t] = FALSE]
           /\ r.prio = k.prio /\ r.cur = k.cur /\ r.nest = k.nest /\ r.err = k.err
           /\ WaitAdds(r, k, l, t)
<1> DEFINE s == rt_thread_suspend(k, t)
           n == WaitPosition(s, l, t, f)
<1>1. /\ Loose(s, t)
      /\ s.stat = [k.stat EXCEPT ![t] = "suspend"]
      /\ s.timer = [k.timer EXCEPT ![t] = FALSE]
      /\ s.prio = k.prio /\ s.cur = k.cur /\ s.nest = k.nest /\ s.err = k.err
      /\ \A m \in WaitList : ToSet(s.wait[m]) = ToSet(k.wait[m])
  BY SuspendLoosens
<1>2. r = LinkAt(s, l, n, t)
  BY DEF rt_ipc_list_suspend
<1> HIDE DEF s
<1>3. n \in 1 .. Len(s.wait[l]) + 1
  <2>1. s.wait[l] \in Seq(Thread)
    BY <1>1 DEF Loose, KernelState
  <2> DEFINE I == {i \in 1 .. Len(s.wait[l]) : s.prio[t] < s.prio[s.wait[l][i]]}
  <2>2. I # {} => Min(I) \in 1 .. Len(s.wait[l])
    <3>1. I \in SUBSET Nat
      OBVIOUS
    <3>2. I # {} => Min(I) \in I
      BY ONLY <3>1, MinIsLeast
    <3>3. QED
      BY <3>2
  <2>3. SelectInSeq(s.wait[l], LAMBDA u : s.prio[t] < s.prio[u])
           = IF I # {} THEN Min(I) ELSE 0
    BY DEF SelectInSeq
  <2> HIDE DEF I
  <2>4. QED
    BY <2>1, <2>2, <2>3 DEF WaitPosition
<1> HIDE DEF n
<1>4. s.stat[t] # "ready" /\ s.stat[Idle] = "ready"
  BY <1>1, KernelAssumption DEF KernelState, KernelConsistent
<1>5. /\ r \in KernelState /\ KernelConsistent(r) /\ SameButLists(r, s)
      /\ WaitAdds(r, s, l, t)
  <2>1. Loose(s, t)
    BY <1>1
  <2>2. QED
    BY <2>1, <1>2, <1>3, <1>4, WaitTightens
<1>6. QED
  BY <1>1, <1>5 DEF SameButLists, WaitAdds

\* The same threads wait on every list of r as on the lists of k.
SameWaits(r, k) == \A m \in WaitList : ToSet(r.wait[m]) = ToSet(k.wait[m])

\* The wait lists of r are those of k without t.
WaitDrops(r, k, t) == \A m \in WaitList : ToSet(r.wait[m]) = ToSet(k.wait[m]) \ {t}

(* An edit of errors, timers or of the running thread disturbs no list.      *)
LEMMA FieldFrame ==
    ASSUME NEW k \in KernelState, KernelConsistent(k), NEW u \in KernelState,
           u.ready = k.ready, u.wait = k.wait, u.group = k.group,
           u.stat = k.stat, u.prio = k.prio
    PROVE  KernelConsistent(u) /\ SameWaits(u, k)
<1>1. GroupMatchesTable(u) /\ ListsAreSets(u)
  BY DEF KernelConsistent, GroupMatchesTable, ListsAreSets
<1>2. LinkedByStat(u, Thread)
  BY DEF KernelConsistent, LinkedByStat, Listed
<1>3. QED
  BY <1>1, <1>2 DEF KernelConsistent, SameWaits

(* rt_schedule always finds a thread, the one it finds is READY, and nothing *)
(* but rt_current_thread changes.                                           *)
LEMMA ScheduleEffect ==
    ASSUME NEW k \in KernelState, KernelConsistent(k), NEW r, r = rt_schedule(k)
    PROVE  /\ r \in KernelState
           /\ KernelConsistent(r)
           /\ k.nest = 0 => r.stat[r.cur] = "ready"
           /\ r.stat = k.stat /\ r.prio = k.prio /\ r.nest = k.nest
           /\ r.err = k.err /\ r.timer = k.timer /\ r.wait = k.wait
<1> DEFINE c == Head(k.ready[HighestReady(k)])
<1>1. k.prio[Idle] \in k.group
  <2>1. Listed(k, Idle) = {k.prio[Idle]}
    BY KernelAssumption DEF KernelConsistent, LinkedByStat
  <2>2. k.prio[Idle] \in Priority
    BY KernelAssumption DEF KernelState
  <2>3. Idle \in ToSet(k.ready[k.prio[Idle]])
    BY <2>1, <2>2 DEF Listed
  <2>4. k.ready[k.prio[Idle]] \in Seq(Thread)
    BY <2>2 DEF KernelState
  <2>5. k.ready[k.prio[Idle]] # <<>>
    BY <2>3, <2>4, EmptyList
  <2>6. QED
    BY <2>2, <2>5 DEF KernelConsistent, GroupMatchesTable
<1>2. HighestReady(k) \in k.group
  <2>1. k.group \in SUBSET Nat
    BY KernelAssumption DEF KernelState
  <2>2. QED
    BY <1>1, <2>1, MinIsLeast DEF HighestReady
<1>3. HighestReady(k) \in Priority /\ k.ready[HighestReady(k)] # <<>>
  BY <1>2 DEF KernelConsistent, GroupMatchesTable
<1>4. k.ready[HighestReady(k)] \in Seq(Thread)
  BY <1>3 DEF KernelState
<1>5. c \in ToSet(k.ready[HighestReady(k)]) /\ c \in Thread
  BY <1>3, <1>4, HeadIsElement
<1>6. k.stat[c] = "ready"
  <2>1. Listed(k, c) # {}
    BY <1>3, <1>5 DEF Listed
  <2>2. QED
    BY <1>5, <2>1 DEF KernelConsistent, LinkedByStat
<1>7. r = [k EXCEPT !.cur = r.cur] /\ (k.nest = 0 => r.cur = c)
  BY DEF rt_schedule, KernelState
<1>8. r.cur \in Thread
  BY <1>5 DEF rt_schedule, KernelState
<1> HIDE DEF c
<1>9. r \in KernelState
  BY ONLY <1>7, <1>8, k \in KernelState DEF KernelState
<1>10. /\ r.stat = k.stat /\ r.prio = k.prio /\ r.nest = k.nest
       /\ r.err = k.err /\ r.timer = k.timer /\ r.wait = k.wait
       /\ r.ready = k.ready /\ r.group = k.group
  BY ONLY <1>7, k \in KernelState DEF KernelState
<1>11. KernelConsistent(r)
  BY <1>9, <1>10, FieldFrame
<1>12. QED
  BY <1>6, <1>7, <1>9, <1>10, <1>11

\* A suspended thread off its list, its timer stopped, e in its error field.
Woken(k, t, e) == [Unlink(k, t) EXCEPT !.timer[t] = FALSE, !.err[t] = e]

(* What a suspended thread looks like once it is linked in the ready queue:  *)
(* the common part of rt_thread_resume and rt_thread_timeout.               *)
LEMMA WakeEffect ==
    ASSUME NEW k \in KernelState, KernelConsistent(k),
           NEW t \in Thread, k.stat[t] = "suspend", NEW e \in Error,
           NEW r, r = rt_schedule_insert_thread(Woken(k, t, e), t)
    PROVE  /\ r \in KernelState
           /\ KernelConsistent(r)
           /\ r.stat = [k.stat EXCEPT ![t] = "ready"]
           /\ r.timer = [k.timer EXCEPT ![t] = FALSE]
           /\ r.err = [k.err EXCEPT ![t] = e]
           /\ r.prio = k.prio /\ r.cur = k.cur /\ r.nest = k.nest
           /\ WaitDrops(r, k, t)
<1> DEFINE u == Unlink(k, t)
           d == Woken(k, t, e)
<1>1. Loose(u, t)
  BY UnlinkLoosens
<1>2. /\ u \in KernelState /\ SameButLists(u, k)
      /\ \A l \in WaitList : ToSet(u.wait[l]) = ToSet(k.wait[l]) \ {t}
  BY UnlinkEffect DEF KernelConsistent
<1> HIDE DEF u
<1>3. d = [u EXCEPT !.timer = [u.timer EXCEPT ![t] = FALSE],
                    !.err = [u.err EXCEPT ![t] = e]]
  BY <1>2 DEF u, Woken, KernelState
<1> HIDE DEF d
<1>4. [u.timer EXCEPT ![t] = FALSE] \in [Thread -> BOOLEAN]
  BY <1>2 DEF KernelState
<1>5. [u.err EXCEPT ![t] = e] \in [Thread -> Error]
  BY <1>2 DEF KernelState
<1>6. d \in KernelState
  BY ONLY <1>2, <1>3, <1>4, <1>5 DEF KernelState
<1>7. /\ d.stat = u.stat /\ d.prio = u.prio /\ d.cur = u.cur /\ d.nest = u.nest
      /\ d.ready = u.ready /\ d.wait = u.wait /\ d.group = u.group
      /\ d.timer = [u.timer EXCEPT ![t] = FALSE]
      /\ d.err = [u.err EXCEPT ![t] = e]
  BY ONLY <1>2, <1>3 DEF KernelState
<1>8. Loose(d, t)
  BY <1>1, <1>6, <1>7, LooseFrame
<1>r. r = rt_schedule_insert_thread(d, t)
  BY DEF d
<1>9. d.stat[Idle] = "ready"
  BY <1>2, <1>7 DEF SameButLists, KernelConsistent
<1>10. /\ r \in KernelState
       /\ KernelConsistent(r)
       /\ r.stat = [d.stat EXCEPT ![t] = "ready"]
       /\ r.wait = d.wait /\ r.prio = d.prio /\ r.cur = d.cur
       /\ r.nest = d.nest /\ r.err = d.err /\ r.timer = d.timer
  BY ONLY <1>8, <1>9, <1>r, t \in Thread,
          InsertTightens
<1>11. WaitDrops(r, k, t)
  BY <1>2, <1>7, <1>10 DEF WaitDrops
<1>12. QED
  BY ONLY <1>2, <1>7, <1>10, <1>11 DEF SameButLists

(* rt_thread_resume moves a suspended thread from its wait list to the ready *)
(* queue and stops its timer.                                               *)
LEMMA ResumeEffect ==
    ASSUME NEW k \in KernelState, KernelConsistent(k),
           NEW t \in Thread, k.stat[t] = "suspend",
           NEW r, r = rt_thread_resume(k, t)
    PROVE  /\ r \in KernelState
           /\ KernelConsistent(r)
           /\ r.stat = [k.stat EXCEPT ![t] = "ready"]
           /\ r.timer = [k.timer EXCEPT ![t] = FALSE]
           /\ r.prio = k.prio /\ r.cur = k.cur /\ r.nest = k.nest /\ r.err = k.err
           /\ WaitDrops(r, k, t)
<1>1. Detach(k, t) = Woken(k, t, k.err[t])
  <2>1. Unlink(k, t) \in KernelState /\ Unlink(k, t).err = k.err
    BY UnlinkEffect DEF KernelConsistent, SameButLists
  <2> DEFINE u == Unlink(k, t)
  <2> HIDE DEF u
  <2>2. [u.err EXCEPT ![t] = k.err[t]] = u.err
    BY <2>1 DEF u, KernelState
  <2>3. QED
    BY <2>1, <2>2 DEF Detach, Woken, KernelState, u
<1>2. r = rt_schedule_insert_thread(Woken(k, t, k.err[t]), t)
  BY <1>1 DEF rt_thread_resume
<1>3. k.err[t] \in Error /\ [k.err EXCEPT ![t] = k.err[t]] = k.err
  BY DEF KernelState
<1>4. /\ r \in KernelState
      /\ KernelConsistent(r)
      /\ r.stat = [k.stat EXCEPT ![t] = "ready"]
      /\ r.timer = [k.timer EXCEPT ![t] = FALSE]
      /\ r.err = [k.err EXCEPT ![t] = k.err[t]]
      /\ r.prio = k.prio /\ r.cur = k.cur /\ r.nest = k.nest
      /\ WaitDrops(r, k, t)
  BY <1>2, <1>3, WakeEffect
<1>5. QED
  BY <1>3, <1>4

(* The expiry of a thread's timer wakes it with -RT_ETIMEOUT and schedules.  *)
LEMMA TimeoutEffect ==
    ASSUME NEW k \in KernelState, KernelConsistent(k),
           NEW t \in Thread, k.stat[t] = "suspend",
           NEW r, r = rt_thread_timeout(k, t)
    PROVE  /\ r \in KernelState
           /\ KernelConsistent(r)
           /\ k.nest = 0 => r.stat[r.cur] = "ready"
           /\ r.stat = [k.stat EXCEPT ![t] = "ready"]
           /\ r.timer = [k.timer EXCEPT ![t] = FALSE]
           /\ r.err = [k.err EXCEPT ![t] = "ETIMEOUT"]
           /\ r.prio = k.prio /\ r.nest = k.nest
           /\ WaitDrops(r, k, t)
<1> DEFINE w == rt_schedule_insert_thread(Woken(k, t, "ETIMEOUT"), t)
<1>1. r = rt_schedule(w)
  BY DEF rt_thread_timeout, Woken
<1>2. /\ w \in KernelState
      /\ KernelConsistent(w)
      /\ w.stat = [k.stat EXCEPT ![t] = "ready"]
      /\ w.timer = [k.timer EXCEPT ![t] = FALSE]
      /\ w.err = [k.err EXCEPT ![t] = "ETIMEOUT"]
      /\ w.prio = k.prio /\ w.cur = k.cur /\ w.nest = k.nest
      /\ WaitDrops(w, k, t)
  BY WakeEffect DEF Error
<1> HIDE DEF w
<1>3. /\ r \in KernelState
      /\ KernelConsistent(r)
      /\ w.nest = 0 => r.stat[r.cur] = "ready"
      /\ r.stat = w.stat /\ r.prio = w.prio /\ r.nest = w.nest
      /\ r.err = w.err /\ r.timer = w.timer /\ r.wait = w.wait
  BY ONLY <1>1, <1>2, ScheduleEffect
<1>4. WaitDrops(r, k, t)
  BY <1>2, <1>3 DEF WaitDrops
<1>5. QED
  BY ONLY <1>2, <1>3, <1>4

(* RT_THREAD_CTRL_CHANGE_PRIORITY changes one priority, and the ready list   *)
(* the thread is on when it is READY.                                       *)
LEMMA ChangePriorityEffect ==
    ASSUME NEW k \in KernelState, KernelConsistent(k),
           NEW t \in Thread, NEW p \in Priority,
           NEW r, r = ChangePriority(k, t, p)
    PROVE  /\ r \in KernelState
           /\ KernelConsistent(r)
           /\ r.prio = [k.prio EXCEPT ![t] = p]
           /\ r.stat = k.stat /\ r.cur = k.cur /\ r.nest = k.nest
           /\ r.err = k.err /\ r.timer = k.timer
           /\ SameWaits(r, k)
<1>0. [k.prio EXCEPT ![t] = p] \in [Thread -> Priority]
  BY DEF KernelState
<1>1. CASE k.stat[t] = "ready"
  <2> DEFINE v == rt_schedule_remove_thread(k, t)
             u == [v EXCEPT !.prio[t] = p]
  <2>1. /\ Loose(v, t) /\ SameButLists(v, k)
        /\ \A l \in WaitList : ToSet(v.wait[l]) = ToSet(k.wait[l])
    BY <1>1, RemoveLoosens
  <2>2. r = rt_schedule_insert_thread(u, t)
    BY <1>1 DEF ChangePriority
  <2> HIDE DEF v
  <2>3. v \in KernelState
    BY <2>1 DEF Loose
  <2>4. u = [v EXCEPT !.prio = [k.prio EXCEPT ![t] = p]]
    BY <2>1, <2>3 DEF SameButLists, KernelState
  <2> HIDE DEF u
  <2>5. u \in KernelState
    BY ONLY <1>0, <2>3, <2>4 DEF KernelState
  <2>6. /\ u.stat = v.stat /\ u.cur = v.cur /\ u.nest = v.nest /\ u.err = v.err
        /\ u.timer = v.timer /\ u.ready = v.ready /\ u.wait = v.wait
        /\ u.group = v.group /\ u.prio = [k.prio EXCEPT ![t] = p]
    BY ONLY <2>3, <2>4 DEF KernelState
  <2>7. \A x \in Thread \ {t} : u.stat[x] = v.stat[x] /\ u.prio[x] = v.prio[x]
    BY <2>1, <2>6 DEF SameButLists, KernelState
  <2>8. Loose(u, t)
    <3>1. u.ready = v.ready /\ u.wait = v.wait /\ u.group = v.group
      BY <2>6
    <3>2. QED
      BY ONLY <2>1, <2>5, <2>7, <3>1, t \in Thread, LooseFrame
  <2>9. u.stat[Idle] = "ready"
    BY <2>1, <2>6 DEF SameButLists, KernelConsistent
  <2>10. /\ r \in KernelState
         /\ KernelConsistent(r)
         /\ r.stat = [u.stat EXCEPT ![t] = "ready"]
         /\ r.wait = u.wait /\ r.prio = u.prio /\ r.cur = u.cur
         /\ r.nest = u.nest /\ r.err = u.err /\ r.timer = u.timer
    BY ONLY <2>2, <2>8, <2>9, t \in Thread, InsertTightens
  <2>11. [k.stat EXCEPT ![t] = "ready"] = k.stat
    BY <1>1 DEF KernelState
  <2>12. SameWaits(r, k)
    BY <2>1, <2>6, <2>10 DEF SameWaits
  <2>13. QED
    BY ONLY <2>1, <2>6, <2>10, <2>11, <2>12 DEF SameButLists
<1>2. CASE k.stat[t] # "ready"
  <2>1. r = [k EXCEPT !.prio = [k.prio EXCEPT ![t] = p]]
    BY <1>2 DEF ChangePriority
  <2>2. r \in KernelState
    BY ONLY <1>0, <2>1, k \in KernelState DEF KernelState
  <2>3. /\ r.stat = k.stat /\ r.cur = k.cur /\ r.nest = k.nest /\ r.err = k.err
        /\ r.timer = k.timer /\ r.ready = k.ready /\ r.wait = k.wait
        /\ r.group = k.group /\ r.prio = [k.prio EXCEPT ![t] = p]
    BY ONLY <2>1, k \in KernelState DEF KernelState
  <2>4. GroupMatchesTable(r) /\ ListsAreSets(r)
    BY <2>3 DEF KernelConsistent, GroupMatchesTable, ListsAreSets
  <2>5. ASSUME NEW x \in Thread, k.stat[x] = "ready" PROVE r.prio[x] = k.prio[x]
    BY <1>2, <2>3, <2>5 DEF KernelState
  <2>6. LinkedByStat(r, Thread)
    BY <2>3, <2>5 DEF KernelConsistent, LinkedByStat, Listed
  <2>7. QED
    BY <2>2, <2>3, <2>4, <2>6 DEF KernelConsistent, SameWaits
<1>3. QED
  BY <1>1, <1>2

(* rt_thread_yield reorders one ready list and changes nothing else.         *)
LEMMA RequeueEffect ==
    ASSUME NEW k \in KernelState, KernelConsistent(k), Yields(k),
           NEW r, r = Requeue(k)
    PROVE  /\ r \in KernelState
           /\ KernelConsistent(r)
           /\ r.stat = k.stat /\ r.prio = k.prio /\ r.cur = k.cur
           /\ r.nest = k.nest /\ r.err = k.err /\ r.timer = k.timer
           /\ r.wait = k.wait
<1> DEFINE c == k.cur
           q == k.prio[c]
           rest == RemoveFirst(k.ready[q], c)
           new == Append(rest, c)
<1>1. c \in Thread /\ q \in Priority
  BY DEF KernelState
<1>2. k.ready[q] \in Seq(Thread) /\ IsInjective(k.ready[q])
  BY <1>1 DEF KernelState, KernelConsistent, ListsAreSets
<1>3. c \in ToSet(k.ready[q])
  <2>1. Listed(k, c) = {q}
    BY <1>1 DEF KernelConsistent, LinkedByStat, Yields
  <2>2. QED
    BY <1>1, <2>1 DEF Listed
<1>4. r = [k EXCEPT !.ready = [k.ready EXCEPT ![q] = new]]
  BY <1>1 DEF Requeue, KernelState
<1> HIDE DEF c, q
<1>5. /\ rest \in Seq(Thread) /\ IsInjective(rest)
      /\ ToSet(rest) = ToSet(k.ready[q]) \ {c}
  BY <1>2, RemoveFirstRemoves
<1> HIDE DEF rest
<1>6. /\ new \in Seq(Thread) /\ IsInjective(new)
      /\ ToSet(new) = ToSet(rest) \union {c}
  BY <1>1, <1>5, AppendInserts
<1> HIDE DEF new
<1>7. ToSet(new) = ToSet(k.ready[q])
  BY <1>3, <1>5, <1>6
<1>8. r \in KernelState
  <2>1. [k.ready EXCEPT ![q] = new] \in [Priority -> Seq(Thread)]
    BY <1>6 DEF KernelState
  <2>2. QED
    BY ONLY <1>4, <2>1, k \in KernelState DEF KernelState
<1>9. /\ r.stat = k.stat /\ r.prio = k.prio /\ r.cur = k.cur
      /\ r.nest = k.nest /\ r.err = k.err /\ r.timer = k.timer
      /\ r.wait = k.wait /\ r.group = k.group
      /\ r.ready = [k.ready EXCEPT ![q] = new]
  BY ONLY <1>4, k \in KernelState DEF KernelState
<1>10. \A p \in Priority : r.ready[p] = IF p = q THEN new ELSE k.ready[p]
  BY <1>1, <1>9 DEF KernelState
<1>11. \A p \in Priority : ToSet(r.ready[p]) = ToSet(k.ready[p])
  BY <1>7, <1>10
<1>12. GroupMatchesTable(r)
  <2>1. new # <<>> /\ k.ready[q] # <<>>
    BY <1>2, <1>3, <1>6, <1>7, EmptyList
  <2>2. QED
    BY <1>9, <1>10, <2>1 DEF KernelConsistent, GroupMatchesTable
<1>13. ListsAreSets(r)
  BY <1>6, <1>9, <1>10 DEF KernelConsistent, ListsAreSets
<1>14. LinkedByStat(r, Thread)
  <2>1. ASSUME NEW x \in Thread PROVE Listed(r, x) = Listed(k, x)
    BY <1>11 DEF Listed
  <2>2. QED
    BY <1>9, <2>1 DEF KernelConsistent, LinkedByStat
<1>15. QED
  BY <1>8, <1>9, <1>12, <1>13, <1>14 DEF KernelConsistent

(* SetToSeq lists every element of a finite set once.                       *)
LEMMA SetToSeqLists ==
    ASSUME NEW S, IsFiniteSet(S)
    PROVE  /\ SetToSeq(S) \in Seq(S)
           /\ ToSet(SetToSeq(S)) = S
           /\ IsInjective(SetToSeq(S))
<1> DEFINE n == Cardinality(S)
           f == SetToSeq(S)
<1>1. n \in Nat /\ ExistsBijection(1 .. n, S)
  BY FS_CardinalityType
<1>2. \E g \in [1 .. n -> S] : IsInjective(g)
  BY <1>1 DEF ExistsBijection, Bijection, Injection
<1>3. f \in [1 .. n -> S] /\ IsInjective(f)
  BY <1>2 DEF SetToSeq
<1>4. Cardinality(1 .. n) = n
  BY <1>1, FS_Interval
<1> HIDE DEF f
<1>5. f \in Surjection(1 .. n, S)
  <2>1. f \in Injection(1 .. n, S)
    BY <1>3 DEF Injection
  <2>2. QED
    BY <1>4, <2>1, FS_Injection
<1>6. f \in Seq(S) /\ DOMAIN f = 1 .. n
  BY <1>1, <1>3
<1>7. ToSet(f) = S
  BY <1>3, <1>5, <1>6 DEF ToSet, Surjection
<1>8. IsInjective(f)
  BY <1>3 DEF IsInjective, IsInjective
<1>9. QED
  BY <1>6, <1>7, <1>8 DEF f

(* The scheduler starts with a consistent table.                            *)
LEMMA InitEffect ==
    ASSUME NEW r, r = KernelInit(Thread)
    PROVE  /\ r \in KernelState
           /\ KernelConsistent(r)
           /\ r.nest = 0
           /\ r.prio = init_priority
           /\ \A t \in Thread : r.stat[t] = "ready" /\ ~r.timer[t]
           /\ \A l \in WaitList : r.wait[l] = <<>>
<1> DEFINE At(p) == {t \in Thread : init_priority[t] = p}
           table == TableOf(Thread)
           bits == {p \in Priority : table[p] # <<>>}
<1>1. ASSUME NEW p \in Priority
      PROVE  /\ table[p] \in Seq(Thread) /\ IsInjective(table[p])
             /\ ToSet(table[p]) = At(p)
  <2>1. IsFiniteSet(At(p))
    BY KernelAssumption, FS_Subset
  <2>2. /\ SetToSeq(At(p)) \in Seq(At(p)) /\ IsInjective(SetToSeq(At(p)))
        /\ ToSet(SetToSeq(At(p))) = At(p)
    BY <2>1, SetToSeqLists
  <2>3. SetToSeq(At(p)) \in Seq(Thread)
    <3>1. At(p) \subseteq Thread
      OBVIOUS
    <3> HIDE DEF At
    <3>2. QED
      BY <2>2, <3>1
  <2>4. table[p] = SetToSeq(At(p))
    BY DEF TableOf
  <2>5. QED
    BY <2>2, <2>3, <2>4
<1>2. table \in [Priority -> Seq(Thread)]
  <2>1. table = [p \in Priority |-> table[p]]
    BY DEF TableOf
  <2> HIDE DEF table
  <2>2. QED
    BY <1>1, <2>1
<1> DEFINE c == Head(table[Min(bits)])
<1>3. /\ r.stat = [t \in Thread |-> "ready"]
      /\ r.prio = init_priority /\ r.ready = table /\ r.group = bits
      /\ r.cur = c /\ r.nest = 0
      /\ r.err = [t \in Thread |-> "EOK"]
      /\ r.timer = [t \in Thread |-> FALSE]
      /\ r.wait = [l \in WaitList |-> <<>>]
      /\ r = [stat |-> r.stat, prio |-> r.prio, ready |-> r.ready,
              group |-> r.group, cur |-> r.cur, nest |-> r.nest,
              err |-> r.err, timer |-> r.timer, wait |-> r.wait]
  BY DEF KernelInit
<1> HIDE DEF table
<1>4. c \in Thread
  <2>1. init_priority[Idle] \in bits
    <3>1. Idle \in ToSet(table[init_priority[Idle]])
      BY <1>1, KernelAssumption
    <3>2. QED
      BY <1>2, <3>1, EmptyList, KernelAssumption
  <2>2. Min(bits) \in bits
    <3>1. bits \in SUBSET Nat
      BY KernelAssumption
    <3>2. QED
      BY <2>1, <3>1, MinIsLeast
  <2>3. table[Min(bits)] \in Seq(Thread) /\ table[Min(bits)] # <<>>
    BY <1>2, <2>2
  <2>4. QED
    BY <2>3, HeadIsElement
<1> HIDE DEF c
<1>5. r \in KernelState
  <2>1. r.stat \in [Thread -> Stat] /\ r.err \in [Thread -> Error]
    BY <1>3 DEF Stat, Error
  <2>2. r.wait \in [WaitList -> Seq(Thread)]
    BY <1>3
  <2>3. QED
    <3>1. /\ r.prio \in [Thread -> Priority] /\ r.ready \in [Priority -> Seq(Thread)]
          /\ r.group \in SUBSET Priority /\ r.cur \in Thread /\ r.nest \in Nat
          /\ r.timer \in [Thread -> BOOLEAN]
      BY <1>2, <1>3, <1>4, KernelAssumption
    <3>2. r = [stat |-> r.stat, prio |-> r.prio, ready |-> r.ready,
               group |-> r.group, cur |-> r.cur, nest |-> r.nest,
               err |-> r.err, timer |-> r.timer, wait |-> r.wait]
      BY <1>3
    <3>3. QED
      BY ONLY <2>1, <2>2, <3>1, <3>2 DEF KernelState
<1>6. GroupMatchesTable(r)
  BY <1>3 DEF GroupMatchesTable
<1>7. \A l \in WaitList : r.wait[l] = <<>> /\ ToSet(r.wait[l]) = {}
  BY <1>3, <1>5, EmptyList DEF KernelState
<1>8. ListsAreSets(r)
  BY <1>1, <1>3, <1>7 DEF ListsAreSets, IsInjective
<1>9. LinkedByStat(r, Thread)
  <2>1. ASSUME NEW x \in Thread PROVE Listed(r, x) = {r.prio[x]}
    BY <1>1, <1>3, KernelAssumption DEF Listed
  <2>2. \A x \in Thread : r.stat[x] = "ready"
    BY <1>3
  <2>3. QED
    BY <1>7, <2>1, <2>2 DEF LinkedByStat
<1>10. QED
  BY <1>3, <1>5, <1>6, <1>7, <1>8, <1>9, KernelAssumption DEF KernelConsistent

WithError(k, t, e) == [k EXCEPT !.err[t] = e]

(* Setting one error field disturbs nothing else.                           *)
LEMMA ErrorEffect ==
    ASSUME NEW k \in KernelState, KernelConsistent(k),
           NEW t \in Thread, NEW e \in Error, NEW r, r = WithError(k, t, e)
    PROVE  /\ r \in KernelState
           /\ KernelConsistent(r)
           /\ r.err = [k.err EXCEPT ![t] = e]
           /\ r.stat = k.stat /\ r.prio = k.prio /\ r.cur = k.cur
           /\ r.nest = k.nest /\ r.timer = k.timer /\ r.wait = k.wait
<1>1. r = [k EXCEPT !.err = [k.err EXCEPT ![t] = e]]
  BY DEF KernelState, WithError
<1>2. [k.err EXCEPT ![t] = e] \in [Thread -> Error]
  BY DEF KernelState
<1>3. r \in KernelState
  BY ONLY <1>1, <1>2, k \in KernelState DEF KernelState
<1>4. /\ r.err = [k.err EXCEPT ![t] = e]
      /\ r.stat = k.stat /\ r.prio = k.prio /\ r.cur = k.cur
      /\ r.nest = k.nest /\ r.timer = k.timer /\ r.wait = k.wait
      /\ r.ready = k.ready /\ r.group = k.group
  BY ONLY <1>1, k \in KernelState DEF KernelState
<1>5. KernelConsistent(r)
  BY <1>3, <1>4, FieldFrame
<1>6. QED
  BY <1>3, <1>4, <1>5

(* So does starting a timer.                                                *)
LEMMA TimerEffect ==
    ASSUME NEW k \in KernelState, KernelConsistent(k),
           NEW t \in Thread, NEW r, r = StartTimer(k, t)
    PROVE  /\ r \in KernelState
           /\ KernelConsistent(r)
           /\ r.timer = [k.timer EXCEPT ![t] = TRUE]
           /\ r.stat = k.stat /\ r.prio = k.prio /\ r.cur = k.cur
           /\ r.nest = k.nest /\ r.err = k.err /\ r.wait = k.wait
<1>1. r = [k EXCEPT !.timer = [k.timer EXCEPT ![t] = TRUE]]
  BY DEF KernelState, StartTimer
<1>2. [k.timer EXCEPT ![t] = TRUE] \in [Thread -> BOOLEAN]
  BY DEF KernelState
<1>3. r \in KernelState
  BY ONLY <1>1, <1>2, k \in KernelState DEF KernelState
<1>4. /\ r.timer = [k.timer EXCEPT ![t] = TRUE]
      /\ r.stat = k.stat /\ r.prio = k.prio /\ r.cur = k.cur
      /\ r.nest = k.nest /\ r.err = k.err /\ r.wait = k.wait
      /\ r.ready = k.ready /\ r.group = k.group
  BY ONLY <1>1, k \in KernelState DEF KernelState
<1>5. KernelConsistent(r)
  BY <1>3, <1>4, FieldFrame
<1>6. QED
  BY <1>3, <1>4, <1>5

(* A thread that suspends itself without an object to wait for, as a sleep   *)
(* does, leaves a consistent table.                                         *)
LEMMA SuspendEffect ==
    ASSUME NEW k \in KernelState, KernelConsistent(k),
           NEW t \in Thread, t # Idle, k.stat[t] = "ready",
           NEW s, s = rt_thread_suspend(k, t)
    PROVE  /\ s \in KernelState
           /\ KernelConsistent(s)
           /\ s.stat = [k.stat EXCEPT ![t] = "suspend"]
           /\ s.timer = [k.timer EXCEPT ![t] = FALSE]
           /\ s.prio = k.prio /\ s.cur = k.cur /\ s.nest = k.nest /\ s.err = k.err
           /\ SameWaits(s, k)
<1>1. /\ Loose(s, t)
      /\ s.stat = [k.stat EXCEPT ![t] = "suspend"]
      /\ s.timer = [k.timer EXCEPT ![t] = FALSE]
      /\ s.prio = k.prio /\ s.cur = k.cur /\ s.nest = k.nest /\ s.err = k.err
      /\ \A l \in WaitList : ToSet(s.wait[l]) = ToSet(k.wait[l])
  BY SuspendLoosens
<1>2. s.stat[t] # "ready" /\ s.stat[Idle] = "ready"
  BY <1>1, KernelAssumption DEF KernelState, KernelConsistent
<1>3. LinkedByStat(s, Thread)
  <2>1. Listed(s, t) = {}
    BY <1>1 DEF Loose, Listed
  <2>2. QED
    BY <1>1, <1>2, <2>1 DEF Loose, LinkedByStat
<1>4. KernelConsistent(s)
  BY <1>1, <1>2, <1>3 DEF Loose, KernelConsistent
<1>5. QED
  BY <1>1, <1>4 DEF Loose, SameWaits

\* One thread looks the same in the states r and k.
SameView(r, k, x) ==
    /\ r.stat[x] = k.stat[x] /\ r.timer[x] = k.timer[x] /\ r.err[x] = k.err[x]
    /\ \A m \in WaitList : x \in ToSet(r.wait[m]) <=> x \in ToSet(k.wait[m])

\* Thread x has been resumed with -RT_ERROR.
Refused(r, x) ==
    /\ r.stat[x] = "ready" /\ ~r.timer[x] /\ r.err[x] = "ERROR"
    /\ \A m \in WaitList : x \notin ToSet(r.wait[m])

(* One round of rt_ipc_list_resume_all keeps the table consistent, and gives  *)
(* -RT_ERROR to the suspended thread it resumes.                             *)
LEMMA ResumeWithErrorEffect ==
    ASSUME NEW k \in KernelState, KernelConsistent(k), NEW t \in Thread,
           NEW r, r = ResumeWithError(k, t)
    PROVE  /\ r \in KernelState
           /\ KernelConsistent(r)
           /\ r.prio = k.prio /\ r.cur = k.cur /\ r.nest = k.nest
           /\ \A x \in Thread \ {t} : SameView(r, k, x)
           /\ k.stat[t] = "suspend" => Refused(r, t)
<1>1. PICK e : e = WithError(k, t, "ERROR")
  OBVIOUS
<1>2. /\ e \in KernelState
      /\ KernelConsistent(e)
      /\ e.err = [k.err EXCEPT ![t] = "ERROR"]
      /\ e.stat = k.stat /\ e.prio = k.prio /\ e.cur = k.cur
      /\ e.nest = k.nest /\ e.timer = k.timer /\ e.wait = k.wait
  <2>1. "ERROR" \in Error
    BY DEF Error
  <2> QED
    BY <1>1, <2>1, ErrorEffect
<1>3. r = rt_thread_resume(e, t)
  BY <1>1 DEF ResumeWithError, WithError
<1>4. /\ k.stat \in [Thread -> Stat] /\ k.timer \in [Thread -> BOOLEAN]
      /\ k.err \in [Thread -> Error]
  BY DEF KernelState
<1>5. CASE k.stat[t] = "suspend"
  <2>1. e.stat[t] = "suspend"
    BY <1>2, <1>5
  <2>2. /\ r \in KernelState
        /\ KernelConsistent(r)
        /\ r.stat = [e.stat EXCEPT ![t] = "ready"]
        /\ r.timer = [e.timer EXCEPT ![t] = FALSE]
        /\ r.prio = e.prio /\ r.cur = e.cur /\ r.nest = e.nest /\ r.err = e.err
        /\ WaitDrops(r, e, t)
    BY <1>2, <1>3, <2>1, ResumeEffect
  <2>3. \A m \in WaitList : ToSet(r.wait[m]) = ToSet(k.wait[m]) \ {t}
    BY <1>2, <2>2 DEF WaitDrops
  <2>4. Refused(r, t)
    BY <1>2, <1>4, <2>2, <2>3 DEF Refused
  <2>5. \A x \in Thread \ {t} : SameView(r, k, x)
    BY <1>2, <1>4, <2>2, <2>3 DEF SameView
  <2> QED
    BY <1>2, <2>2, <2>4, <2>5
<1>6. CASE k.stat[t] # "suspend"
  <2>1. r = e
    BY <1>2, <1>3, <1>6 DEF rt_thread_resume
  <2>2. \A x \in Thread \ {t} : SameView(r, k, x)
    BY <1>2, <1>4, <2>1 DEF SameView
  <2> QED
    BY <1>2, <1>6, <2>1, <2>2
<1> QED
  BY <1>5, <1>6

(* rt_ipc_list_resume_all with interrupts disabled refuses every waiter of    *)
(* the list, however many there are, and leaves all other threads alone.     *)
LEMMA ResumeAllEffect ==
    ASSUME NEW k \in KernelState, KernelConsistent(k), NEW l \in WaitList,
           \A x \in ToSet(k.wait[l]) : k.stat[x] = "suspend",
           NEW r, r = rt_ipc_list_resume_all(k, l)
    PROVE  /\ r \in KernelState
           /\ KernelConsistent(r)
           /\ r.prio = k.prio /\ r.cur = k.cur /\ r.nest = k.nest
           /\ \A x \in ToSet(k.wait[l]) : Refused(r, x)
           /\ \A x \in Thread \ ToSet(k.wait[l]) : SameView(r, k, x)
<1>1. PICK w \in Seq(Thread) : w = k.wait[l]
  BY DEF KernelState
<1>2. PICK N \in Nat : N = Len(w)
  OBVIOUS
<1>3. IsInjective(w) /\ \A n \in 1 .. N : w[n] \in Thread
  BY <1>1, <1>2 DEF KernelConsistent, ListsAreSets
<1> DEFINE Walk(f) == f = [n \in 0 .. N |-> IF n = 0 THEN k
                                            ELSE ResumeWithError(f[n - 1], w[n])]
<1>4. \E f : Walk(f)
  <2> DEFINE S == {s \in KernelState : KernelConsistent(s)}
             Step == [n \in 1 .. N |-> [s \in S |-> ResumeWithError(s, w[n])]]
  <2>1. k \in S
    OBVIOUS
  <2>2. Step \in [1 .. N -> [S -> S]]
    <3> SUFFICES ASSUME NEW n \in 1 .. N, NEW s \in S PROVE ResumeWithError(s, w[n]) \in S
      OBVIOUS
    <3> QED
      BY <1>3, ResumeWithErrorEffect
  <2> HIDE DEF Step, S
  <2>3. PICK f : Rounds(f, k, N, S, Step)
    BY ONLY N \in Nat, <2>1, <2>2, RoundsExist
  <2>4. ASSUME NEW n \in 0 .. N
        PROVE  f[n] = IF n = 0 THEN k ELSE ResumeWithError(f[n - 1], w[n])
    <3>1. CASE n = 0
      BY <2>3, <3>1 DEF Rounds
    <3>2. CASE n # 0
      <4>1. n \in 1 .. N /\ n - 1 \in 0 .. N
        BY <3>2
      <4>2. f[n - 1] \in S
        BY <2>3, <4>1 DEF Rounds
      <4> QED
        BY <2>3, <3>2, <4>1, <4>2 DEF Rounds, Step
    <3> QED
      BY <3>1, <3>2
  <2>5. f = [n \in 0 .. N |-> f[n]]
    BY <2>3 DEF Rounds
  <2> QED
    BY <2>4, <2>5
<1>5. PICK f : Walk(f) /\ r = f[N]
  <2>1. r = (CHOOSE f : Walk(f))[N]
    BY <1>1, <1>2 DEF rt_ipc_list_resume_all
  <2>2. Walk(CHOOSE f : Walk(f))
    BY <1>4
  <2> QED
    BY <2>1, <2>2
<1>6. f[0] = k /\ \A n \in 1 .. N : f[n] = ResumeWithError(f[n - 1], w[n])
  BY <1>5
<1> HIDE DEF Walk
<1> DEFINE Done(n) == {w[i] : i \in 1 .. n}
           Good(n) ==
               /\ f[n] \in KernelState /\ KernelConsistent(f[n])
               /\ f[n].prio = k.prio /\ f[n].cur = k.cur /\ f[n].nest = k.nest
               /\ \A x \in Done(n) : Refused(f[n], x)
               /\ \A x \in Thread \ Done(n) : SameView(f[n], k, x)
<1>7. Good(0)
  <2>1. Done(0) = {}
    OBVIOUS
  <2> QED
    BY <1>6, <2>1 DEF SameView
<1>8. ASSUME NEW n \in 1 .. N, Good(n - 1) PROVE Good(n)
  <2>1. PICK s : s = f[n - 1]
    OBVIOUS
  <2>2. PICK q : q = f[n]
    OBVIOUS
  <2>3. PICK t \in Thread : t = w[n]
    BY <1>3
  <2>4. /\ s \in KernelState /\ KernelConsistent(s)
        /\ s.prio = k.prio /\ s.cur = k.cur /\ s.nest = k.nest
        /\ \A x \in Done(n - 1) : Refused(s, x)
        /\ \A x \in Thread \ Done(n - 1) : SameView(s, k, x)
    BY <1>8, <2>1
  <2>5. Done(n) = Done(n - 1) \union {t}
    <3>1. \A i \in 1 .. n : i \in 1 .. n - 1 \/ i = n
      OBVIOUS
    <3> QED
      BY <2>3, <3>1
  <2>6. t \notin Done(n - 1)
    <3> SUFFICES ASSUME NEW i \in 1 .. n - 1, w[i] = w[n] PROVE FALSE
      BY <2>3
    <3> QED
      BY <1>2, <1>3 DEF IsInjective
  <2>7. k.stat[t] = "suspend" /\ s.stat[t] = "suspend"
    <3>1. t \in ToSet(k.wait[l])
      BY <1>1, <1>2, <2>3, ToSetIsRange
    <3> QED
      BY <2>4, <2>6, <3>1 DEF SameView
  <2>8. q = ResumeWithError(s, t)
    BY <1>6, <2>1, <2>2, <2>3
  <2>9. /\ q \in KernelState
        /\ KernelConsistent(q)
        /\ q.prio = s.prio /\ q.cur = s.cur /\ q.nest = s.nest
        /\ \A x \in Thread \ {t} : SameView(q, s, x)
        /\ s.stat[t] = "suspend" => Refused(q, t)
    BY ONLY <2>4, <2>8, t \in Thread, ResumeWithErrorEffect
  <2>10. Done(n) \subseteq Thread
    BY <1>3
  <2> HIDE DEF Done
  <2>11. ASSUME NEW x \in Done(n) PROVE Refused(q, x)
    <3>1. CASE x = t
      BY <2>7, <2>9, <3>1
    <3>2. CASE x # t
      <4>1. x \in Done(n - 1) /\ x \in Thread \ {t}
        BY <2>5, <2>10, <3>2
      <4> QED
        BY <2>4, <2>9, <4>1 DEF Refused, SameView
    <3> QED
      BY <3>1, <3>2
  <2>12. ASSUME NEW x \in Thread \ Done(n) PROVE SameView(q, k, x)
    <3>1. x \in Thread \ {t} /\ x \in Thread \ Done(n - 1)
      BY <2>5
    <3>2. SameView(q, s, x) /\ SameView(s, k, x)
      BY <2>4, <2>9, <3>1
    <3> QED
      BY <3>2 DEF SameView
  <2> QED
    BY <2>2, <2>4, <2>9, <2>11, <2>12
<1>9. Good(N)
  <2> DEFINE G == {n \in 0 .. N : Good(n)}
  <2>1. 0 \in G
    BY <1>7
  <2>2. ASSUME NEW n \in 1 .. N, n - 1 \in G PROVE n \in G
    <3> HIDE DEF Good
    <3> QED
      BY <1>8, <2>2
  <2>3. N \in G
    <3> HIDE DEF G
    <3> QED
      BY ONLY N \in Nat, <2>1, <2>2, CountUp
  <2> HIDE DEF Good
  <2> QED
    BY <2>3
<1>10. Done(N) = ToSet(k.wait[l])
  BY <1>1, <1>2 DEF ToSet
<1> QED
  BY <1>5, <1>9, <1>10
=============================================================================
