---------------------------- MODULE ChannelProofs ----------------------------
(***************************************************************************)
(* The mailbox, the message queue and the data queue implement the bounded *)
(* channel of Channel.tla, for any threads, mails and capacity.            *)
(***************************************************************************)
EXTENDS Mailbox, MsgQueue, DataQueue, CallsProofs

-----------------------------------------------------------------------------
(* Ring buffers *)

\* The place n places behind place o.
Place(o, n) == IF o + n < size THEN o + n ELSE o + n - size

\* The n mails from place o on.
Stored(pool, o, n) == [i \in 1 .. n |-> pool[(o + i - 1) % size]]

\* The places hold members of M.
IsPool(pool, M) == pool \in [0 .. size - 1 -> M]

(* The index arithmetic wraps at most once.                                  *)
LEMMA PlaceIsModulo ==
    ASSUME NEW o \in 0 .. size - 1, NEW n \in 0 .. size
    PROVE  (o + n) % size = Place(o, n) /\ Place(o, n) \in 0 .. size - 1
<1>1. size \in Nat /\ size >= 1
  BY ChannelAssumption
<1>2. ASSUME NEW x \in Int, 0 <= x, x < size PROVE x % size = x
  BY <1>1, <1>2
<1>3. ASSUME NEW x \in Int, 0 <= x, x < size PROVE (x + size) % size = x
  BY <1>1, <1>3
<1>4. CASE o + n < size
  BY <1>1, <1>2, <1>4 DEF Place
<1>5. CASE o + n >= size
  <2>1. o + n - size \in Int /\ 0 <= o + n - size /\ o + n - size < size
    BY <1>1, <1>5
  <2>2. ((o + n - size) + size) % size = o + n - size
    BY <1>3, <2>1
  <2>3. (o + n - size) + size = o + n
    BY <1>1
  <2> QED
    BY <1>1, <1>5, <2>1, <2>2, <2>3 DEF Place
<1> QED
  BY <1>1, <1>4, <1>5

(* The next place, as the code computes it.                                   *)
LEMMA NextPlace ==
    ASSUME NEW o \in 0 .. size - 1, NEW n \in 0 .. size
    PROVE  /\ (IF o + 1 >= size THEN 0 ELSE o + 1) = Place(o, 1)
           /\ (IF o + 1 = size THEN 0 ELSE o + 1) = Place(o, 1)
           /\ Place(o, 0) = o
           /\ n < size => Place(Place(o, n), 1) = Place(o, n + 1)
           /\ n > 0 => Place(Place(o, 1), n - 1) = Place(o, n)
<1>1. size \in Nat /\ size >= 1 /\ o \in Int /\ n \in Int /\ 0 <= n /\ n <= size
      /\ 0 <= o /\ o < size
  BY ChannelAssumption
<1>2. n < size => Place(Place(o, n), 1) = Place(o, n + 1)
  <2>1. CASE o + n < size
    BY ONLY <1>1, <2>1 DEF Place
  <2>2. CASE o + n >= size
    BY ONLY <1>1, <2>2 DEF Place
  <2> QED
    BY ONLY <1>1, <2>1, <2>2
<1>3. n > 0 => Place(Place(o, 1), n - 1) = Place(o, n)
  BY ONLY <1>1 DEF Place
<1> QED
  BY ONLY <1>1, <1>2, <1>3 DEF Place

(* What a ring stores is a sequence of mails.                                 *)
LEMMA StoredIs ==
    ASSUME NEW M, NEW pool, IsPool(pool, M), NEW o \in 0 .. size - 1,
           NEW n \in 0 .. size
    PROVE  /\ Stored(pool, o, n) \in Seq(M) /\ Len(Stored(pool, o, n)) = n
           /\ \A i \in 1 .. n : Stored(pool, o, n)[i] = pool[Place(o, i - 1)]
<1>1. size \in Nat /\ n \in Nat
  BY ChannelAssumption
<1> DEFINE r == Stored(pool, o, n)
<1>2. ASSUME NEW i \in 1 .. n PROVE r[i] = pool[Place(o, i - 1)] /\ r[i] \in M
  <2>1. i - 1 \in 0 .. size /\ o + i - 1 = o + (i - 1)
    BY <1>1
  <2>2. (o + (i - 1)) % size = Place(o, i - 1) /\ Place(o, i - 1) \in 0 .. size - 1
    BY <2>1, PlaceIsModulo
  <2>3. r[i] = pool[(o + i - 1) % size]
    BY DEF Stored
  <2> QED
    BY <2>1, <2>2, <2>3 DEF IsPool
<1>3. r = [i \in 1 .. n |-> r[i]]
  BY DEF Stored
<1> HIDE DEF r
<1>4. r \in [1 .. n -> M]
  BY <1>2, <1>3
<1>5. r \in Seq(M) /\ Len(r) = n
  BY <1>1, <1>4
<1> QED
  BY <1>2, <1>5 DEF r

(* A mail put behind the last one is appended.                                *)
LEMMA StoredAppend ==
    ASSUME NEW M, NEW pool, IsPool(pool, M), NEW o \in 0 .. size - 1,
           NEW n \in 0 .. size - 1, NEW v \in M, NEW p, p = Place(o, n)
    PROVE  Stored([pool EXCEPT ![p] = v], o, n + 1) = Append(Stored(pool, o, n), v)
<1>1. size \in Nat /\ n \in Nat /\ n \in 0 .. size /\ n + 1 \in 0 .. size
  BY ChannelAssumption
<1>2. p \in 0 .. size - 1
  BY <1>1, PlaceIsModulo
<1>3. PICK q : q = [pool EXCEPT ![p] = v]
  OBVIOUS
<1>4. /\ IsPool(q, M) /\ q[p] = v
      /\ \A j \in 0 .. size - 1 : j # p => q[j] = pool[j]
  BY <1>2, <1>3 DEF IsPool
<1> DEFINE r == Stored(pool, o, n)
           s == Stored(q, o, n + 1)
<1>5. /\ r \in Seq(M) /\ Len(r) = n
      /\ \A i \in 1 .. n : r[i] = pool[Place(o, i - 1)]
  BY ONLY <1>1, IsPool(pool, M), o \in 0 .. size - 1, StoredIs
<1>6. /\ s \in Seq(M) /\ Len(s) = n + 1
      /\ \A i \in 1 .. n + 1 : s[i] = q[Place(o, i - 1)]
  BY ONLY <1>1, <1>4, o \in 0 .. size - 1, StoredIs
<1> HIDE DEF r, s
<1>7. /\ Append(r, v) \in Seq(M) /\ Len(Append(r, v)) = n + 1
      /\ \A i \in 1 .. n : Append(r, v)[i] = r[i]
      /\ Append(r, v)[n + 1] = v
  BY <1>5
<1>8. ASSUME NEW i \in 1 .. n + 1 PROVE s[i] = Append(r, v)[i]
  <2>1. CASE i = n + 1
    BY <1>1, <1>4, <1>6, <1>7, <2>1
  <2>2. CASE i \in 1 .. n
    <3>1. Place(o, i - 1) # p
      BY <1>1, <2>2 DEF Place
    <3>2. Place(o, i - 1) \in 0 .. size - 1
      <4>1. i - 1 \in 0 .. size
        BY <1>1, <2>2
      <4> QED
        BY <4>1, PlaceIsModulo
    <3> QED
      BY <1>4, <1>5, <1>6, <1>7, <2>2, <3>1, <3>2
  <2>3. i = n + 1 \/ i \in 1 .. n
    BY ONLY <1>1, i \in 1 .. n + 1
  <2> QED
    BY <2>1, <2>2, <2>3
<1>9. s = Append(r, v)
  BY <1>6, <1>7, <1>8, SeqEqual
<1> QED
  BY <1>3, <1>9 DEF r, s

(* The mail at the first place is taken out.                                  *)
LEMMA StoredTail ==
    ASSUME NEW M, NEW pool, IsPool(pool, M), NEW o \in 0 .. size - 1,
           NEW n \in 1 .. size
    PROVE  /\ Stored(pool, o, n) # <<>>
           /\ Head(Stored(pool, o, n)) = pool[o]
           /\ Tail(Stored(pool, o, n)) = Stored(pool, Place(o, 1), n - 1)
<1>0. PICK p, m : p = Place(o, 1) /\ m = n - 1
  OBVIOUS
<1>1. size \in Nat /\ n \in 0 .. size /\ m \in 0 .. size /\ 1 \in 0 .. size
  BY <1>0, ChannelAssumption
<1>2. p \in 0 .. size - 1
  BY <1>0, <1>1, PlaceIsModulo
<1> DEFINE r == Stored(pool, o, n)
           s == Stored(pool, p, m)
<1>3. /\ r \in Seq(M) /\ Len(r) = n
      /\ \A i \in 1 .. n : r[i] = pool[Place(o, i - 1)]
  BY ONLY <1>1, IsPool(pool, M), o \in 0 .. size - 1, StoredIs
<1>4. /\ s \in Seq(M) /\ Len(s) = m
      /\ \A i \in 1 .. m : s[i] = pool[Place(p, i - 1)]
  BY ONLY <1>1, <1>2, IsPool(pool, M), StoredIs
<1> HIDE DEF r, s
<1>5. r # <<>> /\ Head(r) = r[1]
  BY <1>3
<1>6. Place(o, 0) = o
  BY <1>1 DEF Place
<1>7. /\ Tail(r) \in Seq(M) /\ Len(Tail(r)) = m
      /\ \A i \in 1 .. m : Tail(r)[i] = r[i + 1]
  BY <1>0, <1>3, <1>5
<1>8. ASSUME NEW i \in 1 .. m PROVE Tail(r)[i] = s[i]
  <2>1. Place(o, i) = Place(p, i - 1)
    BY <1>0, <1>1, <1>2 DEF Place
  <2>2. i + 1 \in 1 .. n /\ (i + 1) - 1 = i
    BY <1>0, <1>1
  <2> QED
    BY <1>3, <1>4, <1>7, <2>1, <2>2
<1>9. Tail(r) = s
  BY <1>4, <1>7, <1>8, SeqEqual
<1> QED
  BY <1>0, <1>3, <1>5, <1>6, <1>9 DEF r, s
-----------------------------------------------------------------------------
(* The ring of the mailbox *)

\* The input offset is entry places behind the output offset.
RingOK ==
    /\ mb \in [ msg_pool : [Index -> Mail \union {NoMail}],
                in_offset : Index, out_offset : Index, entry : 0 .. size ]
    /\ mb.in_offset = Place(mb.out_offset, mb.entry)
    /\ mb_last \in Mail \union {NoMail}

\* What the calls do to the ring, whatever else they do.
RingPut(v) == mb.entry < size /\ mb' = Put(mb, v) /\ UNCHANGED mb_last

RingTake ==
    /\ mb.entry > 0
    /\ mb_last' = mb.msg_pool[mb.out_offset]
    /\ mb' = [mb EXCEPT !.out_offset = IF @ + 1 >= size THEN 0 ELSE @ + 1,
                        !.entry = @ - 1]

RingReset ==
    /\ mb' = [mb EXCEPT !.entry = 0, !.in_offset = 0, !.out_offset = 0]
    /\ UNCHANGED mb_last

RingStep == (\E v \in Mail : RingPut(v)) \/ RingTake \/ RingReset \/ UNCHANGED mailbox

(* The fields of the mailbox, and the ring they describe.                     *)
LEMMA RingFields ==
    ASSUME RingOK
    PROVE  /\ mb.msg_pool \in [0 .. size - 1 -> Mail \union {NoMail}]
           /\ mb.in_offset \in 0 .. size - 1 /\ mb.out_offset \in 0 .. size - 1
           /\ mb.entry \in 0 .. size /\ mb.in_offset = Place(mb.out_offset, mb.entry)
           /\ size \in Nat /\ size >= 1
           /\ Ring = Stored(mb.msg_pool, mb.out_offset, mb.entry)
           /\ Ring \in Seq(Mail \union {NoMail}) /\ Len(Ring) = mb.entry
<1>1. /\ mb.msg_pool \in [0 .. size - 1 -> Mail \union {NoMail}]
      /\ mb.in_offset \in 0 .. size - 1 /\ mb.out_offset \in 0 .. size - 1
      /\ mb.entry \in 0 .. size /\ mb.in_offset = Place(mb.out_offset, mb.entry)
  BY DEF RingOK, Index
<1>2. Ring = Stored(mb.msg_pool, mb.out_offset, mb.entry)
  BY DEF Ring, Stored
<1>3. PICK M : M = Mail \union {NoMail}
  OBVIOUS
<1>4. Stored(mb.msg_pool, mb.out_offset, mb.entry) \in Seq(M)
      /\ Len(Stored(mb.msg_pool, mb.out_offset, mb.entry)) = mb.entry
  <2>1. IsPool(mb.msg_pool, M)
    BY <1>1, <1>3 DEF IsPool
  <2> QED
    BY ONLY <1>1, <2>1, StoredIs
<1> QED
  BY <1>1, <1>2, <1>3, <1>4, ChannelAssumption

(* A mail is sent.                                                           *)
LEMMA RingPuts ==
    ASSUME RingOK, NEW v \in Mail, RingPut(v)
    PROVE  RingOK' /\ MbChannel!Send
<1>1. /\ mb.msg_pool \in [0 .. size - 1 -> Mail \union {NoMail}]
      /\ mb.in_offset \in 0 .. size - 1 /\ mb.out_offset \in 0 .. size - 1
      /\ mb.entry \in 0 .. size /\ mb.in_offset = Place(mb.out_offset, mb.entry)
      /\ size \in Nat /\ size >= 1
      /\ Ring = Stored(mb.msg_pool, mb.out_offset, mb.entry) /\ Len(Ring) = mb.entry
  BY RingFields
<1>2. mb.entry \in 0 .. size - 1
  BY <1>1 DEF RingPut
<1>3. /\ mb'.msg_pool = [mb.msg_pool EXCEPT ![mb.in_offset] = v]
      /\ mb'.in_offset = (IF mb.in_offset + 1 >= size THEN 0 ELSE mb.in_offset + 1)
      /\ mb'.out_offset = mb.out_offset /\ mb'.entry = mb.entry + 1
      /\ mb' = [mb EXCEPT !.msg_pool = mb'.msg_pool, !.in_offset = mb'.in_offset,
                          !.entry = mb'.entry]
  BY DEF RingOK, RingPut, Put
<1>4. mb'.in_offset = Place(mb.out_offset, mb.entry + 1) /\ mb'.in_offset \in 0 .. size - 1
  <2>1. mb'.in_offset = Place(mb.in_offset, 1) /\ 1 \in 0 .. size
    BY <1>1, <1>3, NextPlace
  <2>2. Place(Place(mb.out_offset, mb.entry), 1) = Place(mb.out_offset, mb.entry + 1)
    BY <1>1, <1>2, NextPlace
  <2>3. Place(mb.in_offset, 1) \in 0 .. size - 1
    BY <1>1, <2>1, PlaceIsModulo
  <2> QED
    BY <1>1, <2>1, <2>2, <2>3
<1>5. mb'.msg_pool \in [0 .. size - 1 -> Mail \union {NoMail}] /\ mb'.entry \in 0 .. size
  BY <1>1, <1>2, <1>3
<1>6. RingOK'
  BY <1>1, <1>3, <1>4, <1>5 DEF RingOK, Index, RingPut
<1>7. Ring' = Append(Ring, v)
  <2>1. Ring' = Stored(mb'.msg_pool, mb'.out_offset, mb'.entry)
    BY DEF Ring, Stored
  <2>2. Stored([mb.msg_pool EXCEPT ![mb.in_offset] = v], mb.out_offset, mb.entry + 1)
            = Append(Stored(mb.msg_pool, mb.out_offset, mb.entry), v)
    <3>1. PICK M : M = Mail \union {NoMail}
      OBVIOUS
    <3>2. IsPool(mb.msg_pool, M) /\ v \in M
      BY <1>1, <3>1 DEF IsPool
    <3> QED
      BY ONLY <1>1, <1>2, <3>2, StoredAppend
  <2> QED
    BY <1>1, <1>3, <2>1, <2>2
<1> QED
  BY <1>1, <1>2, <1>6, <1>7 DEF MbChannel!Send, RingPut

(* The oldest mail is received.                                              *)
LEMMA RingTakes ==
    ASSUME RingOK, RingTake
    PROVE  RingOK' /\ MbChannel!Receive
<1>1. /\ mb.msg_pool \in [0 .. size - 1 -> Mail \union {NoMail}]
      /\ mb.in_offset \in 0 .. size - 1 /\ mb.out_offset \in 0 .. size - 1
      /\ mb.entry \in 0 .. size /\ mb.in_offset = Place(mb.out_offset, mb.entry)
      /\ size \in Nat /\ size >= 1
      /\ Ring = Stored(mb.msg_pool, mb.out_offset, mb.entry)
  BY RingFields
<1>2. mb.entry \in 1 .. size
  BY <1>1 DEF RingTake
<1>3. /\ mb'.msg_pool = mb.msg_pool /\ mb'.in_offset = mb.in_offset
      /\ mb'.out_offset = (IF mb.out_offset + 1 >= size THEN 0 ELSE mb.out_offset + 1)
      /\ mb'.entry = mb.entry - 1
      /\ mb' = [mb EXCEPT !.out_offset = mb'.out_offset, !.entry = mb'.entry]
      /\ mb_last' = mb.msg_pool[mb.out_offset]
  BY DEF RingOK, RingTake
<1>4. /\ mb'.out_offset = Place(mb.out_offset, 1) /\ mb'.out_offset \in 0 .. size - 1
      /\ mb'.in_offset = Place(mb'.out_offset, mb'.entry)
  <2>1. mb'.out_offset = Place(mb.out_offset, 1) /\ 1 \in 0 .. size
    BY <1>1, <1>3, NextPlace
  <2>2. Place(Place(mb.out_offset, 1), mb.entry - 1) = Place(mb.out_offset, mb.entry)
    BY <1>1, <1>2, NextPlace
  <2>3. Place(mb.out_offset, 1) \in 0 .. size - 1
    BY <1>1, <2>1, PlaceIsModulo
  <2> QED
    BY <1>1, <1>3, <2>1, <2>2, <2>3
<1>5. mb'.entry \in 0 .. size /\ mb_last' \in Mail \union {NoMail}
  BY <1>1, <1>2, <1>3
<1>6. RingOK'
  BY <1>1, <1>3, <1>4, <1>5 DEF RingOK, Index
<1>7. Ring # <<>> /\ Head(Ring) = mb.msg_pool[mb.out_offset] /\ Ring' = Tail(Ring)
  <2>1. Ring' = Stored(mb'.msg_pool, mb'.out_offset, mb'.entry)
    BY DEF Ring, Stored
  <2>2. /\ Stored(mb.msg_pool, mb.out_offset, mb.entry) # <<>>
        /\ Head(Stored(mb.msg_pool, mb.out_offset, mb.entry)) = mb.msg_pool[mb.out_offset]
        /\ Tail(Stored(mb.msg_pool, mb.out_offset, mb.entry))
               = Stored(mb.msg_pool, Place(mb.out_offset, 1), mb.entry - 1)
    <3>1. PICK M : M = Mail \union {NoMail}
      OBVIOUS
    <3>2. IsPool(mb.msg_pool, M)
      BY <1>1, <3>1 DEF IsPool
    <3>3. PICK pool, o, n : pool = mb.msg_pool /\ o = mb.out_offset /\ n = mb.entry
      OBVIOUS
    <3>4. IsPool(pool, M) /\ o \in 0 .. size - 1 /\ n \in 1 .. size
      BY <1>1, <1>2, <3>2, <3>3
    <3>5. /\ Stored(pool, o, n) # <<>> /\ Head(Stored(pool, o, n)) = pool[o]
          /\ Tail(Stored(pool, o, n)) = Stored(pool, Place(o, 1), n - 1)
      BY ONLY <3>4, StoredTail
    <3> QED
      BY <3>3, <3>5
  <2> QED
    BY <1>1, <1>3, <1>4, <2>1, <2>2
<1> QED
  BY <1>3, <1>6, <1>7 DEF MbChannel!Receive

(* Every step of the ring is a step of the channel, or leaves it alone.        *)
LEMMA RingRefines ==
    ASSUME RingOK, RingStep
    PROVE  RingOK' /\ [MbChannel!Next]_<<Ring, mb_last>>
<1>1. ASSUME NEW v \in Mail, RingPut(v) PROVE RingOK' /\ MbChannel!Next
  BY <1>1, RingPuts DEF MbChannel!Next
<1>2. ASSUME RingTake PROVE RingOK' /\ MbChannel!Next
  BY <1>2, RingTakes DEF MbChannel!Next
<1>3. ASSUME RingReset PROVE RingOK' /\ MbChannel!Next
  <2>1. size \in Nat /\ size >= 1
    BY ChannelAssumption
  <2>2. /\ mb'.entry = 0 /\ mb'.in_offset = 0 /\ mb'.out_offset = 0
        /\ mb' \in [ msg_pool : [Index -> Mail \union {NoMail}],
                     in_offset : Index, out_offset : Index, entry : 0 .. size ]
    <3>1. 0 \in Index /\ 0 \in 0 .. size
      BY <2>1 DEF Index
    <3> QED
      BY <1>3, <3>1 DEF RingOK, RingReset
  <2>3. RingOK'
    BY <1>3, <2>1, <2>2 DEF RingOK, RingReset, Place
  <2>4. Ring' = <<>>
    BY <2>2 DEF Ring
  <2> QED
    BY <1>3, <2>3, <2>4 DEF MbChannel!Next, MbChannel!Reset, RingReset
<1>4. ASSUME UNCHANGED mailbox PROVE RingOK' /\ UNCHANGED <<Ring, mb_last>>
  BY <1>4 DEF RingOK, mailbox, Ring
<1> QED
  BY <1>1, <1>2, <1>3, <1>4 DEF RingStep
-----------------------------------------------------------------------------
(* Claims: the woken threads of a list and what they are woken for *)

\* While threads are left on list l, n woken ones or more are on their way.
Claimed(l, n) == k.wait[l] # <<>> => n <= Cardinality(Called(l))

\* After the step g more woken threads are on their way than before it.
Gains(l, g) == \A n \in Int : Claimed(l, n) => Claimed(l, n + g)'

(* Those who are called after a step are finitely many too.                    *)
LEMMA CalledStaysFinite ==
    ASSUME NEW l
    PROVE  IsFiniteSet(Called(l)') /\ Cardinality(Called(l)') \in Nat
<1>1. Called(l)' \subseteq Thread
  BY DEF Called
<1> QED
  BY <1>1, KernelAssumption, FS_Subset, FS_CardinalityType

(* Nothing is claimed by anybody.                                             *)
LEMMA ClaimsNothing ==
    ASSUME NEW l, NEW n \in Int, n <= 0 \/ k'.wait[l] = <<>>
    PROVE  Claimed(l, n)'
BY CalledStaysFinite DEF Claimed

(* A step that gains h threads gains every smaller number.                    *)
LEMMA ClaimsLess ==
    ASSUME NEW l, NEW g \in Int, NEW h \in Int, g <= h, Gains(l, h)
    PROVE  Gains(l, g)
<1> SUFFICES ASSUME NEW n \in Int, Claimed(l, n) PROVE Claimed(l, n + g)'
  BY DEF Gains
<1>1. Claimed(l, n + h)'
  BY DEF Gains
<1>2. ASSUME k'.wait[l] # <<>> PROVE n + g <= Cardinality(Called(l)')
  <2>1. n + h <= Cardinality(Called(l)')
    BY <1>1, <1>2 DEF Claimed
  <2> QED
    BY <2>1, CalledStaysFinite
<1> QED
  BY <1>2 DEF Claimed

(* A list that nobody joins, some of whose woken threads pass.                 *)
LEMMA GainsBySets ==
    ASSUME CallsInv, CallsInv', NEW l \in WaitList, NEW g \in Int,
           ToSet(k'.wait[l]) \subseteq ToSet(k.wait[l]),
           k.wait[l] # <<>> => Cardinality(Called(l)) + g <= Cardinality(Called(l)')
    PROVE  Gains(l, g)
<1>1. k.wait[l] \in Seq(Thread) /\ k'.wait[l] \in Seq(Thread)
  BY StateFields DEF CallsInv, CallsTypeOK
<1>2. k.wait[l] = <<>> => k'.wait[l] = <<>>
  <2>1. k.wait[l] = <<>> => ToSet(k.wait[l]) = {}
    BY <1>1, EmptyList
  <2>2. ToSet(k'.wait[l]) = {} => k'.wait[l] = <<>>
    BY <1>1, EmptyList
  <2> QED
    BY <2>1, <2>2
<1> SUFFICES ASSUME NEW n \in Int, Claimed(l, n) PROVE Claimed(l, n + g)'
  BY DEF Gains
<1>3. ASSUME k'.wait[l] # <<>> PROVE n + g <= Cardinality(Called(l)')
  <2>1. /\ n <= Cardinality(Called(l))
        /\ Cardinality(Called(l)) + g <= Cardinality(Called(l)')
    BY <1>2, <1>3 DEF Claimed
  <2>2. Cardinality(Called(l)) \in Nat /\ Cardinality(Called(l)') \in Nat
    BY CalledFinite, CalledStaysFinite
  <2> QED
    BY <2>1, <2>2
<1> QED
  BY <1>3 DEF Claimed

(* One thread less in a finite set.                                           *)
LEMMA OneLess ==
    ASSUME NEW C, IsFiniteSet(C), NEW t
    PROVE  /\ IsFiniteSet(C \ {t}) /\ Cardinality(C \ {t}) \in Nat
           /\ Cardinality(C) \in Nat /\ Cardinality(C) - 1 <= Cardinality(C \ {t})
           /\ t \notin C => Cardinality(C \ {t}) = Cardinality(C)
<1>1. Cardinality(C) \in Nat
  BY FS_CardinalityType
<1>2. CASE t \in C
  <2>1. Cardinality(C \ {t}) = Cardinality(C) - 1 /\ IsFiniteSet(C \ {t})
    BY <1>2, FS_RemoveElement
  <2> QED
    BY <1>1, <1>2, <2>1, FS_CardinalityType
<1>3. CASE t \notin C
  <2>1. C \ {t} = C
    BY <1>3
  <2> QED
    BY <1>1, <1>3, <2>1
<1> QED
  BY <1>2, <1>3

\* Thread t passes: it is no longer among those called.
Passes(t, l) == Called(l)' = Called(l) \ {t}

(* What a thread that goes on leaves behind.                                  *)
LEMMA GainsByPassing ==
    ASSUME CallsInv, CallsInv', NEW l \in WaitList, NEW t,
           ToSet(k'.wait[l]) \subseteq ToSet(k.wait[l]), Passes(t, l)
    PROVE  Gains(l, -1) /\ (t \notin Called(l) => Gains(l, 0))
<1>1. /\ Cardinality(Called(l)) + (-1) <= Cardinality(Called(l)')
      /\ t \notin Called(l) => Cardinality(Called(l)) + 0 <= Cardinality(Called(l)')
  <2>1. PICK C : C = Called(l)
    OBVIOUS
  <2>2. IsFiniteSet(C) /\ Called(l)' = C \ {t}
    BY <2>1, CalledFinite DEF Passes
  <2>3. /\ Cardinality(C \ {t}) \in Nat /\ Cardinality(C) \in Nat
        /\ Cardinality(C) - 1 <= Cardinality(C \ {t})
        /\ t \notin C => Cardinality(C \ {t}) = Cardinality(C)
    BY <2>2, OneLess
  <2> QED
    BY <2>1, <2>2, <2>3
<1> QED
  BY <1>1, GainsBySets

(* A quiet step changes no claim.                                             *)
LEMMA QuietGains ==
    ASSUME CallsInv, Quiet, NEW l \in WaitList
    PROVE  Gains(l, 0)
<1>1. /\ CallsInv' /\ Called(l)' = Called(l)
      /\ ToSet(k'.wait[l]) \subseteq ToSet(k.wait[l])
  BY DEF Quiet, SameCalled, NobodyJoins
<1>2. Cardinality(Called(l)) + 0 <= Cardinality(Called(l)')
  BY <1>1, CalledFinite
<1> QED
  BY <1>1, <1>2, GainsBySets

(* A thread that is woken is one more on its way.                              *)
LEMMA WakingGains ==
    ASSUME CallsInv, CallsInv', NEW l \in WaitList, NEW h \in Thread, NEW t,
           h \notin Called(l), t \notin Called(l),
           Called(l)' = (Called(l) \ {t}) \union {h},
           ToSet(k'.wait[l]) \subseteq ToSet(k.wait[l])
    PROVE  Gains(l, 1)
<1>1. PICK C : C = Called(l)
  OBVIOUS
<1>2. IsFiniteSet(C) /\ Called(l)' = C \union {h} /\ h \notin C
  <2>1. C \ {t} = C
    BY <1>1
  <2> QED
    BY <1>1, <2>1, CalledFinite
<1>3. Cardinality(C) \in Nat /\ Cardinality(C \union {h}) = Cardinality(C) + 1
  BY <1>2, FS_AddElement, FS_CardinalityType
<1>4. Cardinality(Called(l)) + 1 <= Cardinality(Called(l)')
  BY <1>1, <1>2, <1>3
<1>5. 1 \in Int
  OBVIOUS
<1> QED
  BY <1>4, <1>5, GainsBySets
-----------------------------------------------------------------------------
(* Calls that go on after they have waited *)

\* The running thread t goes on to a point at which it neither waits nor detaches.
GoesOn(t) ==
    /\ k.cur = t /\ k.stat[t] = "ready" /\ ~InWait(t)' /\ ~Sweeps(t)'
    /\ pc' = [x \in Thread |-> pc'[x]]
    /\ list' \in [Thread -> WaitList \union {"none"}]
    /\ \A x \in Thread \ {t} : pc'[x] = pc[x] /\ list'[x] = list[x]

(* Leave and Goto go on, unless to a wait or to a detach.                      *)
LEMMA LeavingGoesOn ==
    ASSUME CallsInv, NEW t \in Thread, k.cur = t, k.stat[t] = "ready",
           NEW c, c \notin {"wait", "woken", "test", "resume"},
           Leave(t, c) \/ Goto(t, c)
    PROVE  GoesOn(t)
<1>1. /\ pc' = [x \in Thread |-> pc'[x]] /\ pc'[t] = c
      /\ list' \in [Thread -> WaitList \union {"none"}]
      /\ \A x \in Thread \ {t} : pc'[x] = pc[x] /\ list'[x] = list[x]
  BY DEF Leave, Goto, CallsInv, CallsTypeOK
<1>2. ~InWait(t)' /\ ~Sweeps(t)'
  BY <1>1 DEF InWait, Sweeps
<1> QED
  BY <1>1, <1>2 DEF GoesOn

(* The thread that goes on is on no list, and in no wait.                      *)
LEMMA GoneOn ==
    ASSUME CallsInv, NEW t \in Thread, GoesOn(t), SameView(k', k, t)
    PROVE  /\ ThreadOK(t)' /\ \A m \in WaitList : t \notin Called(m)'
<1>1. ThreadOK(t) /\ ~Waiting(t) /\ ~Waiting(t)'
  BY DEF CallsInv, Waiting, GoesOn
<1>2. \A m \in WaitList : ~On(t, m)'
  BY <1>1 DEF ThreadOK, On, SameView
<1>3. ThreadOK(t)'
  BY <1>1, <1>2 DEF ThreadOK, GoesOn, SameView
<1> QED
  BY <1>3 DEF Called, GoesOn

(* It goes on and wakes nobody.                                               *)
LEMMA GoingOn ==
    ASSUME CallsInv, life = "yes", UNCHANGED <<k, object>>, NEW t \in Thread, GoesOn(t)
    PROVE  CallsInv' /\ \A m \in WaitList : Passes(t, m)
<1>1. \A x \in Thread : SameView(k', k, x)
  BY DEF SameView
<1>2. \A x \in Thread \ {t} :
          /\ ThreadOK(x)' /\ (Sweeps(x)' => Sweeps(x))
          /\ \A m \in WaitList : x \in Called(m)' <=> x \in Called(m)
  BY <1>1, StaysSame DEF GoesOn, Stays
<1>3. ThreadOK(t)' /\ \A m \in WaitList : t \notin Called(m)'
  BY <1>1, GoneOn
<1>4. \A x \in Thread : Sweeps(x)' => Sweeps(x)
  BY <1>2 DEF GoesOn
<1>5. SweepOK' /\ (DetachTimed \/ UntimedOK')
  BY <1>4, LivingStep
<1>6. CallsTypeOK' /\ Runner' /\ KernelConsistent(k')
  BY DEF CallsInv, CallsTypeOK, Runner, object, GoesOn
<1>7. CallsInv'
  BY <1>2, <1>3, <1>5, <1>6 DEF CallsInv, GoesOn
<1>8. ASSUME NEW m \in WaitList PROVE Passes(t, m)
  <2>1. Called(m) \subseteq Thread /\ Called(m)' \subseteq Thread
    BY DEF Called
  <2> QED
    BY <1>2, <1>3, <2>1 DEF Passes
<1> QED
  BY <1>7, <1>8

\* Thread t goes on and the waiter h of list l is woken.
WakesAfter(h, l, t) ==
    /\ h \notin Called(l) /\ Called(l)' = (Called(l) \ {t}) \union {h}
    /\ \A m \in WaitList : ToSet(k'.wait[m]) = ToSet(k.wait[m]) \ {h}
    /\ \A m \in WaitList \ {l} : Passes(t, m)

(* It goes on and wakes the first waiter of a list.                            *)
LEMMA GoingOnWakes ==
    ASSUME CallsInv, life = "yes", UNCHANGED object, NEW t \in Thread, GoesOn(t),
           NEW l \in WaitList, k.wait[l] # <<>>, k' = rt_ipc_list_resume(k, l)
    PROVE  CallsInv' /\ \E h \in Thread : WakesAfter(h, l, t)
<1>1. PICK h \in Thread : WaiterResumed(k', h, l)
  BY FirstWaiter
<1>2. /\ Waiting(h) /\ list[h] = l /\ k.err[h] = "EOK"
      /\ k' \in KernelState /\ KernelConsistent(k')
      /\ k'.cur = k.cur /\ k'.nest = k.nest
      /\ k'.stat[h] = "ready" /\ ~k'.timer[h] /\ k'.err[h] = "EOK"
      /\ \A m \in WaitList : ToSet(k'.wait[m]) = ToSet(k.wait[m]) \ {h}
      /\ \A x \in Thread \ {h} : SameView(k', k, x)
  BY <1>1 DEF WaiterResumed
<1>3. ThreadOK(h) /\ InWait(h) /\ k.stat[h] = "suspend" /\ h # t
  BY <1>2 DEF CallsInv, Waiting, GoesOn
<1>4. pc'[h] = pc[h] /\ list'[h] = l /\ InWait(h)' /\ Sweeps(h)' = Sweeps(h)
  BY <1>2, <1>3 DEF GoesOn, InWait, Sweeps
<1>5. \A m \in WaitList : ~On(h, m)'
  BY <1>2 DEF On
<1>6. ThreadOK(h)'
  BY <1>2, <1>3, <1>4, <1>5 DEF ThreadOK, Waiting
<1>7. \A x \in Thread \ {h, t} :
          /\ ThreadOK(x)' /\ (Sweeps(x)' => Sweeps(x))
          /\ \A m \in WaitList : x \in Called(m)' <=> x \in Called(m)
  BY <1>2, StaysSame DEF GoesOn, Stays
<1>8. ThreadOK(t)' /\ \A m \in WaitList : t \notin Called(m)'
  BY <1>2, <1>3, GoneOn
<1>9. \A x \in Thread : Sweeps(x)' => Sweeps(x)
  BY <1>4, <1>7 DEF GoesOn
<1>10. SweepOK' /\ (DetachTimed \/ UntimedOK')
  BY <1>9, LivingStep
<1>11. CallsTypeOK' /\ Runner'
  <2>1. k'.stat[t] = "ready" /\ k.nest = 0
    BY <1>2, <1>3 DEF SameView, GoesOn, CallsInv, Runner
  <2> QED
    BY <1>2, <2>1 DEF CallsInv, CallsTypeOK, Runner, object, GoesOn
<1>12. CallsInv'
  BY <1>2, <1>6, <1>7, <1>8, <1>10, <1>11 DEF CallsInv, GoesOn
<1>13. \A m \in WaitList : h \notin Called(m)
  BY <1>3 DEF Called
<1>14. h \in Called(l)' /\ \A m \in WaitList \ {l} : h \notin Called(m)'
  BY <1>2, <1>4 DEF Called
<1>15. Called(l)' = (Called(l) \ {t}) \union {h}
  <2>1. Called(l) \subseteq Thread /\ Called(l)' \subseteq Thread
    BY DEF Called
  <2> QED
    BY <1>3, <1>7, <1>8, <1>14, <2>1
<1>16. ASSUME NEW m \in WaitList \ {l} PROVE Passes(t, m)
  <2>1. Called(m) \subseteq Thread /\ Called(m)' \subseteq Thread
    BY DEF Called
  <2> QED
    BY <1>7, <1>8, <1>13, <1>14, <2>1 DEF Passes
<1>17. WakesAfter(h, l, t)
  BY <1>2, <1>13, <1>15, <1>16 DEF WakesAfter
<1> QED
  BY <1>12, <1>17

(* A caller that has put something in, or taken something out, wakes the first *)
(* of those who wait for that, if anybody does.                               *)
LEMMA WakeGains ==
    ASSUME CallsInv, life = "yes", UNCHANGED object, NEW t \in Thread, k.cur = t,
           k.stat[t] = "ready", NEW l \in WaitList, t \notin Called(l), Wake(t, l)
    PROVE  /\ CallsInv' /\ Gains(l, 1)
           /\ \A m \in WaitList \ {l} :
                  Gains(m, -1) /\ (t \notin Called(m) => Gains(m, 0))
<1>1. CASE k.wait[l] = <<>>
  <2>1. UNCHANGED k /\ Leave(t, "run")
    BY <1>1 DEF Wake
  <2>2. GoesOn(t)
    BY <2>1, LeavingGoesOn
  <2>3. CallsInv' /\ \A m \in WaitList : Passes(t, m)
    BY <2>1, <2>2, GoingOn
  <2>4. Gains(l, 1)
    BY <1>1, <2>1, ClaimsNothing DEF Gains
  <2>5. ASSUME NEW m \in WaitList PROVE Gains(m, -1) /\ (t \notin Called(m) => Gains(m, 0))
    BY <2>1, <2>3, GainsByPassing
  <2> QED
    BY <2>3, <2>4, <2>5
<1>2. CASE k.wait[l] # <<>>
  <2>1. k' = rt_ipc_list_resume(k, l) /\ Leave(t, "schedule")
    BY <1>2 DEF Wake
  <2>2. GoesOn(t)
    BY <2>1, LeavingGoesOn
  <2>3. CallsInv' /\ \E h \in Thread : WakesAfter(h, l, t)
    BY <1>2, <2>1, <2>2, GoingOnWakes
  <2>4. PICK h \in Thread : WakesAfter(h, l, t)
    BY <2>3
  <2>5. Gains(l, 1)
    <3>1. /\ h \notin Called(l) /\ Called(l)' = (Called(l) \ {t}) \union {h}
          /\ ToSet(k'.wait[l]) \subseteq ToSet(k.wait[l])
      BY <2>4 DEF WakesAfter
    <3> QED
      BY <2>3, <3>1, WakingGains
  <2>6. ASSUME NEW m \in WaitList \ {l}
        PROVE  Gains(m, -1) /\ (t \notin Called(m) => Gains(m, 0))
    <3>1. Passes(t, m) /\ ToSet(k'.wait[m]) \subseteq ToSet(k.wait[m])
      BY <2>4 DEF WakesAfter
    <3> QED
      BY <2>3, <3>1, GainsByPassing
  <2> QED
    BY <2>3, <2>5, <2>6
<1> QED
  BY <1>1, <1>2

(* The same in an interrupt handler.                                          *)
LEMMA IsrWakeGains ==
    ASSUME CallsInv, life = "yes", UNCHANGED <<pc, list, object>>,
           NEW l \in WaitList, IsrWake(l)
    PROVE  /\ CallsInv' /\ Gains(l, 1)
           /\ \A m \in WaitList \ {l} : Gains(m, 0)
<1>1. CASE k.wait[l] = <<>>
  <2>1. Quiet
    BY <1>1, IsrWakeKeeps
  <2>2. Gains(l, 1)
    <3>1. k'.wait[l] = <<>>
      BY <1>1 DEF IsrWake
    <3> QED
      BY <3>1, ClaimsNothing DEF Gains
  <2> QED
    BY <2>1, <2>2, QuietGains DEF Quiet
<1>2. CASE k.wait[l] # <<>>
  <2>1. CallsInv' /\ \E h \in Thread : Wakes(h, l)
    BY <1>2, IsrWakeKeeps
  <2>2. PICK h \in Thread : Wakes(h, l)
    BY <2>1
  <2>3. Gains(l, 1)
    <3>1. /\ h \notin Called(l) /\ Called(l)' = (Called(l) \ {h}) \union {h}
          /\ ToSet(k'.wait[l]) \subseteq ToSet(k.wait[l])
      BY <2>2 DEF Wakes
    <3> QED
      BY <2>1, <3>1, WakingGains
  <2>4. ASSUME NEW m \in WaitList \ {l} PROVE Gains(m, 0)
    <3>1. Called(m)' = Called(m) /\ ToSet(k'.wait[m]) \subseteq ToSet(k.wait[m])
      BY <2>2 DEF Wakes
    <3>2. Cardinality(Called(m)) + 0 <= Cardinality(Called(m)')
      BY <3>1, CalledFinite
    <3> QED
      BY <2>1, <3>1, <3>2, GainsBySets
  <2> QED
    BY <2>1, <2>3, <2>4
<1> QED
  BY <1>1, <1>2
(* A reset refuses the waiters of both lists.                                 *)
LEMMA ResetKeeps ==
    ASSUME CallsInv, life = "yes", UNCHANGED object, NEW t \in Thread, At(t, "run"),
           Goto(t, "schedule"), NEW l \in WaitList, NEW m \in WaitList,
           k' = ResetWaiters(l, m)
    PROVE  Quiet /\ k'.wait[l] = <<>> /\ k'.wait[m] = <<>>
<1>1. /\ k \in KernelState /\ KernelConsistent(k)
      /\ ToSet(k.wait[l]) \subseteq Thread /\ ToSet(k.wait[m]) \subseteq Thread
  BY StateFields DEF CallsInv, CallsTypeOK
<1>2. \A x \in ToSet(k.wait[l]) \union ToSet(k.wait[m]) :
          x \in Thread /\ Waiting(x) /\ k.stat[x] = "suspend"
  BY <1>1 DEF CallsInv, ThreadOK, On, Waiting
<1>3. PICK u : u = rt_ipc_list_resume_all(k, l)
  OBVIOUS
<1>4. k' = rt_ipc_list_resume_all(u, m)
  BY <1>3 DEF ResetWaiters
<1>5. /\ u \in KernelState /\ KernelConsistent(u)
      /\ u.prio = k.prio /\ u.cur = k.cur /\ u.nest = k.nest
      /\ \A x \in ToSet(k.wait[l]) : Refused(u, x)
      /\ \A x \in Thread \ ToSet(k.wait[l]) : SameView(u, k, x)
  <2>1. \A x \in ToSet(k.wait[l]) : k.stat[x] = "suspend"
    BY <1>2
  <2>2. k \in KernelState /\ KernelConsistent(k)
    BY <1>1
  <2> QED
    BY ONLY <1>3, <2>1, <2>2, l \in WaitList, ResumeAllEffect
<1>6. ToSet(u.wait[m]) \subseteq Thread
  BY <1>5, StateFields
<1>7. ToSet(u.wait[m]) = ToSet(k.wait[m]) \ ToSet(k.wait[l])
  <2>1. ASSUME NEW x \in Thread
        PROVE  x \in ToSet(u.wait[m]) <=> x \in ToSet(k.wait[m]) \ ToSet(k.wait[l])
    BY <1>5 DEF Refused, SameView
  <2> QED
    BY <1>1, <1>6, <2>1
<1>8. /\ k' \in KernelState /\ KernelConsistent(k')
      /\ k'.prio = u.prio /\ k'.cur = u.cur /\ k'.nest = u.nest
      /\ \A x \in ToSet(u.wait[m]) : Refused(k', x)
      /\ \A x \in Thread \ ToSet(u.wait[m]) : SameView(k', u, x)
  <2>1. ASSUME NEW x \in ToSet(u.wait[m]) PROVE u.stat[x] = "suspend"
    <3>1. x \in Thread \ ToSet(k.wait[l]) /\ k.stat[x] = "suspend"
      BY <1>2, <1>7
    <3> QED
      BY <1>5, <3>1 DEF SameView
  <2>2. u \in KernelState /\ KernelConsistent(u)
    BY <1>5
  <2> QED
    BY ONLY <1>4, <2>1, <2>2, m \in WaitList, ResumeAllEffect
<1> DEFINE H == ToSet(k.wait[l]) \union ToSet(k.wait[m])
<1>9. \A x \in H : Refused(k', x)
  <2>1. ASSUME NEW x \in ToSet(k.wait[l]) PROVE Refused(k', x)
    <3>1. Refused(u, x) /\ x \in Thread \ ToSet(u.wait[m])
      BY <1>2, <1>5, <1>7
    <3>2. SameView(k', u, x)
      BY <1>8, <3>1
    <3> QED
      BY <3>1, <3>2 DEF Refused, SameView
  <2>2. ASSUME NEW x \in ToSet(k.wait[m]), x \notin ToSet(k.wait[l]) PROVE Refused(k', x)
    BY <1>7, <1>8, <2>2
  <2> QED
    BY <2>1, <2>2
<1>10. \A x \in Thread \ H : SameView(k', k, x)
  <2>1. ASSUME NEW x \in Thread \ H PROVE SameView(k', u, x) /\ SameView(u, k, x)
    BY <1>5, <1>7, <1>8
  <2> QED
    BY <2>1 DEF SameView
<1>11. Quiet
  <2>1. \A x \in H : x \in Thread /\ Waiting(x)
    BY <1>2
  <2>2. k'.cur = k.cur /\ k'.nest = k.nest
    BY <1>5, <1>8
  <2> HIDE DEF H
  <2> QED
    BY <1>8, <1>9, <1>10, <2>1, <2>2, RefusingCall
<1> QED
  BY <1>9, <1>11, RefusedList
-----------------------------------------------------------------------------
(* What the calls on any channel have in common: l is the list of those who   *)
(* wait for mail, m the list of those who wait for room, P the points.        *)

\* A sender that waits has a mail in its hands; of an object that is detached
\* nobody is called and nobody is in the middle of a call.
Frame(l, m, P) ==
    /\ CallsInv /\ HandsTypeOK /\ pc \in [Thread -> P]
    /\ \A t \in Thread : list[t] \in {l, m, "none"}
    /\ \A t \in Thread : InWait(t) /\ list[t] = m => value[t] \in Mail
    /\ life # "yes" => /\ Called(l) = {} /\ Called(m) = {}
                       /\ \A t \in Thread : pc[t] \in CallPoint

Lists(l, m, P) ==
    /\ l \in WaitList /\ m \in WaitList /\ l # m /\ CallPoint \subseteq P

\* Thread t runs and is at the loop test of a call that waits on list x.
Caller(t, x) ==
    /\ t # Idle /\ life = "yes" /\ k.cur = t /\ k.stat[t] = "ready"
    /\ \/ pc[t] = "run"
       \/ pc[t] = "woken" /\ list[t] = x /\ k.err[t] = "EOK"

(* A call that starts and a call that tries again are at the same test.         *)
LEMMA CallerIs ==
    ASSUME NEW l, NEW m, NEW P, Lists(l, m, P), Frame(l, m, P), NEW t \in Thread,
           NEW x \in {l, m}, Enters(t) \/ WokenToRetry(t, x)
    PROVE  /\ Caller(t, x) /\ \A y \in WaitList : t \in Called(y) => y = x
<1>1. CASE Enters(t)
  <2>1. /\ t # Idle /\ life = "yes" /\ k.cur = t /\ pc[t] = "run"
        /\ k.stat[t] = "ready" /\ ~InWait(t)
    BY <1>1 DEF Enters, At, Frame, CallsInv, Runner, InWait
  <2> QED
    BY <2>1 DEF Caller, Called
<1>2. CASE WokenToRetry(t, x)
  <2>1. /\ k.cur = t /\ pc[t] = "woken" /\ list[t] = x /\ k.err[t] = "EOK"
        /\ k.stat[t] = "ready" /\ InWait(t) /\ ThreadOK(t)
    BY <1>2 DEF WokenToRetry, At, Frame, CallsInv, Runner, InWait
  <2>2. t # Idle
    BY <2>1 DEF ThreadOK
  <2>3. t \in Called(x)
    BY <2>1 DEF Called
  <2>4. life = "yes"
    BY <2>3 DEF Frame
  <2> QED
    BY <2>1, <2>2, <2>4 DEF Caller, Called
<1> QED
  BY <1>1, <1>2

(* What a step that holds something in the hands of one thread leaves to show. *)
LEMMA FrameHolds ==
    ASSUME NEW l, NEW m, NEW P, Lists(l, m, P), Frame(l, m, P), NEW t \in Thread,
           life' = "yes", CallsInv', NEW c \in P, pc' = [pc EXCEPT ![t] = c],
           NEW x \in {l, m, "none"}, list' = [list EXCEPT ![t] = x],
           NEW v \in Mail \union {NoMail}, NEW d \in Time, Hold(t, v, d),
           InWait(t)' /\ x = m => v \in Mail
    PROVE  Frame(l, m, P)'
<1>1. /\ value \in [Thread -> Mail \union {NoMail}] /\ timeout \in [Thread -> Time]
      /\ pc \in [Thread -> P] /\ list \in [Thread -> WaitList \union {"none"}]
  BY DEF Frame, HandsTypeOK, CallsInv, CallsTypeOK
<1>2. /\ value' = [value EXCEPT ![t] = v] /\ timeout' = [timeout EXCEPT ![t] = d]
  BY DEF Hold
<1>3. HandsTypeOK' /\ pc' \in [Thread -> P]
  BY <1>1, <1>2 DEF HandsTypeOK
<1>4. \A u \in Thread : list'[u] \in {l, m, "none"}
  BY <1>1 DEF Frame
<1>5. ASSUME NEW u \in Thread, InWait(u)', list'[u] = m PROVE value'[u] \in Mail
  <2>1. CASE u = t
    BY <1>1, <1>2, <1>5, <2>1
  <2>2. CASE u # t
    <3>1. InWait(u) /\ list[u] = m /\ value'[u] = value[u]
      BY <1>1, <1>2, <1>5, <2>2 DEF InWait
    <3> QED
      BY <3>1 DEF Frame
  <2> QED
    BY <2>1, <2>2
<1> QED
  BY <1>3, <1>4, <1>5 DEF Frame

(* The steps every object has.                                                *)
LEMMA FrameCommon ==
    ASSUME NEW l, NEW m, NEW P, Lists(l, m, P), Frame(l, m, P), UNCHANGED hands,
           \/ \E t \in Thread : CallSteps(t) \/ DetachChannel(t, l, m)
           \/ Background \/ UNCHANGED calls
    PROVE  Frame(l, m, P)' /\ Gains(l, 0) /\ Gains(m, 0)
<1>1. /\ CallsInv /\ pc \in [Thread -> P] /\ CallPoint \subseteq P
      /\ l \in WaitList /\ m \in WaitList
      /\ value' = value /\ timeout' = timeout
  BY DEF Frame, Lists, hands
<1>2. ASSUME Quiet, pc' \in [Thread -> P], list' = list,
             \A x \in Thread : InWait(x)' = InWait(x),
             life' # "yes" => \A x \in Thread : pc'[x] \in CallPoint,
             life = "yes" /\ life' # "yes" => Called(l) = {} /\ Called(m) = {}
      PROVE  Frame(l, m, P)' /\ Gains(l, 0) /\ Gains(m, 0)
  <2>1. /\ CallsInv' /\ Called(l)' = Called(l) /\ Called(m)' = Called(m)
    BY <1>1, <1>2 DEF Quiet, SameCalled
  <2>2. HandsTypeOK'
    BY <1>1 DEF Frame, HandsTypeOK
  <2>3. Frame(l, m, P)'
    BY <1>1, <1>2, <2>1, <2>2 DEF Frame
  <2> QED
    BY <1>1, <1>2, <2>3, QuietGains
<1>3. ASSUME NEW t \in Thread, CallSteps(t)
      PROVE  Frame(l, m, P)' /\ Gains(l, 0) /\ Gains(m, 0)
  <2>1. Quiet
    BY <1>1, <1>3, CallStepsKeep
  <2>2. /\ pc' \in [Thread -> P] /\ list' = list
        /\ \A x \in Thread : InWait(x)' = InWait(x)
    BY <1>1, <1>3, CallStepsPoints
  <2>3. life = "yes" => life' = "yes"
    <3>1. pc[t] = "test" => life = "detaching"
      BY <1>1 DEF CallsInv, SweepOK, Sweeps
    <3> QED
      BY <1>3, <3>1 DEF CallSteps, object, SweepTest, SweepResume, At
  <2>4. life' # "yes" => \A x \in Thread : pc'[x] \in CallPoint
    <3> SUFFICES ASSUME life' # "yes" PROVE \A x \in Thread : pc'[x] \in CallPoint
      OBVIOUS
    <3>1. pc \in [Thread -> CallPoint]
      BY <1>1, <2>3 DEF Frame
    <3>2. pc' \in [Thread -> CallPoint]
      BY <1>1, <1>3, <3>1, CallStepsPoints
    <3> QED
      BY <3>2
  <2> QED
    BY <1>2, <2>1, <2>2, <2>3, <2>4
<1>4. ASSUME Background PROVE Frame(l, m, P)' /\ Gains(l, 0) /\ Gains(m, 0)
  <2>1. /\ pc' = pc /\ list' = list /\ life' = life
        /\ \A x \in Thread : InWait(x)' = InWait(x)
    BY <1>4, BackgroundPoints DEF object
  <2>2. Quiet
    BY <1>1, <1>4, BackgroundKeeps
  <2> QED
    BY <1>1, <1>2, <2>1, <2>2 DEF Frame
<1>5. ASSUME UNCHANGED calls PROVE Frame(l, m, P)' /\ Gains(l, 0) /\ Gains(m, 0)
  <2>1. /\ pc' = pc /\ list' = list /\ life' = life
        /\ \A x \in Thread : InWait(x)' = InWait(x)
    BY <1>5 DEF calls, object, InWait
  <2>2. Quiet
    BY <1>1, <1>5, CallsStutter
  <2> QED
    BY <1>1, <1>2, <2>1, <2>2 DEF Frame
<1>6. ASSUME NEW t \in Thread, DetachChannel(t, l, m)
      PROVE  Frame(l, m, P)' /\ Gains(l, 0) /\ Gains(m, 0)
  <2>1. /\ StartDetach(t, <<l, m>>) /\ Called(l) = {} /\ Called(m) = {}
        /\ \A u \in Thread : pc[u] \in {"run", "wait", "woken", "schedule"}
    BY <1>6 DEF DetachChannel
  <2>2. Quiet
    <3>1. <<l, m>> \in Seq(WaitList) /\ <<l, m>> # <<>>
      BY <1>1
    <3>2. l \in ToSet(<<l, m>>) /\ m \in ToSet(<<l, m>>)
      BY DEF ToSet
    <3>3. \A x \in Thread, y \in WaitList : On(x, y) => y \in ToSet(<<l, m>>)
      BY <1>1, <3>2, CallsAssumption DEF Frame, CallsInv, ThreadOK
    <3> QED
      BY <1>1, <2>1, <3>1, <3>3, DetachStarts
  <2>3. /\ pc[t] = "run" /\ pc' = [pc EXCEPT ![t] = "test"] /\ list' = list
        /\ {"run", "wait", "woken", "schedule", "test"} \subseteq CallPoint
    BY <2>1 DEF StartDetach, Goto, Enters, At, CallPoint
  <2>4. /\ \A x \in Thread : InWait(x)' = InWait(x) /\ pc'[x] \in CallPoint
        /\ pc' \in [Thread -> P]
    BY <1>1, <2>1, <2>3 DEF InWait
  <2> QED
    BY <1>2, <2>1, <2>2, <2>3, <2>4
<1> QED
  BY <1>3, <1>4, <1>5, <1>6

(* A woken caller that finds an error returns.                                 *)
LEMMA FrameInVain ==
    ASSUME NEW l, NEW m, NEW P, Lists(l, m, P), Frame(l, m, P), NEW t \in Thread,
           NEW x \in {l, m}, WokenInVain(t, x), UNCHANGED object
    PROVE  Frame(l, m, P)' /\ Gains(l, 0) /\ Gains(m, 0)
<1>1. /\ CallsInv /\ l \in WaitList /\ m \in WaitList /\ "run" \in CallPoint
      /\ CallPoint \subseteq P /\ "none" \in Time
      /\ value \in [Thread -> Mail \union {NoMail}] /\ timeout \in [Thread -> Time]
      /\ pc \in [Thread -> P] /\ list \in [Thread -> WaitList \union {"none"}]
  BY DEF Frame, Lists, CallPoint, Time, HandsTypeOK, CallsInv, CallsTypeOK
<1>2. /\ At(t, "woken") /\ list[t] = x /\ k.err[t] # "EOK" /\ Leave(t, "run")
      /\ Hold(t, NoMail, "none") /\ UNCHANGED k
  BY DEF WokenInVain, EmptyHands
<1>3. /\ CallsInv' /\ \A y \in WaitList : Called(y)' = Called(y) \ {t}
      /\ list[t] \in WaitList /\ (k.err[t] = "EOK" <=> t \in Called(list[t]))
      /\ \A y \in WaitList : t \in Called(y) => y = list[t]
  BY <1>1, <1>2, LeaveKeeps
<1>4. \A y \in WaitList : t \notin Called(y)
  BY <1>2, <1>3
<1>5. Gains(l, 0) /\ Gains(m, 0)
  BY <1>1, <1>2, <1>3, <1>4, GainsByPassing DEF Passes
<1>6. /\ pc' = [pc EXCEPT ![t] = "run"] /\ list' = [list EXCEPT ![t] = "none"]
      /\ value' = [value EXCEPT ![t] = NoMail] /\ timeout' = [timeout EXCEPT ![t] = "none"]
  BY <1>2 DEF Leave, Hold
<1>7. HandsTypeOK' /\ pc' \in [Thread -> P]
  BY <1>1, <1>6 DEF HandsTypeOK
<1>8. \A u \in Thread : list'[u] \in {l, m, "none"}
  BY <1>1, <1>6 DEF Frame
<1>9. ASSUME NEW u \in Thread, InWait(u)', list'[u] = m PROVE value'[u] \in Mail
  <2>1. u # t
    BY <1>1, <1>6, <1>9 DEF InWait
  <2>2. InWait(u) /\ list[u] = m /\ value'[u] = value[u]
    BY <1>1, <1>6, <1>9, <2>1 DEF InWait
  <2> QED
    BY <2>2 DEF Frame
<1>10. life' # "yes" => /\ Called(l)' = {} /\ Called(m)' = {}
                        /\ \A u \in Thread : pc'[u] \in CallPoint
  BY <1>1, <1>3, <1>6 DEF Frame, object
<1> QED
  BY <1>3, <1>5, <1>7, <1>8, <1>9, <1>10 DEF Frame

(* A caller whose time is over gives up.                                      *)
LEMMA FrameGiveUp ==
    ASSUME NEW l, NEW m, NEW P, Lists(l, m, P), Frame(l, m, P), NEW t \in Thread,
           NEW x \in {l, m}, Caller(t, x), NEW e \in Error, GiveUp(t, e),
           UNCHANGED object
    PROVE  Frame(l, m, P)' /\ \A y \in {l, m} : t \notin Called(y) => Gains(y, 0)
<1>1. /\ CallsInv /\ l \in WaitList /\ m \in WaitList /\ "run" \in P /\ "none" \in Time
      /\ list \in [Thread -> WaitList \union {"none"}] /\ life = "yes" /\ life' = "yes"
      /\ At(t, "run") \/ At(t, "woken")
  BY DEF Frame, Lists, CallPoint, Time, CallsInv, CallsTypeOK, Caller, At, object
<1>2. /\ k' = [k EXCEPT !.err[t] = e] /\ pc' = [pc EXCEPT ![t] = "run"]
      /\ list' = [list EXCEPT ![t] = "none"] /\ Hold(t, NoMail, "none")
  BY DEF GiveUp, Leave, EmptyHands
<1>3. /\ list' \in [Thread -> WaitList \union {"none"}]
      /\ \A u \in Thread \ {t} : list'[u] = list[u]
  BY <1>1, <1>2
<1>4. /\ CallsInv' /\ \A y \in WaitList : Called(y)' = Called(y) \ {t}
      /\ k'.wait = k.wait
  BY <1>1, <1>2, <1>3, ErrorKeeps
<1>5. ASSUME NEW y \in {l, m}, t \notin Called(y) PROVE Gains(y, 0)
  BY <1>1, <1>4, <1>5, GainsByPassing DEF Passes
<1>6. ~InWait(t)'
  BY <1>2 DEF InWait, Frame
<1>7. Frame(l, m, P)'
  BY <1>1, <1>2, <1>4, <1>6, FrameHolds
<1> QED
  BY <1>5, <1>7

(* A caller that finds no mail, or no room, waits.                             *)
LEMMA FrameWait ==
    ASSUME NEW l, NEW m, NEW P, Lists(l, m, P), Frame(l, m, P), NEW t \in Thread,
           NEW x \in {l, m}, Caller(t, x), NEW d \in Time, NEW f,
           NEW v \in Mail \union {NoMail}, x = m => v \in Mail,
           Block(t, Queue(t, x, f), x, d), Hold(t, v, d), UNCHANGED object
    PROVE  Frame(l, m, P)' /\ \A y \in {l, m} : y # x /\ t \notin Called(y) => Gains(y, 0)
<1>1. /\ CallsInv /\ l \in WaitList /\ m \in WaitList /\ x \in WaitList /\ "wait" \in P
      /\ life = "yes" /\ life' = "yes" /\ t # Idle /\ k.cur = t /\ k.stat[t] = "ready"
  BY DEF Frame, Lists, CallPoint, Caller, object
<1>2. PICK s : s = Queue(t, x, f)
  OBVIOUS
<1>3. /\ s \in KernelState /\ KernelConsistent(s)
      /\ s.stat = [k.stat EXCEPT ![t] = "suspend"]
      /\ s.timer = [k.timer EXCEPT ![t] = FALSE]
      /\ s.err = [k.err EXCEPT ![t] = "EOK"]
      /\ s.cur = k.cur /\ s.nest = k.nest /\ WaitAdds(s, k, x, t)
  BY <1>1, <1>2, QueueEffect
<1>4. CallsInv' /\ Joins(t, x)
  BY <1>1, <1>2, <1>3, BlockKeeps
<1>5. ASSUME NEW y \in {l, m}, y # x, t \notin Called(y) PROVE Gains(y, 0)
  <2>1. y \in WaitList /\ Passes(t, y) /\ ToSet(k'.wait[y]) \subseteq ToSet(k.wait[y])
    BY <1>1, <1>4, <1>5 DEF Joins, Passes
  <2> QED
    BY <1>1, <1>4, <1>5, <2>1, GainsByPassing
<1>6. pc' = [pc EXCEPT ![t] = "wait"] /\ list' = [list EXCEPT ![t] = x]
  BY DEF Block
<1>7. Frame(l, m, P)'
  BY <1>1, <1>4, <1>6, FrameHolds
<1> QED
  BY <1>5, <1>7
-----------------------------------------------------------------------------
(* The mailbox *)

MbInv ==
    /\ Frame("mb_receivers", "mb_senders", CallPoint)
    /\ RingOK
    /\ MailIsClaimed

MbLists == Lists("mb_receivers", "mb_senders", CallPoint)

(* The lists of the mailbox, and what MailIsClaimed says of each.              *)
LEMMA MbFacts ==
    /\ MbLists
    /\ MailIsClaimed <=> /\ Claimed("mb_receivers", mb.entry)
                         /\ Claimed("mb_senders", size - mb.entry)
    /\ RingOK => mb.entry \in 0 .. size /\ size \in Nat
<1>1. RingOK => mb.entry \in 0 .. size /\ size \in Nat
  BY RingFields
<1> QED
  BY <1>1, MailboxAssumption DEF MbLists, Lists, MailIsClaimed, Claimed

(* The invariant after a step, from what the step gains on the lists.           *)
LEMMA MbClaims ==
    ASSUME MbInv, Frame("mb_receivers", "mb_senders", CallPoint)', RingStep,
           NEW g \in Int, NEW h \in Int,
           \/ Gains("mb_receivers", g) /\ mb'.entry <= mb.entry + g
           \/ mb'.entry = 0 \/ k'.wait["mb_receivers"] = <<>>,
           \/ Gains("mb_senders", h) /\ size - mb'.entry <= size - mb.entry + h
           \/ mb'.entry = size \/ k'.wait["mb_senders"] = <<>>
    PROVE  MbInv' /\ [MbChannel!Next]_<<Ring, mb_last>>
<1>1. RingOK' /\ [MbChannel!Next]_<<Ring, mb_last>>
  BY RingRefines DEF MbInv
<1>2. /\ mb.entry \in Int /\ mb'.entry \in Int /\ size \in Int
  <2>1. mb.entry \in 0 .. size /\ size \in Nat
    BY MbFacts DEF MbInv
  <2>2. mb'.entry \in 0 .. size
    BY <1>1 DEF RingOK
  <2> QED
    BY <2>1, <2>2
<1>3. Claimed("mb_receivers", mb.entry)'
  <2>1. CASE Gains("mb_receivers", g) /\ mb'.entry <= mb.entry + g
    <3>1. Claimed("mb_receivers", mb.entry)
      BY MbFacts DEF MbInv
    <3>2. PICK n \in Int : n = mb.entry
      BY <1>2
    <3>3. Claimed("mb_receivers", n + g)'
      BY <2>1, <3>1, <3>2 DEF Gains
    <3> QED
      BY <1>2, <2>1, <3>2, <3>3, CalledStaysFinite DEF Claimed
  <2>2. CASE mb'.entry = 0 \/ k'.wait["mb_receivers"] = <<>>
    BY <1>2, <2>2, CalledStaysFinite DEF Claimed
  <2> QED
    BY <2>1, <2>2
<1>4. Claimed("mb_senders", size - mb.entry)'
  <2>1. CASE Gains("mb_senders", h) /\ size - mb'.entry <= size - mb.entry + h
    <3>1. Claimed("mb_senders", size - mb.entry)
      BY MbFacts DEF MbInv
    <3>2. PICK n \in Int : n = size - mb.entry
      BY <1>2
    <3>3. Claimed("mb_senders", n + h)'
      BY <2>1, <3>1, <3>2 DEF Gains
    <3> QED
      BY <1>2, <2>1, <3>2, <3>3, CalledStaysFinite DEF Claimed
  <2>2. CASE mb'.entry = size \/ k'.wait["mb_senders"] = <<>>
    BY <1>2, <2>2, CalledStaysFinite DEF Claimed
  <2> QED
    BY <2>1, <2>2
<1>5. MailIsClaimed'
  BY <1>3, <1>4 DEF MailIsClaimed, Claimed
<1> QED
  BY <1>1, <1>5 DEF MbInv

MbStep == MbInv' /\ [MbChannel!Next]_<<Ring, mb_last>>

(* A step that leaves the mailbox alone and that nobody is woken by.            *)
LEMMA MbQuiet ==
    ASSUME MbInv, Frame("mb_receivers", "mb_senders", CallPoint)', UNCHANGED mailbox,
           Gains("mb_receivers", 0), Gains("mb_senders", 0)
    PROVE  MbStep
<1>1. /\ mb' = mb /\ RingStep /\ 0 \in Int
  BY DEF mailbox, RingStep
<1>2. mb.entry \in 0 .. size /\ size \in Nat
  BY MbFacts DEF MbInv
<1>3. mb'.entry <= mb.entry + 0 /\ size - mb'.entry <= size - mb.entry + 0
  BY <1>1, <1>2
<1> QED
  BY <1>1, <1>3, MbClaims DEF MbStep

(* The wake-up after a step of the ring, in the hands of a thread.              *)
LEMMA MbWake ==
    ASSUME MbInv, NEW t \in Thread, NEW x, NEW y, Caller(t, x), Wake(t, y),
           EmptyHands(t), UNCHANGED object, t \notin Called(y),
           <<x, y>> \in {<<"mb_senders", "mb_receivers">>, <<"mb_receivers", "mb_senders">>}
    PROVE  /\ Frame("mb_receivers", "mb_senders", CallPoint)'
           /\ Gains(y, 1) /\ Gains(x, -1)
<1>1. /\ CallsInv /\ life = "yes" /\ life' = "yes" /\ k.cur = t /\ k.stat[t] = "ready"
      /\ Frame("mb_receivers", "mb_senders", CallPoint) /\ MbLists
      /\ x \in WaitList /\ y \in WaitList /\ x # y /\ "none" \in Time
  BY MbFacts, MailboxAssumption DEF MbInv, Frame, Caller, object, Time
<1>2. /\ CallsInv' /\ Gains(y, 1) /\ Gains(x, -1)
  BY <1>1, WakeGains
<1>3. PICK c \in CallPoint : Leave(t, c) /\ c \in {"run", "schedule"}
  BY DEF Wake, CallPoint
<1>4. /\ pc' = [pc EXCEPT ![t] = c] /\ list' = [list EXCEPT ![t] = "none"]
      /\ Hold(t, NoMail, "none")
  BY <1>3 DEF Leave, EmptyHands
<1>5. ~InWait(t)'
  BY <1>1, <1>3, <1>4 DEF InWait, Frame
<1>6. Frame("mb_receivers", "mb_senders", CallPoint)'
  BY <1>1, <1>2, <1>4, <1>5, FrameHolds DEF MbLists
<1> QED
  BY <1>2, <1>6

(* The loop of rt_mb_send_wait: the mail is stored, the call is given up or     *)
(* the caller waits.                                                         *)
LEMMA MbSends ==
    ASSUME MbInv, NEW t \in Thread, NEW v \in Mail, NEW d \in Time, SendMail(t, v, d),
           Enters(t) \/ WokenToRetry(t, "mb_senders")
    PROVE  MbStep
<1>1. /\ Frame("mb_receivers", "mb_senders", CallPoint) /\ MbLists
      /\ mb.entry \in 0 .. size /\ size \in Nat /\ UNCHANGED object /\ UNCHANGED mb_last
      /\ "mb_receivers" \in WaitList /\ "mb_senders" \in WaitList
  BY MbFacts, MailboxAssumption DEF MbInv, SendMail
<1>2. /\ Caller(t, "mb_senders")
      /\ \A y \in WaitList : t \in Called(y) => y = "mb_senders"
  BY <1>1, CallerIs DEF MbLists
<1>3. t \notin Called("mb_receivers")
  BY <1>1, <1>2
<1>4. CASE mb.entry < size /\ mb' = Put(mb, v) /\ Wake(t, "mb_receivers") /\ EmptyHands(t)
  <2>1. /\ Frame("mb_receivers", "mb_senders", CallPoint)'
        /\ Gains("mb_receivers", 1) /\ Gains("mb_senders", -1)
    BY <1>1, <1>2, <1>3, <1>4, MbWake
  <2>2. RingStep /\ mb'.entry = mb.entry + 1
    BY <1>1, <1>4 DEF RingStep, RingPut, Put, MbInv, RingOK
  <2>3. /\ 1 \in Int /\ -1 \in Int
        /\ mb'.entry <= mb.entry + 1 /\ size - mb'.entry <= size - mb.entry + (-1)
    BY <1>1, <2>2
  <2> QED
    BY <2>1, <2>2, <2>3, MbClaims DEF MbStep
<1>5. CASE mb.entry = size /\ d = "none" /\ GiveUp(t, "EOK") /\ UNCHANGED mb
  <2>1. /\ Frame("mb_receivers", "mb_senders", CallPoint)' /\ Gains("mb_receivers", 0)
    <3>1. "EOK" \in Error
      BY DEF Error
    <3> QED
      BY <1>1, <1>2, <1>3, <1>5, <3>1, FrameGiveUp DEF MbLists
  <2>2. RingStep /\ mb'.entry = size /\ mb'.entry <= mb.entry + 0 /\ 0 \in Int
    BY <1>1, <1>5 DEF RingStep, mailbox
  <2> QED
    BY <2>1, <2>2, MbClaims DEF MbStep
<1>6. CASE /\ mb.entry = size /\ d # "none" /\ UNCHANGED mb
           /\ WaitToSend(t, "mb_senders", flag, v, d)
  <2>1. /\ Frame("mb_receivers", "mb_senders", CallPoint)' /\ Gains("mb_receivers", 0)
    <3>1. /\ Block(t, Queue(t, "mb_senders", flag), "mb_senders", d) /\ Hold(t, v, d)
      BY <1>6 DEF WaitToSend
    <3> QED
      BY <1>1, <1>2, <1>3, <3>1, FrameWait DEF MbLists
  <2>2. RingStep /\ mb'.entry = size /\ mb'.entry <= mb.entry + 0 /\ 0 \in Int
    BY <1>1, <1>6 DEF RingStep, mailbox
  <2> QED
    BY <2>1, <2>2, MbClaims DEF MbStep
<1> QED
  BY <1>4, <1>5, <1>6 DEF SendMail

(* The loop of rt_mb_recv.                                                    *)
LEMMA MbReceives ==
    ASSUME MbInv, NEW t \in Thread, NEW d \in Time, RecvMail(t, d),
           Enters(t) \/ WokenToRetry(t, "mb_receivers")
    PROVE  MbStep
<1>1. /\ Frame("mb_receivers", "mb_senders", CallPoint) /\ MbLists
      /\ mb.entry \in 0 .. size /\ size \in Nat /\ UNCHANGED object
      /\ "mb_receivers" \in WaitList /\ "mb_senders" \in WaitList
  BY MbFacts, MailboxAssumption DEF MbInv, RecvMail
<1>2. /\ Caller(t, "mb_receivers")
      /\ \A y \in WaitList : t \in Called(y) => y = "mb_receivers"
  BY <1>1, CallerIs DEF MbLists
<1>3. t \notin Called("mb_senders")
  BY <1>1, <1>2
<1>4. CASE mb.entry > 0 /\ TakeMail(t)
  <2>1. Wake(t, "mb_senders") /\ EmptyHands(t) /\ RingTake
    BY <1>4 DEF TakeMail, RingTake
  <2>2. /\ Frame("mb_receivers", "mb_senders", CallPoint)'
        /\ Gains("mb_senders", 1) /\ Gains("mb_receivers", -1)
    BY <1>1, <1>2, <1>3, <2>1, MbWake
  <2>3. RingStep /\ mb'.entry = mb.entry - 1
    BY <2>1 DEF RingStep, RingTake, MbInv, RingOK
  <2>4. /\ 1 \in Int /\ -1 \in Int
        /\ mb'.entry <= mb.entry + (-1) /\ size - mb'.entry <= size - mb.entry + 1
    BY <1>1, <2>3
  <2> QED
    BY <2>2, <2>3, <2>4, MbClaims DEF MbStep
<1>5. CASE mb.entry = 0 /\ d = "none" /\ GiveUp(t, "ETIMEOUT") /\ UNCHANGED mailbox
  <2>1. /\ Frame("mb_receivers", "mb_senders", CallPoint)' /\ Gains("mb_senders", 0)
    <3>1. "ETIMEOUT" \in Error
      BY DEF Error
    <3> QED
      BY <1>1, <1>2, <1>3, <1>5, <3>1, FrameGiveUp DEF MbLists
  <2>2. /\ RingStep /\ mb'.entry = 0 /\ 0 \in Int
        /\ size - mb'.entry <= size - mb.entry + 0
    BY <1>1, <1>5 DEF RingStep, mailbox
  <2> QED
    BY <2>1, <2>2, MbClaims DEF MbStep
<1>6. CASE /\ mb.entry = 0 /\ d # "none" /\ UNCHANGED mailbox
           /\ WaitToRecv(t, "mb_receivers", flag, d)
  <2>1. /\ Frame("mb_receivers", "mb_senders", CallPoint)' /\ Gains("mb_senders", 0)
    <3>1. /\ Block(t, Queue(t, "mb_receivers", flag), "mb_receivers", d)
          /\ Hold(t, NoMail, d)
      BY <1>6 DEF WaitToRecv
    <3> QED
      BY <1>1, <1>2, <1>3, <3>1, FrameWait DEF MbLists
  <2>2. /\ RingStep /\ mb'.entry = 0 /\ 0 \in Int
        /\ size - mb'.entry <= size - mb.entry + 0
    BY <1>1, <1>6 DEF RingStep, mailbox
  <2> QED
    BY <2>1, <2>2, MbClaims DEF MbStep
<1> QED
  BY <1>4, <1>5, <1>6 DEF RecvMail

(* What a call does when it runs again after a wait.                           *)
LEMMA MbRetries ==
    ASSUME MbInv, NEW t \in Thread, MbSendRetry(t) \/ MbRecvRetry(t)
    PROVE  MbStep
<1>1. Frame("mb_receivers", "mb_senders", CallPoint) /\ MbLists
  BY MbFacts DEF MbInv
<1>2. ASSUME NEW x \in {"mb_receivers", "mb_senders"}, WokenInVain(t, x),
             UNCHANGED <<mailbox, object>>
      PROVE  MbStep
  <2>1. /\ Frame("mb_receivers", "mb_senders", CallPoint)'
        /\ Gains("mb_receivers", 0) /\ Gains("mb_senders", 0)
    BY <1>1, <1>2, FrameInVain DEF MbLists
  <2> QED
    BY <1>2, <2>1, MbQuiet
<1>3. ASSUME NEW d \in Left(timeout[t]) PROVE d \in Time
  BY <1>1 DEF Left, Time, Frame, HandsTypeOK
<1>4. ASSUME WokenToRetry(t, "mb_senders"), NEW d \in Left(timeout[t]),
             SendMail(t, value[t], d)
      PROVE  MbStep
  <2>1. value[t] \in Mail
    BY <1>1, <1>4 DEF Frame, WokenToRetry, At, InWait
  <2> QED
    BY <1>3, <1>4, <2>1, MbSends
<1>5. ASSUME WokenToRetry(t, "mb_receivers"), NEW d \in Left(timeout[t]), RecvMail(t, d)
      PROVE  MbStep
  BY <1>3, <1>5, MbReceives
<1> QED
  BY <1>2, <1>4, <1>5 DEF MbSendRetry, MbRecvRetry

(* rt_mb_send in an interrupt handler.                                         *)
LEMMA MbIsrSends ==
    ASSUME MbInv, NEW v \in Mail, IsrMbSend(v)
    PROVE  MbStep
<1>1. /\ Frame("mb_receivers", "mb_senders", CallPoint) /\ CallsInv
      /\ mb.entry \in 0 .. size /\ size \in Nat
      /\ "mb_receivers" \in WaitList /\ "mb_senders" \in WaitList
  BY MbFacts, MailboxAssumption DEF MbInv, Frame
<1>2. /\ life = "yes" /\ life' = "yes" /\ mb.entry < size /\ mb' = Put(mb, v)
      /\ IsrWake("mb_receivers") /\ UNCHANGED <<pc, list, object>> /\ UNCHANGED hands
      /\ UNCHANGED mb_last
  BY DEF IsrMbSend, object
<1>3. CallsInv' /\ Gains("mb_receivers", 1) /\ Gains("mb_senders", 0)
  BY <1>1, <1>2, IsrWakeGains
<1>4. Frame("mb_receivers", "mb_senders", CallPoint)'
  BY <1>1, <1>2, <1>3 DEF Frame, HandsTypeOK, hands, InWait
<1>5. RingStep /\ mb'.entry = mb.entry + 1
  BY <1>2 DEF RingStep, RingPut, Put, MbInv, RingOK
<1>6. /\ 1 \in Int /\ 0 \in Int
      /\ mb'.entry <= mb.entry + 1 /\ size - mb'.entry <= size - mb.entry + 0
  BY <1>1, <1>5
<1> QED
  BY <1>3, <1>4, <1>5, <1>6, MbClaims DEF MbStep

(* RT_IPC_CMD_RESET.                                                          *)
LEMMA MbResets ==
    ASSUME MbInv, NEW t \in Thread, rt_mb_control(t)
    PROVE  MbStep
<1>1. /\ Frame("mb_receivers", "mb_senders", CallPoint) /\ CallsInv
      /\ "mb_receivers" \in WaitList /\ "mb_senders" \in WaitList
  BY MailboxAssumption DEF MbInv, Frame
<1>2. /\ life = "yes" /\ life' = "yes" /\ At(t, "run") /\ Goto(t, "schedule")
      /\ k' = ResetWaiters("mb_receivers", "mb_senders") /\ UNCHANGED object
      /\ UNCHANGED hands /\ RingReset
  BY DEF rt_mb_control, Enters, object, RingReset
<1>3. Quiet /\ k'.wait["mb_receivers"] = <<>> /\ k'.wait["mb_senders"] = <<>>
  BY <1>1, <1>2, ResetKeeps
<1>4. /\ pc' \in [Thread -> CallPoint] /\ list' = list
      /\ \A x \in Thread : InWait(x)' => InWait(x)
  BY <1>1, <1>2 DEF Goto, Frame, CallPoint, InWait
<1>5. Frame("mb_receivers", "mb_senders", CallPoint)'
  BY <1>1, <1>2, <1>3, <1>4 DEF Frame, HandsTypeOK, hands, Quiet
<1>6. RingStep /\ 0 \in Int
  BY <1>2 DEF RingStep
<1> QED
  BY <1>3, <1>5, <1>6, MbClaims DEF MbStep

(* Every step of the mailbox keeps its invariant and is a step of the channel,  *)
(* or leaves the channel alone.                                              *)
LEMMA MbSteps ==
    ASSUME MbInv, [MbNext]_<<calls, hands, mailbox>> PROVE MbStep
<1>1. Frame("mb_receivers", "mb_senders", CallPoint) /\ MbLists
  BY MbFacts DEF MbInv
<1>2. ASSUME UNCHANGED <<hands, mailbox>>,
             \/ \E t \in Thread : CallSteps(t) \/ DetachChannel(t, "mb_receivers", "mb_senders")
             \/ Background \/ UNCHANGED calls
      PROVE  MbStep
  <2>1. /\ Frame("mb_receivers", "mb_senders", CallPoint)'
        /\ Gains("mb_receivers", 0) /\ Gains("mb_senders", 0)
    BY <1>1, <1>2, FrameCommon DEF MbLists
  <2> QED
    BY <1>2, <2>1, MbQuiet
<1>3. ASSUME NEW t \in Thread, NEW d \in Time, NEW v \in Mail, rt_mb_send_wait(t, v, d)
      PROVE  MbStep
  BY <1>3, MbSends DEF rt_mb_send_wait
<1>4. ASSUME NEW t \in Thread, NEW d \in Time, rt_mb_recv(t, d) PROVE MbStep
  BY <1>4, MbReceives DEF rt_mb_recv
<1> QED
  BY <1>2, <1>3, <1>4, MbRetries, MbIsrSends, MbResets DEF MbNext, rt_mb_detach

(* The start of the mailbox.                                                  *)
LEMMA MbStarts ==
    ASSUME CallsInit, HandsInit, MbInit PROVE MbInv /\ MbChannel!Init
<1>1. /\ CallsInv /\ \A l \in WaitList : Called(l) = {} /\ k.wait[l] = <<>>
      /\ \A t \in Thread : pc[t] = "run" /\ list[t] = "none"
  BY CallsStart
<1>2. HandsTypeOK /\ pc \in [Thread -> CallPoint]
  BY DEF HandsInit, HandsTypeOK, Time, CallsInit, CallPoint
<1>3. life = "yes" /\ \A t \in Thread : ~InWait(t)
  BY <1>1 DEF CallsInit, InWait
<1>4. Frame("mb_receivers", "mb_senders", CallPoint)
  BY <1>1, <1>2, <1>3 DEF Frame
<1>5. RingOK
  <2>1. size \in Nat /\ size >= 1 /\ 0 \in Index /\ 0 \in 0 .. size
    BY ChannelAssumption DEF Index
  <2> QED
    BY <2>1 DEF RingOK, MbInit, Place
<1>6. MailIsClaimed
  BY <1>1, MailboxAssumption DEF MailIsClaimed
<1>7. Ring = <<>>
  BY DEF Ring, MbInit
<1> QED
  BY <1>4, <1>5, <1>6, <1>7 DEF MbInv, MbChannel!Init, MbInit

(* The inductive invariant of the mailbox.                                     *)
THEOREM MailboxInvariance == MbSpec => []MbInv
<1>1. MbInv /\ [MbNext]_<<calls, hands, mailbox>> => MbInv'
  BY MbSteps DEF MbStep
<1> QED
  BY <1>1, MbStarts, PTL DEF MbSpec

(* The mailbox implements the bounded channel, for any number of senders and   *)
(* receivers and any capacity: rt_mb_recv hands out each mail that             *)
(* rt_mb_send_wait or an interrupt handler has sent once, in the order sent,   *)
(* and never more than size mails are on their way.                          *)
THEOREM MailboxImplementsChannel == MbSpec => MailboxIsChannel
<1>1. MbInv /\ [MbNext]_<<calls, hands, mailbox>> => [MbChannel!Next]_<<Ring, mb_last>>
  BY MbSteps DEF MbStep
<1>2. CallsInit /\ HandsInit /\ MbInit => MbChannel!Init
  BY MbStarts
<1> QED
  BY <1>1, <1>2, MailboxInvariance, PTL DEF MbSpec, MailboxIsChannel, MbChannel!Spec

(* No wake-up of a mailbox is lost: while receivers are left on its list every  *)
(* mail has a woken receiver on its way, and every free slot a woken sender     *)
(* while senders are left.                                                    *)
THEOREM MailAlwaysClaimed == MbSpec => []MailIsClaimed
<1>1. MbInv => MailIsClaimed
  BY DEF MbInv
<1> QED
  BY <1>1, MailboxInvariance, PTL

(* The types of the mailbox: the offsets stay within the pool.                  *)
THEOREM MailboxTypes == MbSpec => []MbTypeOK
<1>1. MbInv => MbTypeOK
  BY DEF MbInv, Frame, CallsInv, RingOK, MbTypeOK
<1> QED
  BY <1>1, MailboxInvariance, PTL

(* A mailbox whose waiters are untimed when it is detached forgets nobody.      *)
THEOREM MailboxForgetsNobody ==
    ASSUME ~DetachTimed PROVE MbSpec => []NobodyForgotten
<1>1. MbInv => NobodyForgotten
  BY NothingForgotten DEF MbInv, Frame, NobodyForgotten
<1> QED
  BY <1>1, MailboxInvariance, PTL
-----------------------------------------------------------------------------
(* The data queue *)

\* The two flags tell a full ring from an empty one, and every other ring from
\* both.
FlagsOK ==
    /\ dq \in [ queue : [Item -> Mail \union {NoMail}],
                get_index : Item, put_index : Item,
                is_empty : BOOLEAN, is_full : BOOLEAN ]
    /\ dq.put_index = dq.get_index <=> dq.is_empty \/ dq.is_full
    /\ ~(dq.is_empty /\ dq.is_full)
    /\ dq_last \in Mail \union {NoMail}

\* A pusher that waits has an item in its hands.
DqHands ==
    /\ HandsTypeOK /\ pc \in [Thread -> DqPoint]
    /\ list \in [Thread -> WaitList \union {"none"}]
    /\ \A t \in Thread : InWait(t) /\ list[t] = "dq_senders" => value[t] \in Mail

DqPut(v) == ~dq.is_full /\ dq' = PutItem(dq, v) /\ UNCHANGED dq_last

DqTake ==
    /\ ~dq.is_empty /\ dq' = GetItem(dq)
    /\ dq_last' = dq.queue[dq.get_index]

DqReset ==
    /\ dq' = [dq EXCEPT !.get_index = 0, !.put_index = 0,
                        !.is_empty = TRUE, !.is_full = FALSE]
    /\ UNCHANGED dq_last

DqStep == (\E v \in Mail : DqPut(v)) \/ DqTake \/ DqReset \/ UNCHANGED dataqueue

(* The fields of the data queue, and the ring they describe.                   *)
LEMMA DqFields ==
    ASSUME FlagsOK
    PROVE  /\ IsPool(dq.queue, Mail \union {NoMail})
           /\ dq.get_index \in 0 .. size - 1 /\ dq.put_index \in 0 .. size - 1
           /\ dq.is_empty \in BOOLEAN /\ dq.is_full \in BOOLEAN
           /\ size \in Nat /\ size >= 1
           /\ rt_data_queue_len(dq) \in 0 .. size
           /\ dq.put_index = Place(dq.get_index, rt_data_queue_len(dq))
           /\ dq.is_empty <=> rt_data_queue_len(dq) = 0
           /\ dq.is_full <=> rt_data_queue_len(dq) = size
           /\ DqRing = Stored(dq.queue, dq.get_index, rt_data_queue_len(dq))
           /\ Len(DqRing) = rt_data_queue_len(dq)
<1>1. /\ IsPool(dq.queue, Mail \union {NoMail})
      /\ dq.get_index \in 0 .. size - 1 /\ dq.put_index \in 0 .. size - 1
      /\ dq.is_empty \in BOOLEAN /\ dq.is_full \in BOOLEAN
  BY DEF FlagsOK, Item, IsPool
<1>2. size \in Nat /\ size >= 1
  BY ChannelAssumption
<1>3. PICK n : n = rt_data_queue_len(dq)
  OBVIOUS
<1>4. /\ n \in 0 .. size /\ dq.put_index = Place(dq.get_index, n)
      /\ dq.is_empty <=> n = 0
      /\ dq.is_full <=> n = size
  <2>1. /\ dq.put_index = dq.get_index <=> dq.is_empty \/ dq.is_full
        /\ ~(dq.is_empty /\ dq.is_full)
    BY DEF FlagsOK
  <2>2. CASE dq.is_empty
    <3>1. n = 0 /\ ~dq.is_full /\ dq.put_index = dq.get_index
      BY <1>3, <2>1, <2>2 DEF rt_data_queue_len
    <3> QED
      BY <1>1, <1>2, <2>2, <3>1 DEF Place
  <2>3. CASE ~dq.is_empty /\ dq.put_index > dq.get_index
    <3>1. n = dq.put_index - dq.get_index
      BY <1>3, <2>3 DEF rt_data_queue_len
    <3>2. ~dq.is_full
      BY <1>1, <2>1, <2>3
    <3> QED
      BY <1>1, <1>2, <2>3, <3>1, <3>2 DEF Place
  <2>4. CASE ~dq.is_empty /\ ~(dq.put_index > dq.get_index)
    <3>1. n = size + dq.put_index - dq.get_index
      BY <1>3, <2>4 DEF rt_data_queue_len
    <3>2. dq.is_full <=> dq.put_index = dq.get_index
      BY <2>1, <2>4
    <3> QED
      BY <1>1, <1>2, <2>4, <3>1, <3>2 DEF Place
  <2> QED
    BY <2>2, <2>3, <2>4
<1>5. DqRing = Stored(dq.queue, dq.get_index, n)
  BY <1>3 DEF DqRing, Stored
<1>6. Len(DqRing) = n
  <2>1. PICK M : M = Mail \union {NoMail}
    OBVIOUS
  <2>2. IsPool(dq.queue, M)
    BY <1>1, <2>1
  <2>3. Len(Stored(dq.queue, dq.get_index, n)) = n
    BY ONLY <1>1, <1>4, <2>2, StoredIs
  <2> QED
    BY <1>5, <2>3
<1> QED
  BY <1>1, <1>2, <1>3, <1>4, <1>5, <1>6

(* Advance is the next place.                                                 *)
LEMMA AdvanceIs ==
    ASSUME NEW i \in 0 .. size - 1
    PROVE  Advance(i) = Place(i, 1) /\ Advance(i) \in 0 .. size - 1
<1>1. size \in Nat /\ size >= 1
  BY ChannelAssumption
<1> QED
  BY ONLY <1>1, i \in 0 .. size - 1 DEF Advance, Place

(* An item is pushed.                                                         *)
LEMMA DqPuts ==
    ASSUME FlagsOK, NEW v \in Mail, DqPut(v)
    PROVE  /\ FlagsOK' /\ DqChannel!Send
           /\ rt_data_queue_len(dq)' = rt_data_queue_len(dq) + 1
<1>1. PICK n, g, p : n = rt_data_queue_len(dq) /\ g = dq.get_index /\ p = dq.put_index
  OBVIOUS
<1>2. /\ IsPool(dq.queue, Mail \union {NoMail}) /\ g \in 0 .. size - 1 /\ p \in 0 .. size - 1
      /\ size \in Nat /\ size >= 1 /\ n \in 0 .. size - 1 /\ n \in 0 .. size
      /\ p = Place(g, n) /\ dq.is_full = FALSE
      /\ DqRing = Stored(dq.queue, g, n) /\ Len(DqRing) = n
  BY <1>1, DqFields DEF DqPut
<1>3. PICK i : i = Advance(p)
  OBVIOUS
<1>4. /\ dq'.queue = [dq.queue EXCEPT ![p] = v] /\ dq'.put_index = i
      /\ dq'.get_index = g /\ dq'.is_empty = FALSE /\ dq'.is_full = (i = g)
      /\ dq' = [dq EXCEPT !.queue = dq'.queue, !.put_index = dq'.put_index,
                          !.is_empty = dq'.is_empty, !.is_full = dq'.is_full]
  BY <1>1, <1>2, <1>3 DEF DqPut, PutItem, FlagsOK
<1>5. i \in 0 .. size - 1 /\ i = Place(g, n + 1)
  BY <1>2, <1>3, AdvanceIs, NextPlace
<1>6. FlagsOK'
  <2>1. dq'.queue \in [Item -> Mail \union {NoMail}]
    BY <1>2, <1>4 DEF IsPool, Item
  <2>2. dq' \in [ queue : [Item -> Mail \union {NoMail}],
                  get_index : Item, put_index : Item,
                  is_empty : BOOLEAN, is_full : BOOLEAN ]
    BY <1>2, <1>4, <1>5, <2>1 DEF FlagsOK, Item
  <2>3. /\ dq'.put_index = dq'.get_index <=> dq'.is_empty \/ dq'.is_full
        /\ ~(dq'.is_empty /\ dq'.is_full)
    BY <1>4
  <2> QED
    BY <2>2, <2>3 DEF FlagsOK, DqPut
<1>7. rt_data_queue_len(dq)' = n + 1
  <2>1. rt_data_queue_len(dq)' = IF i > g THEN i - g ELSE size + i - g
    BY <1>4 DEF rt_data_queue_len
  <2> QED
    BY ONLY <1>2, <1>5, <2>1 DEF Place
<1>8. DqRing' = Append(DqRing, v)
  <2>1. DqRing' = Stored(dq'.queue, g, n + 1)
    BY <1>4, <1>7 DEF DqRing, Stored
  <2>2. PICK M : M = Mail \union {NoMail}
    OBVIOUS
  <2>3. IsPool(dq.queue, M) /\ v \in M
    BY <1>2, <2>2
  <2>4. Stored([dq.queue EXCEPT ![p] = v], g, n + 1) = Append(Stored(dq.queue, g, n), v)
    BY ONLY <1>2, <2>3, StoredAppend
  <2> QED
    BY <1>2, <1>4, <2>1, <2>4
<1> QED
  BY <1>1, <1>2, <1>6, <1>7, <1>8 DEF DqChannel!Send, DqPut

(* The oldest item is popped.                                                 *)
LEMMA DqTakes ==
    ASSUME FlagsOK, DqTake
    PROVE  /\ FlagsOK' /\ DqChannel!Receive
           /\ rt_data_queue_len(dq)' = rt_data_queue_len(dq) - 1
<1>1. PICK n, g, p : n = rt_data_queue_len(dq) /\ g = dq.get_index /\ p = dq.put_index
  OBVIOUS
<1>2. /\ IsPool(dq.queue, Mail \union {NoMail}) /\ g \in 0 .. size - 1 /\ p \in 0 .. size - 1
      /\ size \in Nat /\ size >= 1 /\ n \in 1 .. size /\ n \in 0 .. size
      /\ p = Place(g, n) /\ dq.is_empty = FALSE
      /\ DqRing = Stored(dq.queue, g, n) /\ Len(DqRing) = n
  BY <1>1, DqFields DEF DqTake
<1>3. PICK i : i = Advance(g)
  OBVIOUS
<1>4. /\ dq'.queue = dq.queue /\ dq'.put_index = p
      /\ dq'.get_index = i /\ dq'.is_full = FALSE /\ dq'.is_empty = (i = p)
      /\ dq' = [dq EXCEPT !.get_index = dq'.get_index,
                          !.is_empty = dq'.is_empty, !.is_full = dq'.is_full]
      /\ dq_last' = dq.queue[g]
  BY <1>1, <1>2, <1>3 DEF DqTake, GetItem, FlagsOK
<1>5. i \in 0 .. size - 1 /\ i = Place(g, 1)
  BY <1>2, <1>3, AdvanceIs
<1>6. FlagsOK'
  <2>1. dq' \in [ queue : [Item -> Mail \union {NoMail}],
                  get_index : Item, put_index : Item,
                  is_empty : BOOLEAN, is_full : BOOLEAN ]
    BY <1>2, <1>4, <1>5 DEF FlagsOK, Item
  <2>2. /\ dq'.put_index = dq'.get_index <=> dq'.is_empty \/ dq'.is_full
        /\ ~(dq'.is_empty /\ dq'.is_full)
    BY <1>4
  <2>3. dq_last' \in Mail \union {NoMail}
    BY <1>2, <1>4 DEF IsPool
  <2> QED
    BY <2>1, <2>2, <2>3 DEF FlagsOK
<1>7. rt_data_queue_len(dq)' = n - 1
  <2>1. rt_data_queue_len(dq)' = IF i = p THEN 0 ELSE IF p > i THEN p - i ELSE size + p - i
    BY <1>4 DEF rt_data_queue_len
  <2> QED
    BY ONLY <1>2, <1>5, <2>1 DEF Place
<1>8. DqRing # <<>> /\ Head(DqRing) = dq.queue[g] /\ DqRing' = Tail(DqRing)
  <2>1. DqRing' = Stored(dq.queue, i, n - 1)
    BY <1>4, <1>7 DEF DqRing, Stored
  <2>2. PICK M : M = Mail \union {NoMail}
    OBVIOUS
  <2>3. PICK pool : pool = dq.queue
    OBVIOUS
  <2>4. IsPool(pool, M)
    BY <1>2, <2>2, <2>3
  <2>5. /\ Stored(pool, g, n) # <<>> /\ Head(Stored(pool, g, n)) = pool[g]
        /\ Tail(Stored(pool, g, n)) = Stored(pool, Place(g, 1), n - 1)
    BY ONLY <1>2, <2>4, StoredTail
  <2> QED
    BY <1>2, <1>5, <2>1, <2>3, <2>5
<1> QED
  BY <1>1, <1>4, <1>6, <1>7, <1>8 DEF DqChannel!Receive

(* Every step of the ring is a step of the channel, or leaves it alone.         *)
LEMMA DqRefines ==
    ASSUME FlagsOK, DqStep
    PROVE  FlagsOK' /\ [DqChannel!Next]_<<DqRing, dq_last>>
<1>1. ASSUME NEW v \in Mail, DqPut(v) PROVE FlagsOK' /\ DqChannel!Next
  BY <1>1, DqPuts DEF DqChannel!Next
<1>2. ASSUME DqTake PROVE FlagsOK' /\ DqChannel!Next
  BY <1>2, DqTakes DEF DqChannel!Next
<1>3. ASSUME DqReset PROVE FlagsOK' /\ DqChannel!Next
  <2>1. 0 \in Item
    BY ChannelAssumption DEF Item
  <2>2. /\ dq'.get_index = 0 /\ dq'.put_index = 0 /\ dq'.is_empty = TRUE /\ dq'.is_full = FALSE
        /\ dq' \in [ queue : [Item -> Mail \union {NoMail}],
                     get_index : Item, put_index : Item,
                     is_empty : BOOLEAN, is_full : BOOLEAN ]
    BY <1>3, <2>1 DEF FlagsOK, DqReset
  <2>3. FlagsOK'
    BY <1>3, <2>2 DEF FlagsOK, DqReset
  <2>4. DqRing' = <<>>
    BY <2>2 DEF DqRing, rt_data_queue_len
  <2> QED
    BY <1>3, <2>3, <2>4 DEF DqChannel!Next, DqChannel!Reset, DqReset
<1>4. ASSUME UNCHANGED dataqueue PROVE FlagsOK' /\ UNCHANGED <<DqRing, dq_last>>
  BY <1>4 DEF FlagsOK, dataqueue, DqRing
<1> QED
  BY <1>1, <1>2, <1>3, <1>4 DEF DqStep

(* A thread goes to a point of its call and holds something.                    *)
LEMMA DqHolds ==
    ASSUME DqHands, NEW t \in Thread, NEW c \in DqPoint, pc' = [pc EXCEPT ![t] = c],
           NEW x \in WaitList \union {"none"}, list' = [list EXCEPT ![t] = x],
           NEW v \in Mail \union {NoMail}, NEW d \in Time, Hold(t, v, d),
           c \in {"wait", "woken"} /\ x = "dq_senders" => v \in Mail
    PROVE  DqHands'
<1>1. /\ value \in [Thread -> Mail \union {NoMail}] /\ timeout \in [Thread -> Time]
      /\ pc \in [Thread -> DqPoint] /\ list \in [Thread -> WaitList \union {"none"}]
  BY DEF DqHands, HandsTypeOK
<1>2. value' = [value EXCEPT ![t] = v] /\ timeout' = [timeout EXCEPT ![t] = d]
  BY DEF Hold
<1>3. /\ HandsTypeOK' /\ pc' \in [Thread -> DqPoint]
      /\ list' \in [Thread -> WaitList \union {"none"}]
  BY <1>1, <1>2 DEF HandsTypeOK
<1>4. ASSUME NEW u \in Thread, InWait(u)', list'[u] = "dq_senders" PROVE value'[u] \in Mail
  <2>1. CASE u = t
    BY <1>1, <1>2, <1>4, <2>1 DEF InWait
  <2>2. CASE u # t
    BY <1>1, <1>2, <1>4, <2>2 DEF InWait, DqHands
  <2> QED
    BY <2>1, <2>2
<1> QED
  BY <1>3, <1>4 DEF DqHands

(* A thread goes to a point of its call and no hands move.                      *)
LEMMA DqGoes ==
    ASSUME DqHands, NEW t \in Thread, NEW c \in DqPoint, pc' = [pc EXCEPT ![t] = c],
           list' = list, UNCHANGED hands, c \in {"wait", "woken"} => InWait(t)
    PROVE  DqHands'
<1>1. HandsTypeOK' /\ pc' \in [Thread -> DqPoint]
  BY DEF DqHands, HandsTypeOK, hands
<1>2. \A u \in Thread : InWait(u)' => InWait(u)
  BY DEF InWait, DqHands
<1> QED
  BY <1>1, <1>2 DEF DqHands, hands

(* The wake-up at the end of a push or pop, or none.                           *)
LEMMA DqEnds ==
    ASSUME DqHands, NEW t \in Thread, NEW x, Wake(t, x) \/ Leave(t, "run"), EmptyHands(t)
    PROVE  DqHands'
<1>1. PICK c \in {"run", "schedule"} : Leave(t, c)
  BY DEF Wake
<1>2. /\ pc' = [pc EXCEPT ![t] = c] /\ list' = [list EXCEPT ![t] = "none"]
      /\ Hold(t, NoMail, "none") /\ c \in DqPoint /\ "none" \in Time
      /\ c \notin {"wait", "woken"}
  BY <1>1 DEF Leave, EmptyHands, DqPoint, CallPoint, Time
<1> QED
  BY <1>2, DqHolds

(* The wait of a push or pop.                                                  *)
LEMMA DqWaits ==
    ASSUME DqHands, NEW t \in Thread, NEW x \in WaitList, NEW s, NEW d \in Time,
           Block(t, s, x, d), NEW v \in Mail \union {NoMail}, Hold(t, v, d),
           x = "dq_senders" => v \in Mail
    PROVE  DqHands'
<1>1. /\ pc' = [pc EXCEPT ![t] = "wait"] /\ list' = [list EXCEPT ![t] = x]
  BY DEF Block
<1>2. /\ "wait" \in DqPoint /\ x \in WaitList \union {"none"}
      /\ ("wait" \in {"wait", "woken"} /\ x = "dq_senders" => v \in Mail)
  BY DEF DqPoint, CallPoint
<1> QED
  BY ONLY DqHands, t \in Thread, <1>1, <1>2, v \in Mail \union {NoMail}, d \in Time,
     Hold(t, v, d), DqHolds

DqStays == DqHands' /\ DqStep

(* rt_data_queue_push, and the same once the caller runs again.                 *)
LEMMA DqPushes ==
    ASSUME DqHands, NEW t \in Thread, NEW v \in Mail, NEW d \in Time, PushTry(t, v, d)
    PROVE  DqStays
<1>1. CASE ~dq.is_full /\ dq' = PutItem(dq, v) /\ Wake(t, "dq_receivers") /\ EmptyHands(t)
  <2>1. DqHands'
    BY <1>1, DqEnds
  <2> QED
    BY <1>1, <2>1 DEF DqStays, DqStep, DqPut, PushTry
<1>2. CASE WaitToSend(t, "dq_senders", "FIFO", v, d) /\ UNCHANGED dq
  <2>1. DqHands'
    BY <1>2, DqWaits, DataQueueAssumption DEF WaitToSend
  <2> QED
    BY <1>2, <2>1 DEF DqStays, DqStep, dataqueue, PushTry
<1> QED
  BY <1>1, <1>2 DEF PushTry

(* rt_data_queue_pop, and the same once the caller runs again.                  *)
LEMMA DqPops ==
    ASSUME DqHands, NEW t \in Thread, NEW d \in Time, PopTry(t, d)
    PROVE  DqStays
<1>1. CASE /\ ~dq.is_empty /\ dq' = GetItem(dq) /\ dq_last' = dq.queue[dq.get_index]
           /\ IF Drained(GetItem(dq)) THEN Wake(t, "dq_senders")
              ELSE UNCHANGED k /\ Leave(t, "run")
           /\ EmptyHands(t)
  <2>1. DqHands'
    BY <1>1, DqEnds
  <2> QED
    BY <1>1, <2>1 DEF DqStays, DqStep, DqTake
<1>2. CASE WaitToRecv(t, "dq_receivers", "FIFO", d) /\ UNCHANGED dataqueue
  <2>1. DqHands'
    BY <1>2, DqWaits, DataQueueAssumption DEF WaitToRecv
  <2> QED
    BY <1>2, <2>1 DEF DqStays, DqStep
<1> QED
  BY <1>1, <1>2 DEF PopTry

(* What a call does when it runs again after a wait.                           *)
LEMMA DqRetries ==
    ASSUME DqHands, NEW t \in Thread, PushRetry(t) \/ PopRetry(t)
    PROVE  DqStays
<1>1. timeout[t] \in Time
  BY DEF DqHands, HandsTypeOK
<1>2. ASSUME NEW x, WokenInVain(t, x), UNCHANGED <<dataqueue, object>> PROVE DqStays
  <2>1. DqHands'
    BY <1>2, DqEnds DEF WokenInVain
  <2> QED
    BY <1>2, <2>1 DEF DqStays, DqStep
<1>3. ASSUME WokenToRetry(t, "dq_senders"), PushTry(t, value[t], timeout[t]) PROVE DqStays
  <2>1. value[t] \in Mail
    BY <1>3 DEF WokenToRetry, At, DqHands, InWait
  <2> QED
    BY <1>1, <1>3, <2>1, DqPushes
<1> QED
  BY <1>1, <1>2, <1>3, DqPops DEF PushRetry, PopRetry

(* rt_data_queue_reset and _deinit.                                            *)
LEMMA DqResets ==
    ASSUME DqHands, NEW t \in Thread,
           \/ \E deinit \in BOOLEAN : rt_data_queue_reset(t, deinit)
           \/ ResetLock(t) \/ ResetUnlock(t)
    PROVE  DqStays
<1>1. PICK c \in {"critical", "test", "schedule"} : Goto(t, c) /\ UNCHANGED hands
  BY DEF rt_data_queue_reset, ResetLock, ResetUnlock
<1>2. /\ pc' = [pc EXCEPT ![t] = c] /\ list' = list /\ c \in DqPoint
      /\ c \notin {"wait", "woken"}
  BY <1>1 DEF Goto, DqPoint, CallPoint
<1>3. DqHands'
  BY <1>1, <1>2, DqGoes
<1>4. DqStep
  BY DEF rt_data_queue_reset, ResetLock, ResetUnlock, DqStep, DqReset
<1> QED
  BY <1>3, <1>4 DEF DqStays

(* The steps every object has.                                                *)
LEMMA DqCommon ==
    ASSUME DqHands, UNCHANGED <<hands, dataqueue>>,
           \/ \E t \in Thread : CallSteps(t)
           \/ Background \/ UNCHANGED calls
    PROVE  DqStays
<1>1. DqStep
  BY DEF DqStep
<1>2. CASE UNCHANGED <<pc, list>>
  BY <1>1, <1>2 DEF DqStays, DqHands, HandsTypeOK, hands, InWait
<1>3. ASSUME NEW t \in Thread, CallSteps(t) PROVE DqStays
  <2>1. ASSUME NEW c \in DqPoint, Goto(t, c), c \in {"wait", "woken"} => InWait(t)
        PROVE  DqStays
    BY <1>1, <2>1, DqGoes DEF Goto, DqStays
  <2>2. {"woken", "run", "exit", "resume", "test"} \subseteq DqPoint
    BY DEF DqPoint, CallPoint
  <2>3. WaitSchedule(t) => InWait(t) /\ Goto(t, "woken")
    BY DEF WaitSchedule, At, InWait
  <2>4. LastSchedule(t) => Goto(t, "run")
    BY DEF LastSchedule
  <2>5. SweepResume(t) => Goto(t, "test")
    BY DEF SweepResume
  <2>6. SweepTest(t) => Goto(t, "resume") \/ Goto(t, "run") \/ Goto(t, "exit")
                        \/ UNCHANGED <<pc, list>>
    BY DEF SweepTest, SweepEnd
  <2> QED
    BY <1>2, <1>3, <2>1, <2>2, <2>3, <2>4, <2>5, <2>6 DEF CallSteps
<1>4. Background \/ UNCHANGED calls => UNCHANGED <<pc, list>>
  BY DEF Background, calls
<1> QED
  BY <1>2, <1>3, <1>4

(* Every step keeps the hands and is a step of the ring.                        *)
LEMMA DqSteps ==
    ASSUME DqHands, [DqNext]_<<calls, hands, dataqueue>> PROVE DqStays
<1>1. ASSUME NEW v \in Mail, IsrPush(v) PROVE DqStays
  BY <1>1 DEF IsrPush, DqStays, DqStep, DqPut, DqHands, HandsTypeOK, hands, InWait
<1>2. ASSUME IsrPop PROVE DqStays
  BY <1>2 DEF IsrPop, DqStays, DqStep, DqTake, DqHands, HandsTypeOK, hands, InWait
<1>3. ASSUME NEW t \in Thread, NEW v \in Mail, NEW d \in Time, rt_data_queue_push(t, v, d)
      PROVE  DqStays
  BY <1>3, DqPushes DEF rt_data_queue_push
<1>4. ASSUME NEW t \in Thread, NEW d \in Time, rt_data_queue_pop(t, d) PROVE DqStays
  BY <1>4, DqPops DEF rt_data_queue_pop
<1>5. ASSUME UNCHANGED <<calls, hands, dataqueue>> PROVE DqStays
  BY <1>5, DqCommon
<1> QED
  BY <1>1, <1>2, <1>3, <1>4, <1>5, DqRetries, DqResets, DqCommon DEF DqNext

(* The flags and indices of a data queue always describe a ring.                *)
THEOREM DataQueueInvariance == DqSpec => [](FlagsOK /\ DqHands)
<1>1. CallsInit /\ HandsInit /\ DqInit => FlagsOK /\ DqHands
  <2> SUFFICES ASSUME CallsInit, HandsInit, DqInit PROVE FlagsOK /\ DqHands
    OBVIOUS
  <2>1. 0 \in Item
    BY ChannelAssumption DEF Item
  <2>2. FlagsOK
    BY <2>1 DEF FlagsOK, DqInit
  <2>3. /\ pc = [t \in Thread |-> "run"] /\ list = [t \in Thread |-> "none"]
        /\ "run" \in DqPoint
    BY DEF CallsInit, DqPoint, CallPoint
  <2>4. HandsTypeOK
    BY DEF HandsInit, HandsTypeOK, Time
  <2> QED
    BY <2>2, <2>3, <2>4 DEF DqHands, InWait
<1>2. FlagsOK /\ DqHands /\ [DqNext]_<<calls, hands, dataqueue>> => (FlagsOK /\ DqHands)'
  BY DqSteps, DqRefines DEF DqStays
<1> QED
  BY <1>1, <1>2, PTL DEF DqSpec

(* The data queue implements the bounded channel, for any capacity, any low-    *)
(* water mark and any number of threads: rt_data_queue_pop hands out each item  *)
(* once and in order, and the two flags never take a full ring for an empty     *)
(* one, also when rt_data_queue_reset empties it meanwhile.                    *)
THEOREM DataQueueImplementsChannel == DqSpec => DataQueueIsChannel
<1>1. FlagsOK /\ DqHands /\ [DqNext]_<<calls, hands, dataqueue>>
          => [DqChannel!Next]_<<DqRing, dq_last>>
  BY DqSteps, DqRefines DEF DqStays
<1>2. DqInit => DqChannel!Init
  BY DEF DqInit, DqChannel!Init, DqRing, rt_data_queue_len
<1> QED
  BY <1>1, <1>2, DataQueueInvariance, PTL DEF DqSpec, DataQueueIsChannel, DqChannel!Spec
-----------------------------------------------------------------------------
(* The message queue: linked slots *)

\* The i-th slot of the path p, or the end of it.
Node(p, i) == IF i \in 1 .. Len(p) THEN p[i] ELSE Null

\* p lists the slots in the order of their links h, from s on.
IsPath(h, s, p) ==
    /\ p \in Seq(Slot)
    /\ s = Node(p, 1)
    /\ \A i \in 1 .. Len(p) : h[p[i]] = Node(p, i + 1)
    /\ \A i, j \in 1 .. Len(p) : p[i] = p[j] => i = j

IsNext(h) == h \in [Slot -> Slot \union {Null}]

\* The links g are h with that of slot s leading to x.
Relinks(g, h, s, x) == g = [h EXCEPT ![s] = x]

(* Two finite sets that share nothing.                                         *)
LEMMA DisjointUnion ==
    ASSUME NEW S, NEW T, IsFiniteSet(S), IsFiniteSet(T), S \intersect T = {}
    PROVE  /\ IsFiniteSet(S \union T)
           /\ Cardinality(S \union T) = Cardinality(S) + Cardinality(T)
<1>1. /\ IsFiniteSet(S \union T)
      /\ Cardinality(S \union T)
             = Cardinality(S) + Cardinality(T) - Cardinality(S \intersect T)
  BY FS_Union
<1>2. Cardinality(S \intersect T) = 0
  BY FS_EmptySet
<1>3. Cardinality(S) \in Nat /\ Cardinality(T) \in Nat
  BY FS_CardinalityType
<1> QED
  BY ONLY <1>1, <1>2, <1>3

(* The slots are finitely many, and no slot is Null.                           *)
LEMMA SlotFacts ==
    /\ Null \notin Slot /\ size \in Nat /\ size >= 1
    /\ IsFiniteSet(Slot) /\ Cardinality(Slot) = size
<1>1. size \in Nat /\ size >= 1 /\ 1 \in Int /\ size \in Int
  BY ChannelAssumption
<1>2. IsFiniteSet(1 .. size) /\ Cardinality(1 .. size) = IF 1 > size THEN 0 ELSE size - 1 + 1
  BY ONLY <1>1, FS_Interval
<1> QED
  BY <1>1, <1>2, MsgQueueAssumption DEF Slot

(* The slots of a path.                                                       *)
LEMMA OnThePath ==
    ASSUME NEW p \in Seq(Slot)
    PROVE  /\ ToSet(p) = {p[i] : i \in 1 .. Len(p)} /\ ToSet(p) \subseteq Slot
           /\ Len(p) \in Nat /\ (p = <<>> <=> Len(p) = 0)
           /\ \A i \in 1 .. Len(p) : p[i] \in Slot /\ p[i] \in ToSet(p)
           /\ \A b \in ToSet(p) : \E i \in 1 .. Len(p) : p[i] = b
           /\ DOMAIN p = 1 .. Len(p)
<1>1. DOMAIN p = 1 .. Len(p) /\ Len(p) \in Nat /\ \A i \in 1 .. Len(p) : p[i] \in Slot
  OBVIOUS
<1>2. p = <<>> <=> Len(p) = 0
  OBVIOUS
<1>3. ToSet(p) = {p[i] : i \in 1 .. Len(p)}
  BY <1>1 DEF ToSet
<1> QED
  BY <1>1, <1>2, <1>3

(* A path is as long as its slots are many.                                    *)
LEMMA PathLength ==
    ASSUME NEW h, NEW s, NEW p, IsPath(h, s, p)
    PROVE  /\ IsFiniteSet(ToSet(p)) /\ Cardinality(ToSet(p)) = Len(p)
           /\ Len(p) \in 0 .. size /\ p \in Seq(Slot)
<1>1. /\ p \in Seq(Slot) /\ Len(p) \in Nat
      /\ ToSet(p) = {p[i] : i \in 1 .. Len(p)} /\ ToSet(p) \subseteq Slot
      /\ \A i, j \in 1 .. Len(p) : p[i] = p[j] => i = j
  BY OnThePath DEF IsPath
<1>2. IsFiniteSet(1 .. Len(p)) /\ Cardinality(1 .. Len(p)) = Len(p)
  <2>1. 1 \in Int /\ Len(p) \in Int
    BY <1>1
  <2>2. /\ IsFiniteSet(1 .. Len(p))
        /\ Cardinality(1 .. Len(p)) = IF 1 > Len(p) THEN 0 ELSE Len(p) - 1 + 1
    BY ONLY <2>1, FS_Interval
  <2> QED
    BY <1>1, <2>2
<1>3. ExistsBijection(1 .. Len(p), ToSet(p))
  <2> DEFINE f == [i \in 1 .. Len(p) |-> p[i]]
  <2>1. f \in [1 .. Len(p) -> ToSet(p)]
    BY <1>1
  <2>2. IsInjective(f)
    BY <1>1 DEF IsInjective
  <2>3. \A b \in ToSet(p) : \E i \in 1 .. Len(p) : f[i] = b
    BY <1>1
  <2>4. f \in Bijection(1 .. Len(p), ToSet(p))
    BY <2>1, <2>2, <2>3 DEF Bijection, Injection, Surjection, IsInjective
  <2> QED
    BY <2>4 DEF ExistsBijection
<1>4. IsFiniteSet(ToSet(p)) /\ Cardinality(ToSet(p)) = Len(p)
  BY <1>2, <1>3, FS_Bijection
<1>5. Cardinality(ToSet(p)) <= Cardinality(Slot)
  BY <1>1, SlotFacts, FS_Subset
<1>6. Len(p) \in 0 .. size
  <2>1. Len(p) \in Nat /\ size \in Nat
    BY <1>1, SlotFacts
  <2>2. Cardinality(ToSet(p)) = Len(p) /\ Cardinality(Slot) = size
    BY <1>4, SlotFacts
  <2>3. Len(p) <= size
    BY ONLY <1>5, <2>2
  <2> QED
    BY ONLY <2>1, <2>3
<1>7. p \in Seq(Slot)
  BY <1>1
<1> QED
  BY ONLY <1>4, <1>6, <1>7

(* The first slot of a path is unlinked.                                       *)
LEMMA PathTail ==
    ASSUME NEW h, NEW s, NEW p, IsPath(h, s, p), s # Null
    PROVE  /\ p # <<>> /\ p[1] = s /\ s \in ToSet(p) /\ s \in Slot
           /\ IsPath(h, h[s], Tail(p)) /\ ToSet(Tail(p)) = ToSet(p) \ {s}
           /\ Len(Tail(p)) = Len(p) - 1
<1>1. /\ p \in Seq(Slot) /\ s = Node(p, 1)
      /\ \A i \in 1 .. Len(p) : h[p[i]] = Node(p, i + 1)
      /\ \A i, j \in 1 .. Len(p) : p[i] = p[j] => i = j
  BY DEF IsPath
<1>2. 1 \in 1 .. Len(p) /\ p[1] = s /\ p # <<>> /\ Len(p) \in Nat
  BY <1>1, OnThePath DEF Node
<1>3. PICK q : q = Tail(p)
  OBVIOUS
<1>4. /\ q \in Seq(Slot) /\ Len(q) = Len(p) - 1
      /\ \A i \in 1 .. Len(q) : q[i] = p[i + 1] /\ i + 1 \in 1 .. Len(p)
  BY <1>1, <1>2, <1>3
<1>5. \A i \in Nat \ {0} : Node(q, i) = Node(p, i + 1)
  BY <1>2, <1>4 DEF Node
<1>6. IsPath(h, h[s], q)
  <2>1. h[s] = Node(q, 1)
    BY <1>1, <1>2, <1>5
  <2>2. ASSUME NEW i \in 1 .. Len(q) PROVE h[q[i]] = Node(q, i + 1)
    <3>1. i + 1 \in Nat \ {0} /\ i \in Nat \ {0}
      OBVIOUS
    <3> QED
      BY <1>1, <1>4, <1>5, <3>1
  <2>3. ASSUME NEW i \in 1 .. Len(q), NEW j \in 1 .. Len(q), q[i] = q[j] PROVE i = j
    <3>1. i + 1 = j + 1
      BY <1>1, <1>4, <2>3
    <3> QED
      BY <3>1
  <2> QED
    BY <1>4, <2>1, <2>2, <2>3 DEF IsPath
<1>7. ToSet(q) = ToSet(p) \ {s}
  <2>1. /\ ToSet(q) = {q[i] : i \in 1 .. Len(q)}
        /\ ToSet(p) = {p[i] : i \in 1 .. Len(p)}
    BY <1>1, <1>4, OnThePath
  <2>2. ASSUME NEW i \in 1 .. Len(q) PROVE q[i] \in ToSet(p) \ {s}
    <3>1. q[i] = p[i + 1] /\ i + 1 \in 1 .. Len(p) /\ i + 1 # 1
      BY <1>4
    <3> QED
      BY <1>1, <1>2, <2>1, <3>1
  <2>3. ASSUME NEW j \in 1 .. Len(p), p[j] # s PROVE p[j] \in ToSet(q)
    <3>1. j - 1 \in 1 .. Len(q) /\ (j - 1) + 1 = j
      BY <1>2, <1>4, <2>3
    <3>2. q[j - 1] = p[j]
      BY <1>4, <3>1
    <3> QED
      BY <2>1, <3>1, <3>2
  <2> QED
    BY <2>1, <2>2, <2>3
<1>8. s \in ToSet(p) /\ s \in Slot
  BY <1>1, <1>2, OnThePath
<1> QED
  BY <1>2, <1>3, <1>4, <1>6, <1>7, <1>8

(* The links of the slots that are not on a path are free to change.            *)
LEMMA PathApart ==
    ASSUME NEW h, NEW g, NEW s, NEW p, IsPath(h, s, p), IsNext(h),
           NEW b, b \notin ToSet(p), NEW x, Relinks(g, h, b, x)
    PROVE  IsPath(g, s, p)
<1>1. ASSUME NEW i \in 1 .. Len(p) PROVE g[p[i]] = h[p[i]]
  BY <1>1, OnThePath DEF IsPath, IsNext, Relinks
<1> QED
  BY <1>1 DEF IsPath

(* A slot is linked in front of a path.                                       *)
LEMMA PathFront ==
    ASSUME NEW h, NEW g, NEW s, NEW p, IsPath(h, s, p), IsNext(h),
           NEW b \in Slot, b \notin ToSet(p), Relinks(g, h, b, s)
    PROVE  /\ IsPath(g, b, <<b>> \o p) /\ ToSet(<<b>> \o p) = ToSet(p) \union {b}
           /\ Len(<<b>> \o p) = Len(p) + 1
<1>1. /\ p \in Seq(Slot) /\ s = Node(p, 1) /\ Len(p) \in Nat
      /\ \A i \in 1 .. Len(p) : g[p[i]] = Node(p, i + 1)
      /\ \A i, j \in 1 .. Len(p) : p[i] = p[j] => i = j
  BY PathApart DEF IsPath
<1>2. g[b] = s
  BY DEF Relinks, IsNext
<1>3. PICK q : q = <<b>> \o p
  OBVIOUS
<1>4. /\ q \in Seq(Slot) /\ Len(q) = Len(p) + 1 /\ q[1] = b
      /\ \A i \in 1 .. Len(p) : q[i + 1] = p[i] /\ i + 1 \in 1 .. Len(q)
      /\ 1 \in 1 .. Len(q)
  BY <1>1, <1>3
<1>5. \A i \in Nat \ {0} : Node(q, i + 1) = Node(p, i)
  BY <1>1, <1>4 DEF Node
<1>6. \A i \in 1 .. Len(q) : i = 1 \/ (i - 1 \in 1 .. Len(p) /\ (i - 1) + 1 = i)
  BY <1>1, <1>4
<1>7. \A i \in 1 .. Len(p) : p[i] # b
  BY <1>1, OnThePath
<1>8. IsPath(g, b, q)
  <2>1. b = Node(q, 1)
    BY <1>4 DEF Node
  <2>2. ASSUME NEW i \in 1 .. Len(q) PROVE g[q[i]] = Node(q, i + 1)
    <3>1. CASE i = 1
      BY <1>1, <1>2, <1>4, <1>5, <3>1
    <3>2. CASE i # 1
      <4>1. PICK j \in 1 .. Len(p) : j = i - 1
        BY <1>6, <3>2
      <4>2. q[i] = p[j] /\ j + 1 = i /\ i \in Nat \ {0}
        BY <1>4, <4>1
      <4> QED
        BY <1>1, <1>5, <4>2
    <3> QED
      BY <3>1, <3>2
  <2>3. ASSUME NEW i \in 1 .. Len(q), NEW j \in 1 .. Len(q), q[i] = q[j] PROVE i = j
    <3>1. CASE i = 1 \/ j = 1
      <4>1. ASSUME NEW n \in 1 .. Len(q), q[n] = b PROVE n = 1
        <5>1. CASE n # 1
          <6>1. PICK m \in 1 .. Len(p) : m + 1 = n
            BY <1>6, <5>1
          <6> QED
            BY <1>4, <1>7, <4>1, <6>1
        <5> QED
          BY <5>1
      <4> QED
        BY <1>4, <2>3, <3>1, <4>1
    <3>2. CASE i # 1 /\ j # 1
      <4>1. PICK m \in 1 .. Len(p), n \in 1 .. Len(p) : m = i - 1 /\ n = j - 1
        BY <1>6, <3>2
      <4>2. p[m] = p[n] /\ m + 1 = i /\ n + 1 = j
        BY <1>4, <2>3, <4>1
      <4> QED
        BY <1>1, <4>2
    <3> QED
      BY <3>1, <3>2
  <2> QED
    BY <1>4, <2>1, <2>2, <2>3 DEF IsPath
<1>9. ToSet(q) = ToSet(p) \union {b}
  <2>1. /\ ToSet(q) = {q[i] : i \in 1 .. Len(q)}
        /\ ToSet(p) = {p[i] : i \in 1 .. Len(p)}
    BY <1>1, <1>4, OnThePath
  <2>2. ASSUME NEW i \in 1 .. Len(q) PROVE q[i] \in ToSet(p) \union {b}
    <3>1. CASE i = 1
      BY <1>4, <3>1
    <3>2. CASE i # 1
      <4>1. PICK j \in 1 .. Len(p) : j + 1 = i
        BY <1>6, <3>2
      <4> QED
        BY <1>4, <2>1, <4>1
    <3> QED
      BY <3>1, <3>2
  <2>3. \A i \in 1 .. Len(p) : p[i] \in ToSet(q)
    BY <1>4, <2>1
  <2>4. b \in ToSet(q)
    BY <1>4, <2>1
  <2> QED
    BY <2>1, <2>2, <2>3, <2>4
<1> QED
  BY <1>3, <1>4, <1>8, <1>9

\* The links g with first slot d are those of path p, h and s, with b behind it.
LinksBehind(g, d, h, s, p, b) ==
    /\ p = <<>> => g = h
    /\ p # <<>> => Relinks(g, h, p[Len(p)], b)
    /\ d = IF s = Null THEN b ELSE s

(* A slot with no successor is linked behind a path.                            *)
LEMMA PathBack ==
    ASSUME NEW h, NEW g, NEW s, NEW p, IsPath(h, s, p), IsNext(h),
           NEW b \in Slot, b \notin ToSet(p), h[b] = Null,
           NEW d, LinksBehind(g, d, h, s, p, b)
    PROVE  /\ IsPath(g, d, Append(p, b)) /\ ToSet(Append(p, b)) = ToSet(p) \union {b}
           /\ Len(Append(p, b)) = Len(p) + 1
<1>1. /\ p \in Seq(Slot) /\ s = Node(p, 1) /\ Len(p) \in Nat
      /\ \A i \in 1 .. Len(p) : h[p[i]] = Node(p, i + 1) /\ p[i] \in Slot /\ p[i] # b
      /\ \A i, j \in 1 .. Len(p) : p[i] = p[j] => i = j
      /\ Null \notin Slot
  BY OnThePath, SlotFacts DEF IsPath
<1>2. PICK q : q = Append(p, b)
  OBVIOUS
<1>3. /\ q \in Seq(Slot) /\ Len(q) = Len(p) + 1 /\ q[Len(q)] = b
      /\ \A i \in 1 .. Len(p) : q[i] = p[i] /\ i \in 1 .. Len(q)
      /\ \A i \in 1 .. Len(q) : i = Len(q) \/ i \in 1 .. Len(p)
  BY <1>1, <1>2
<1>4. g[b] = Null /\ \A i \in 1 .. Len(p) : i # Len(p) => g[p[i]] = h[p[i]]
  <2>1. CASE p = <<>>
    BY <1>1, <2>1 DEF LinksBehind
  <2>2. CASE p # <<>>
    <3>1. Len(p) \in 1 .. Len(p) /\ g = [h EXCEPT ![p[Len(p)]] = b]
      BY <1>1, <2>2 DEF Relinks, LinksBehind
    <3> QED
      BY <1>1, <3>1 DEF IsNext
  <2> QED
    BY <2>1, <2>2
<1>5. Len(p) # 0 => g[p[Len(p)]] = b
  BY <1>1 DEF IsNext, Relinks, LinksBehind
<1>6. IsPath(g, d, q)
  <2>1. d = Node(q, 1)
    BY <1>1, <1>3 DEF Node, LinksBehind
  <2>2. ASSUME NEW i \in 1 .. Len(q) PROVE g[q[i]] = Node(q, i + 1)
    <3>1. CASE i = Len(q)
      BY <1>1, <1>3, <1>4, <3>1 DEF Node
    <3>2. CASE i # Len(q) /\ i = Len(p)
      <4>1. q[i] = p[Len(p)] /\ Len(p) # 0 /\ Node(q, i + 1) = b
        BY <1>1, <1>3, <3>2 DEF Node
      <4> QED
        BY <1>5, <4>1
    <3>3. CASE i # Len(q) /\ i # Len(p)
      <4>1. i \in 1 .. Len(p) /\ q[i] = p[i] /\ i + 1 \in 1 .. Len(p)
        BY <1>1, <1>3, <3>3
      <4>2. Node(q, i + 1) = p[i + 1] /\ Node(p, i + 1) = p[i + 1]
        BY <1>3, <4>1 DEF Node
      <4> QED
        BY <1>1, <1>4, <3>3, <4>1, <4>2
    <3> QED
      BY <3>1, <3>2, <3>3
  <2>3. ASSUME NEW i \in 1 .. Len(q), NEW j \in 1 .. Len(q), q[i] = q[j] PROVE i = j
    BY <1>1, <1>3, <2>3
  <2> QED
    BY <1>3, <2>1, <2>2, <2>3 DEF IsPath
<1>7. ToSet(q) = ToSet(p) \union {b}
  <2>1. /\ ToSet(q) = {q[i] : i \in 1 .. Len(q)}
        /\ ToSet(p) = {p[i] : i \in 1 .. Len(p)}
    BY <1>1, <1>3, OnThePath
  <2>2. Len(q) \in 1 .. Len(q)
    BY <1>1, <1>3
  <2>3. \A i \in 1 .. Len(q) : q[i] \in ToSet(p) \union {b}
    BY <1>3, <2>1
  <2>4. \A i \in 1 .. Len(p) : p[i] \in ToSet(q)
    BY <1>3, <2>1
  <2>5. b \in ToSet(q)
    BY <1>3, <2>1, <2>2
  <2> QED
    BY <2>1, <2>3, <2>4, <2>5
<1> QED
  BY <1>2, <1>3, <1>6, <1>7

(* The slots reached from s are the path from s.                                *)
LEMMA ChainIs ==
    ASSUME NEW q, NEW s, NEW p, IsPath(q.next, s, p)
    PROVE  Chain(q, s) = p
<1> DEFINE F(r) == [n \in 0 .. size |-> IF n = 0 THEN s
                                        ELSE IF r[n - 1] = Null THEN Null ELSE q.next[r[n - 1]]]
           g == [n \in 0 .. size |-> Node(p, n + 1)]
           R == CHOOSE r : r = F(r)
           E(r) == {n \in 0 .. size : r[n] = Null} \union {size + 1}
<1>1. /\ p \in Seq(Slot) /\ s = Node(p, 1) /\ Len(p) \in 0 .. size /\ size \in Nat
      /\ \A i \in 1 .. Len(p) : q.next[p[i]] = Node(p, i + 1) /\ p[i] # Null
      /\ DOMAIN p = 1 .. Len(p)
  BY PathLength, OnThePath, SlotFacts DEF IsPath
<1>2. g = F(g)
  <2>1. ASSUME NEW n \in 0 .. size PROVE g[n] = F(g)[n]
    <3>1. CASE n = 0
      BY <1>1, <3>1
    <3>2. CASE n # 0
      <4>1. n - 1 \in 0 .. size /\ (n - 1) + 1 = n
        BY <1>1, <3>2
      <4>2. g[n - 1] = Node(p, n) /\ g[n] = Node(p, n + 1)
        BY <4>1
      <4>3. CASE n \in 1 .. Len(p)
        <5>1. Node(p, n) = p[n] /\ p[n] # Null
          BY <1>1, <4>3 DEF Node
        <5> QED
          BY <1>1, <3>2, <4>2, <4>3, <5>1
      <4>4. CASE n \notin 1 .. Len(p)
        <5>1. Node(p, n) = Null /\ n + 1 \notin 1 .. Len(p)
          BY <1>1, <3>2, <4>4 DEF Node
        <5>2. Node(p, n + 1) = Null
          BY <5>1 DEF Node
        <5> QED
          BY <3>2, <4>2, <5>1, <5>2
      <4> QED
        BY <4>3, <4>4
    <3> QED
      BY <3>1, <3>2
  <2> QED
    BY <2>1
<1>3. R = F(R)
  <2> HIDE DEF F, g
  <2> QED
    BY <1>2
<1>4. Chain(q, s) = [i \in 1 .. Min(E(R)) |-> R[i - 1]]
  BY DEF Chain
<1> HIDE DEF R
<1>5. ASSUME NEW m \in 0 .. size PROVE R[m] = g[m]
  <2> DEFINE G == {j \in 0 .. m : R[j] = g[j]}
  <2>1. m \in Nat /\ 0 .. m \subseteq 0 .. size
    BY <1>1
  <2>2. 0 \in G
    <3>1. 0 \in 0 .. m /\ 0 \in 0 .. size
      BY <1>1, <2>1
    <3>2. R[0] = F(R)[0] /\ g[0] = F(g)[0]
      BY <1>2, <1>3
    <3>3. F(R)[0] = s /\ F(g)[0] = s
      BY <3>1
    <3> HIDE DEF F, g
    <3> QED
      BY <3>1, <3>2, <3>3
  <2>3. ASSUME NEW j \in 1 .. m, j - 1 \in G PROVE j \in G
    <3>1. j \in 0 .. size /\ j \in 0 .. m /\ j # 0
      BY <2>1
    <3>2. R[j] = F(R)[j] /\ g[j] = F(g)[j]
      BY <1>2, <1>3
    <3>3. R[j - 1] = g[j - 1]
      BY <2>3
    <3>4. F(R)[j] = F(g)[j]
      <4> HIDE DEF g
      <4> QED
        BY <3>1, <3>3
    <3> HIDE DEF F, g
    <3> QED
      BY <3>1, <3>2, <3>4
  <2> HIDE DEF G
  <2>4. m \in G
    BY <2>1, <2>2, <2>3, CountUp
  <2> QED
    BY <2>4 DEF G
<1>6. \A n \in 0 .. size : R[n] = Node(p, n + 1)
  BY <1>5
<1> HIDE DEF F, g
<1>7. Min(E(R)) = Len(p)
  <2>1. E(R) \in SUBSET Nat /\ E(R) # {}
    BY <1>1
  <2>2. Len(p) \in E(R)
    <3>1. Len(p) \in 0 .. size /\ Len(p) + 1 \notin 1 .. Len(p)
      BY <1>1
    <3> QED
      BY <1>6, <3>1 DEF Node
  <2>3. ASSUME NEW n \in E(R) PROVE Len(p) <= n
    <3>1. CASE n = size + 1
      BY <1>1, <3>1
    <3>2. CASE n \in 0 .. size /\ R[n] = Null
      <4>1. Node(p, n + 1) = Null
        BY <1>6, <3>2
      <4>2. n + 1 \notin 1 .. Len(p)
        BY <1>1, <4>1 DEF Node
      <4> QED
        BY <1>1, <3>2, <4>2
    <3> QED
      BY <3>1, <3>2
  <2> HIDE DEF E
  <2>4. Min(E(R)) \in E(R) /\ \A y \in E(R) : Min(E(R)) <= y
    BY <2>1, MinIsLeast
  <2>5. Min(E(R)) \in Nat /\ Len(p) \in Nat /\ Min(E(R)) <= Len(p) /\ Len(p) <= Min(E(R))
    BY <1>1, <2>1, <2>2, <2>3, <2>4
  <2> QED
    BY <2>5
<1>8. \A i \in 1 .. Len(p) : R[i - 1] = p[i]
  <2> SUFFICES ASSUME NEW i \in 1 .. Len(p) PROVE R[i - 1] = p[i]
    OBVIOUS
  <2>1. i - 1 \in 0 .. size /\ (i - 1) + 1 = i
    BY <1>1
  <2> QED
    BY <1>6, <2>1 DEF Node
<1>9. p = [i \in 1 .. Len(p) |-> p[i]]
  BY <1>1
<1> QED
  BY <1>4, <1>7, <1>8, <1>9

QueueType ==
    [ next : [Slot -> Slot \union {Null}], data : [Slot -> Mail \union {NoMail}],
      head : Slot \union {Null}, tail : Slot \union {Null},
      free : Slot \union {Null}, entry : 0 .. size ]

IsData(d) == d \in [Slot -> Mail \union {NoMail}]

\* The queue q holds the slots p, its free list the slots f, and the slots H are
\* in somebody's hands.
PathsOK(q, p, f, H) ==
    /\ IsNext(q.next) /\ IsData(q.data)
    /\ IsPath(q.next, q.head, p) /\ IsPath(q.next, q.free, f)
    /\ q.tail = Node(p, Len(p))
    /\ ToSet(p) \intersect ToSet(f) = {} /\ (ToSet(p) \union ToSet(f)) \intersect H = {}
    /\ Slot = ToSet(p) \union ToSet(f) \union H
    /\ \A i \in 1 .. Len(p) : q.data[p[i]] \in Mail

QueueOK(q, p, f, H) == q \in QueueType /\ PathsOK(q, p, f, H) /\ q.entry = Len(p)

\* The messages of the slots p.
Msgs(q, p) == [i \in 1 .. Len(p) |-> q.data[p[i]]]

\* The messages M are v and then those of N.
Leads(M, v, N) == M = <<v>> \o N

\* The messages N are those of M without the first one.
Drops(N, M) == N = Tail(M)

\* The slots of H are the same in both.
SameSlots(r, q, H) == \A s \in H : r.next[s] = q.next[s] /\ r.data[s] = q.data[s]

(* The parts of a queue.                                                      *)
LEMMA TypeParts ==
    ASSUME NEW q \in QueueType
    PROVE  /\ IsNext(q.next) /\ IsData(q.data) /\ q.entry \in 0 .. size
           /\ q.head \in Slot \union {Null} /\ q.tail \in Slot \union {Null}
           /\ q.free \in Slot \union {Null}
BY DEF QueueType, IsNext, IsData

LEMMA QueueParts ==
    ASSUME NEW q, NEW p, NEW f, NEW H, PathsOK(q, p, f, H)
    PROVE  /\ p \in Seq(Slot) /\ f \in Seq(Slot)
           /\ Len(p) \in 0 .. size /\ Len(f) \in 0 .. size /\ Len(p) + Len(f) <= size
           /\ H \subseteq Slot /\ Null \notin H
           /\ q.head = Null <=> p = <<>>
           /\ q.free = Null <=> f = <<>>
           /\ q.tail = Null <=> p = <<>>
<1>1. /\ IsPath(q.next, q.head, p) /\ IsPath(q.next, q.free, f) /\ H \subseteq Slot
      /\ q.tail = Node(p, Len(p)) /\ ToSet(p) \intersect ToSet(f) = {}
      /\ ToSet(p) \union ToSet(f) \subseteq Slot /\ Null \notin Slot
  BY SlotFacts DEF PathsOK
<1>2. /\ p \in Seq(Slot) /\ f \in Seq(Slot)
      /\ Len(p) \in 0 .. size /\ Len(f) \in 0 .. size
      /\ IsFiniteSet(ToSet(p)) /\ Cardinality(ToSet(p)) = Len(p)
      /\ IsFiniteSet(ToSet(f)) /\ Cardinality(ToSet(f)) = Len(f)
  BY <1>1, PathLength
<1>3. Len(p) + Len(f) <= size
  <2>1. PICK P, F : P = ToSet(p) /\ F = ToSet(f)
    OBVIOUS
  <2>2. /\ IsFiniteSet(P) /\ IsFiniteSet(F) /\ P \intersect F = {} /\ P \union F \subseteq Slot
        /\ Cardinality(P) = Len(p) /\ Cardinality(F) = Len(f)
    BY <1>1, <1>2, <2>1
  <2>3. Cardinality(P \union F) = Cardinality(P) + Cardinality(F)
    BY ONLY <2>2, DisjointUnion
  <2>4. Cardinality(P \union F) <= Cardinality(Slot)
    BY ONLY <2>2, SlotFacts, FS_Subset
  <2>5. Cardinality(Slot) = size
    BY SlotFacts
  <2> QED
    BY ONLY <2>2, <2>3, <2>4, <2>5
<1>4. /\ p = <<>> <=> Len(p) = 0
      /\ f = <<>> <=> Len(f) = 0
      /\ \A i \in 1 .. Len(p) : p[i] \in Slot
      /\ \A i \in 1 .. Len(f) : f[i] \in Slot
  BY <1>2, OnThePath
<1>5. /\ q.head = Null <=> p = <<>>
      /\ q.free = Null <=> f = <<>>
      /\ q.tail = Null <=> p = <<>>
  BY <1>1, <1>2, <1>4 DEF IsPath, Node
<1> QED
  BY <1>1, <1>2, <1>3, <1>5

(* The slots are partitioned.                                                 *)
LEMMA QueueCounts ==
    ASSUME NEW q, NEW p, NEW f, NEW H, PathsOK(q, p, f, H)
    PROVE  Len(p) + Len(f) + Cardinality(H) = size
<1>1. PICK P, F : P = ToSet(p) /\ F = ToSet(f)
  OBVIOUS
<1>2. /\ IsPath(q.next, q.head, p) /\ IsPath(q.next, q.free, f) /\ P \intersect F = {}
      /\ (P \union F) \intersect H = {} /\ Slot = P \union F \union H
  BY <1>1 DEF PathsOK
<1>3. /\ IsFiniteSet(P) /\ IsFiniteSet(F)
      /\ Cardinality(P) = Len(p) /\ Cardinality(F) = Len(f)
  BY <1>1, <1>2, PathLength
<1>4. IsFiniteSet(H)
  <2>1. H \subseteq Slot /\ IsFiniteSet(Slot)
    BY <1>2, SlotFacts
  <2> QED
    BY ONLY <2>1, FS_Subset
<1>5. /\ IsFiniteSet(P \union F)
      /\ Cardinality(P \union F) = Cardinality(P) + Cardinality(F)
  BY ONLY <1>2, <1>3, DisjointUnion
<1>6. Cardinality((P \union F) \union H) = Cardinality(P \union F) + Cardinality(H)
  BY ONLY <1>2, <1>4, <1>5, DisjointUnion
<1>7. Cardinality((P \union F) \union H) = size
  BY <1>2, SlotFacts
<1> QED
  BY <1>3, <1>5, <1>6, <1>7

(* While somebody has a slot in his hands there is room for one message.        *)
LEMMA QueueRoom ==
    ASSUME NEW q, NEW p, NEW f, NEW H, PathsOK(q, p, f, H), H # {}
    PROVE  Len(p) + 1 \in 0 .. size
<1>1. Len(p) + Len(f) + Cardinality(H) = size /\ Len(f) \in Nat /\ Len(p) \in Nat
  BY QueueCounts, QueueParts
<1>2. IsFiniteSet(H)
  BY SlotFacts, FS_Subset DEF PathsOK
<1>3. Cardinality(H) \in Nat /\ Cardinality(H) # 0
  BY <1>2, FS_CardinalityType, FS_EmptySet
<1> QED
  BY <1>1, <1>3

(* A slot is taken off the free list.                                          *)
LEMMA QueueTakesFree ==
    ASSUME NEW q, NEW p, NEW f, NEW H, QueueOK(q, p, f, H), q.free # Null, NEW r, r = TakeFree(q)
    PROVE  /\ f # <<>> /\ q.free \in Slot \ H
           /\ QueueOK(r, p, Tail(f), H \union {q.free}) /\ Len(Tail(f)) = Len(f) - 1
           /\ r.next = q.next /\ r.data = q.data
<1>1. PICK s : s = q.free
  OBVIOUS
<1>2. /\ IsPath(q.next, s, f) /\ s # Null /\ PathsOK(q, p, f, H)
      /\ q \in QueueType /\ q.entry = Len(p)
  BY <1>1 DEF QueueOK, PathsOK
<1>3. /\ f # <<>> /\ s \in ToSet(f) /\ s \in Slot
      /\ IsPath(q.next, q.next[s], Tail(f)) /\ ToSet(Tail(f)) = ToSet(f) \ {s}
      /\ Len(Tail(f)) = Len(f) - 1
  BY <1>2, PathTail
<1>4. /\ r.next = q.next /\ r.data = q.data /\ r.head = q.head /\ r.tail = q.tail
      /\ r.entry = q.entry /\ r.free = q.next[s] /\ r \in QueueType
  BY <1>1, <1>2, <1>3 DEF TakeFree, QueueType
<1>5. PathsOK(r, p, Tail(f), H \union {s})
  BY <1>2, <1>3, <1>4 DEF PathsOK
<1>6. s \notin H
  BY <1>2, <1>3 DEF PathsOK
<1> QED
  BY <1>1, <1>2, <1>3, <1>4, <1>5, <1>6 DEF QueueOK

(* A message is copied into a slot that is in somebody's hands.                 *)
LEMMA QueueFills ==
    ASSUME NEW q, NEW p, NEW f, NEW H, QueueOK(q, p, f, H), NEW s \in H, NEW v \in Mail,
           NEW r, r = FillTail(q, s, v) \/ r = Fill(q, s, v)
    PROVE  /\ QueueOK(r, p, f, H) /\ r.data[s] = v /\ SameSlots(r, q, H \ {s})
           /\ r = FillTail(q, s, v) => r.next[s] = Null
           /\ Msgs(r, p) = Msgs(q, p)
<1>1. /\ q \in QueueType /\ PathsOK(q, p, f, H) /\ q.entry = Len(p)
      /\ IsNext(q.next) /\ IsData(q.data)
      /\ IsPath(q.next, q.head, p) /\ IsPath(q.next, q.free, f)
      /\ s \notin ToSet(p) /\ s \notin ToSet(f) /\ s \in Slot
  BY DEF QueueOK, PathsOK
<1>2. /\ r \in QueueType /\ r.head = q.head /\ r.tail = q.tail
      /\ r.entry = q.entry /\ r.free = q.free /\ r.data = [q.data EXCEPT ![s] = v]
      /\ r.next = q.next \/ Relinks(r.next, q.next, s, Null)
      /\ r = FillTail(q, s, v) => Relinks(r.next, q.next, s, Null)
  BY <1>1 DEF FillTail, Fill, QueueType, Relinks
<1>3. IsPath(r.next, q.head, p) /\ IsPath(r.next, q.free, f)
  BY <1>1, <1>2, PathApart
<1>4. \A i \in 1 .. Len(p) : r.data[p[i]] = q.data[p[i]]
  BY <1>1, <1>2, OnThePath DEF IsPath, IsData
<1>5. PathsOK(r, p, f, H)
  BY <1>1, <1>2, <1>3, <1>4, TypeParts DEF PathsOK
<1>6. r.data[s] = v /\ SameSlots(r, q, H \ {s}) /\ (r = FillTail(q, s, v) => r.next[s] = Null)
  BY <1>1, <1>2 DEF IsData, IsNext, Relinks, SameSlots, PathsOK
<1> QED
  BY <1>1, <1>2, <1>4, <1>5, <1>6 DEF QueueOK, Msgs

(* A slot in somebody's hands is linked behind the last message.                *)
LEMMA QueueLinksTail ==
    ASSUME NEW q, NEW p, NEW f, NEW H, QueueOK(q, p, f, H), NEW s \in H,
           q.next[s] = Null, q.data[s] \in Mail, NEW r, r = LinkTail(q, s)
    PROVE  /\ QueueOK(r, Append(p, s), f, H \ {s}) /\ SameSlots(r, q, H \ {s})
           /\ Len(p) < size /\ Msgs(r, Append(p, s)) = Append(Msgs(q, p), q.data[s])
<1>1. /\ q \in QueueType /\ PathsOK(q, p, f, H) /\ q.entry = Len(p)
      /\ IsNext(q.next) /\ IsData(q.data)
      /\ IsPath(q.next, q.head, p) /\ IsPath(q.next, q.free, f)
      /\ s \notin ToSet(p) /\ s \notin ToSet(f) /\ s \in Slot
      /\ q.tail = Node(p, Len(p))
  BY DEF QueueOK, PathsOK
<1>2. /\ p \in Seq(Slot) /\ Len(p) \in Nat /\ size \in Nat /\ Null \notin Slot
      /\ q.head = Null <=> p = <<>>
      /\ q.tail = Null <=> p = <<>>
      /\ p # <<>> => q.tail = p[Len(p)] /\ q.tail \in ToSet(p)
  BY <1>1, QueueParts, OnThePath, SlotFacts DEF Node
<1>3. Len(p) + 1 \in 0 .. size
  BY <1>1, QueueRoom
<1>4. /\ r \in QueueType /\ r.data = q.data /\ r.free = q.free /\ r.tail = s
      /\ r.head = (IF q.head = Null THEN s ELSE q.head) /\ r.entry = Len(p) + 1
      /\ r.next = IF q.tail # Null THEN [q.next EXCEPT ![q.tail] = s] ELSE q.next
  <2>1. PICK n : n = IF q.tail # Null THEN [q.next EXCEPT ![q.tail] = s] ELSE q.next
    OBVIOUS
  <2>2. n \in [Slot -> Slot \union {Null}]
    BY <1>1, <2>1 DEF IsNext
  <2>3. q.entry + 1 = Len(p) + 1
    BY <1>1
  <2>4. PICK d : d = IF q.head = Null THEN s ELSE q.head
    OBVIOUS
  <2>5. d \in Slot \union {Null}
    BY <1>1, <2>4, TypeParts
  <2>6. r = [q EXCEPT !.next = n, !.tail = s, !.head = d, !.entry = q.entry + 1]
    BY <2>1, <2>4 DEF LinkTail
  <2>7. /\ r \in QueueType /\ r.data = q.data /\ r.free = q.free /\ r.tail = s
        /\ r.head = d /\ r.entry = Len(p) + 1 /\ r.next = n
    BY <1>1, <1>3, <2>2, <2>3, <2>5, <2>6 DEF QueueType
  <2> QED
    BY ONLY <2>1, <2>4, <2>7
<1>5. /\ p = <<>> => r.next = q.next
      /\ p # <<>> => Relinks(r.next, q.next, p[Len(p)], s)
  BY <1>2, <1>4 DEF Relinks
<1>6. PICK pp : pp = Append(p, s)
  OBVIOUS
<1>7. /\ IsPath(r.next, r.head, pp) /\ ToSet(pp) = ToSet(p) \union {s}
      /\ Len(pp) = Len(p) + 1
  <2>1. PICK h, g, c, d : h = q.next /\ g = r.next /\ c = q.head /\ d = r.head
    OBVIOUS
  <2>2. /\ IsPath(h, c, p) /\ IsNext(h) /\ s \in Slot /\ s \notin ToSet(p) /\ h[s] = Null
        /\ LinksBehind(g, d, h, c, p, s)
    BY <1>1, <1>4, <1>5, <2>1 DEF LinksBehind
  <2>3. /\ IsPath(g, d, pp) /\ ToSet(pp) = ToSet(p) \union {s} /\ Len(pp) = Len(p) + 1
    BY ONLY <1>6, <2>2, PathBack
  <2> QED
    BY <1>4, <1>6, <2>1, <2>3
<1>8. IsPath(r.next, r.free, f)
  <2>1. CASE p = <<>>
    BY <1>1, <1>4, <1>5, <2>1
  <2>2. CASE p # <<>>
    <3>1. p[Len(p)] \notin ToSet(f)
      BY <1>1, <1>2, <2>2 DEF PathsOK
    <3> QED
      BY <1>1, <1>4, <1>5, <2>2, <3>1, PathApart
  <2> QED
    BY <2>1, <2>2
<1>9. /\ pp[Len(pp)] = s /\ Len(pp) \in 1 .. Len(pp)
      /\ \A i \in 1 .. Len(pp) : i = Len(pp) \/ (i \in 1 .. Len(p) /\ pp[i] = p[i])
  BY <1>2, <1>6, <1>7
<1>10. \A i \in 1 .. Len(pp) : r.data[pp[i]] \in Mail
  BY <1>1, <1>4, <1>9 DEF PathsOK
<1>11. PathsOK(r, pp, f, H \ {s})
  <2>1. r.tail = Node(pp, Len(pp)) /\ IsNext(r.next) /\ IsData(r.data)
    BY <1>4, <1>9, TypeParts DEF Node
  <2>2. /\ ToSet(pp) \intersect ToSet(f) = {}
        /\ (ToSet(pp) \union ToSet(f)) \intersect (H \ {s}) = {}
        /\ Slot = ToSet(pp) \union ToSet(f) \union (H \ {s})
    BY <1>1, <1>7 DEF PathsOK
  <2> QED
    BY <1>7, <1>8, <1>10, <2>1, <2>2 DEF PathsOK
<1>12. SameSlots(r, q, H \ {s})
  <2>1. ASSUME NEW b \in H PROVE b # q.tail \/ q.tail = Null
    BY <1>1, <1>2 DEF PathsOK
  <2> QED
    BY <1>1, <1>4, <2>1 DEF SameSlots, IsNext, PathsOK
<1>13. Msgs(r, pp) = Append(Msgs(q, p), q.data[s])
  <2>1. PICK ms : ms = Msgs(q, p)
    OBVIOUS
  <2>2. /\ ms \in Seq(Mail) /\ Len(ms) = Len(p)
        /\ \A i \in 1 .. Len(p) : ms[i] = q.data[p[i]]
    BY <1>1, <1>2, <2>1 DEF Msgs, PathsOK
  <2>3. \A i \in 1 .. Len(pp) : r.data[pp[i]] = Append(ms, q.data[s])[i]
    BY <1>2, <1>4, <1>7, <1>9, <2>2
  <2>4. /\ Append(ms, q.data[s]) \in Seq(Mail) /\ Len(Append(ms, q.data[s])) = Len(pp)
    BY <1>7, <2>2
  <2>5. Append(ms, q.data[s]) = [i \in 1 .. Len(pp) |-> Append(ms, q.data[s])[i]]
    BY <2>4
  <2> QED
    BY <2>1, <2>3, <2>5 DEF Msgs
<1> QED
  BY <1>2, <1>3, <1>4, <1>6, <1>7, <1>11, <1>12, <1>13 DEF QueueOK

(* A slot in somebody's hands is linked in front of the first message.          *)
LEMMA QueueLinksHead ==
    ASSUME NEW q, NEW p, NEW f, NEW H, QueueOK(q, p, f, H), NEW s \in H,
           q.data[s] \in Mail, NEW r, r = LinkHead(q, s)
    PROVE  /\ QueueOK(r, <<s>> \o p, f, H \ {s}) /\ SameSlots(r, q, H \ {s})
           /\ Len(p) < size /\ Leads(Msgs(r, <<s>> \o p), q.data[s], Msgs(q, p))
<1>1. /\ q \in QueueType /\ PathsOK(q, p, f, H) /\ q.entry = Len(p)
      /\ IsNext(q.next) /\ IsData(q.data)
      /\ IsPath(q.next, q.head, p) /\ IsPath(q.next, q.free, f)
      /\ s \notin ToSet(p) /\ s \notin ToSet(f) /\ s \in Slot
      /\ q.tail = Node(p, Len(p))
  BY DEF QueueOK, PathsOK
<1>2. /\ p \in Seq(Slot) /\ Len(p) \in Nat /\ size \in Nat /\ Null \notin Slot
      /\ q.tail = Null <=> p = <<>>
      /\ p = <<>> <=> Len(p) = 0
  BY <1>1, QueueParts, OnThePath, SlotFacts
<1>3. Len(p) + 1 \in 0 .. size
  BY <1>1, QueueRoom
<1>4. /\ r \in QueueType /\ r.data = q.data /\ r.free = q.free /\ r.head = s
      /\ r.tail = (IF q.tail = Null THEN s ELSE q.tail) /\ r.entry = Len(p) + 1
      /\ r.next = [q.next EXCEPT ![s] = q.head]
  <2>1. PICK n : n = [q.next EXCEPT ![s] = q.head]
    OBVIOUS
  <2>2. PICK d : d = IF q.tail = Null THEN s ELSE q.tail
    OBVIOUS
  <2>3. n \in [Slot -> Slot \union {Null}] /\ d \in Slot \union {Null}
    BY <1>1, <2>1, <2>2, TypeParts DEF IsNext
  <2>4. q.entry + 1 = Len(p) + 1
    BY <1>1
  <2>5. r = [q EXCEPT !.next = n, !.head = s, !.tail = d, !.entry = q.entry + 1]
    BY <2>1, <2>2 DEF LinkHead
  <2>6. /\ r \in QueueType /\ r.data = q.data /\ r.free = q.free /\ r.tail = d
        /\ r.head = s /\ r.entry = Len(p) + 1 /\ r.next = n
    BY <1>1, <1>3, <2>3, <2>4, <2>5 DEF QueueType
  <2> QED
    BY ONLY <2>1, <2>2, <2>6
<1>5. Relinks(r.next, q.next, s, q.head)
  BY <1>4 DEF Relinks
<1>6. PICK pp : pp = <<s>> \o p
  OBVIOUS
<1>7. /\ IsPath(r.next, r.head, pp) /\ ToSet(pp) = ToSet(p) \union {s}
      /\ Len(pp) = Len(p) + 1
  <2>1. PICK h, g, c : h = q.next /\ g = r.next /\ c = q.head
    OBVIOUS
  <2>2. /\ IsPath(h, c, p) /\ IsNext(h) /\ s \in Slot /\ s \notin ToSet(p)
        /\ Relinks(g, h, s, c)
    BY <1>1, <1>5, <2>1
  <2>3. /\ IsPath(g, s, <<s>> \o p) /\ ToSet(<<s>> \o p) = ToSet(p) \union {s}
        /\ Len(<<s>> \o p) = Len(p) + 1
    BY ONLY <2>2, PathFront
  <2> QED
    BY <1>4, <1>6, <2>1, <2>3
<1>8. IsPath(r.next, r.free, f)
  BY <1>1, <1>4, <1>5, PathApart
<1>9. /\ pp[1] = s /\ Len(pp) \in 1 .. Len(pp)
      /\ \A i \in 1 .. Len(pp) : i = 1 \/ (i - 1 \in 1 .. Len(p) /\ pp[i] = p[i - 1])
  BY <1>2, <1>6, <1>7
<1>10. \A i \in 1 .. Len(pp) : r.data[pp[i]] \in Mail
  BY <1>1, <1>4, <1>9 DEF PathsOK
<1>11. PathsOK(r, pp, f, H \ {s})
  <2>1. r.tail = Node(pp, Len(pp))
    <3>1. Node(pp, Len(pp)) = pp[Len(pp)]
      BY <1>9 DEF Node
    <3>2. CASE p = <<>>
      BY <1>2, <1>4, <1>7, <1>9, <3>1, <3>2
    <3>3. CASE p # <<>>
      <4>1. Len(pp) # 1 /\ Len(pp) - 1 = Len(p) /\ Len(p) \in 1 .. Len(p)
        BY <1>2, <1>7, <3>3
      <4>2. pp[Len(pp)] = p[Len(p)] /\ q.tail = p[Len(p)] /\ q.tail # Null
        BY <1>1, <1>2, <1>9, <3>3, <4>1 DEF Node
      <4> QED
        BY <1>4, <3>1, <4>2
    <3> QED
      BY <3>2, <3>3
  <2>2. IsNext(r.next) /\ IsData(r.data)
    BY <1>4, TypeParts
  <2>3. /\ ToSet(pp) \intersect ToSet(f) = {}
        /\ (ToSet(pp) \union ToSet(f)) \intersect (H \ {s}) = {}
        /\ Slot = ToSet(pp) \union ToSet(f) \union (H \ {s})
    BY <1>1, <1>7 DEF PathsOK
  <2> QED
    BY <1>7, <1>8, <1>10, <2>1, <2>2, <2>3 DEF PathsOK
<1>12. SameSlots(r, q, H \ {s})
  BY <1>1, <1>4 DEF SameSlots, IsNext, PathsOK
<1>13. Msgs(r, pp) = <<q.data[s]>> \o Msgs(q, p)
  <2>1. PICK ms, v : ms = Msgs(q, p) /\ v = q.data[s]
    OBVIOUS
  <2>2. /\ ms \in Seq(Mail) /\ Len(ms) = Len(p) /\ v \in Mail
        /\ \A i \in 1 .. Len(p) : ms[i] = q.data[p[i]]
    BY <1>1, <1>2, <2>1 DEF Msgs, PathsOK
  <2>3. PICK mm : mm = <<v>> \o ms
    OBVIOUS
  <2>4. /\ mm \in Seq(Mail) /\ Len(mm) = Len(pp) /\ mm[1] = v
        /\ \A i \in 1 .. Len(pp) : i # 1 => mm[i] = ms[i - 1]
    BY <1>2, <1>7, <2>2, <2>3
  <2>5. ASSUME NEW i \in 1 .. Len(pp) PROVE r.data[pp[i]] = mm[i]
    <3>1. CASE i = 1
      BY <1>4, <1>9, <2>1, <2>4, <3>1
    <3>2. CASE i # 1
      <4>1. PICK j \in 1 .. Len(p) : j = i - 1 /\ pp[i] = p[j]
        BY <1>9, <3>2
      <4> QED
        BY <1>4, <2>2, <2>4, <3>2, <4>1
    <3> QED
      BY <3>1, <3>2
  <2>6. mm = [i \in 1 .. Len(pp) |-> mm[i]]
    BY <2>4
  <2> QED
    BY <2>1, <2>3, <2>5, <2>6 DEF Msgs
<1>14. QueueOK(r, pp, f, H \ {s}) /\ Len(p) < size
  BY <1>2, <1>3, <1>4, <1>7, <1>11 DEF QueueOK
<1> QED
  BY ONLY <1>6, <1>12, <1>13, <1>14 DEF Leads

(* The first message is unlinked.                                             *)
LEMMA QueueUnlinks ==
    ASSUME NEW q, NEW p, NEW f, NEW H, q \in QueueType, PathsOK(q, p, f, H),
           q.head # Null, NEW r, r = UnlinkHead(q)
    PROVE  /\ r \in QueueType /\ PathsOK(r, Tail(p), f, H \union {q.head})
           /\ p # <<>> /\ q.head \in Slot \ H /\ Len(Tail(p)) = Len(p) - 1
           /\ r.next = q.next /\ r.data = q.data /\ r.entry = q.entry
           /\ q.data[q.head] \in Mail /\ Msgs(q, p) # <<>>
           /\ q.data[q.head] = Head(Msgs(q, p)) /\ Drops(Msgs(r, Tail(p)), Msgs(q, p))
<1>1. PICK s : s = q.head
  OBVIOUS
<1>2. /\ IsPath(q.next, s, p) /\ IsNext(q.next) /\ IsData(q.data) /\ s # Null
      /\ IsPath(q.next, q.free, f) /\ q.tail = Node(p, Len(p))
  BY <1>1 DEF PathsOK
<1>3. /\ p # <<>> /\ p[1] = s /\ s \in ToSet(p) /\ s \in Slot
      /\ IsPath(q.next, q.next[s], Tail(p)) /\ ToSet(Tail(p)) = ToSet(p) \ {s}
      /\ Len(Tail(p)) = Len(p) - 1
  BY <1>2, PathTail
<1>4. PICK pp : pp = Tail(p)
  OBVIOUS
<1>5. /\ p \in Seq(Slot) /\ Len(p) \in Nat \ {0} /\ pp \in Seq(Slot) /\ Len(pp) = Len(p) - 1
      /\ \A i \in 1 .. Len(pp) : pp[i] = p[i + 1] /\ i + 1 \in 1 .. Len(p)
      /\ \A i, j \in 1 .. Len(p) : p[i] = p[j] => i = j
  BY <1>2, <1>3, <1>4, OnThePath DEF IsPath
<1>6. /\ r.next = q.next /\ r.data = q.data /\ r.free = q.free /\ r.entry = q.entry
      /\ r.head = q.next[s] /\ r.tail = (IF q.tail = s THEN Null ELSE q.tail)
      /\ r \in QueueType
  <2>1. PICK c, d : c = q.next[s] /\ d = IF q.tail = s THEN Null ELSE q.tail
    OBVIOUS
  <2>2. c \in Slot \union {Null} /\ d \in Slot \union {Null}
    BY <1>2, <1>3, <2>1, TypeParts DEF IsNext
  <2>3. r = [q EXCEPT !.head = c, !.tail = d]
    BY <1>1, <2>1 DEF UnlinkHead
  <2>4. /\ r.next = q.next /\ r.data = q.data /\ r.free = q.free /\ r.entry = q.entry
        /\ r.head = c /\ r.tail = d /\ r \in QueueType
    BY <2>2, <2>3 DEF QueueType
  <2> QED
    BY ONLY <2>1, <2>4
<1>7. r.tail = Node(pp, Len(pp))
  <2>1. CASE Len(p) = 1
    <3>1. q.tail = s /\ Len(pp) \notin 1 .. Len(pp)
      BY <1>2, <1>3, <1>5, <2>1 DEF Node
    <3> QED
      BY <1>6, <3>1 DEF Node
  <2>2. CASE Len(p) # 1
    <3>1. /\ Len(p) \in 1 .. Len(p) /\ 1 \in 1 .. Len(p) /\ Len(pp) \in 1 .. Len(pp)
          /\ Len(pp) + 1 = Len(p)
      BY <1>5, <2>2
    <3>2. q.tail = p[Len(p)] /\ p[Len(p)] # s
      BY <1>2, <1>3, <1>5, <2>2, <3>1 DEF Node
    <3>3. Node(pp, Len(pp)) = p[Len(p)]
      BY <1>5, <3>1 DEF Node
    <3> QED
      BY <1>6, <3>2, <3>3
  <2> QED
    BY <2>1, <2>2
<1>8. \A i \in 1 .. Len(pp) : r.data[pp[i]] \in Mail
  BY <1>5, <1>6 DEF PathsOK
<1>9. PathsOK(r, pp, f, H \union {s})
  BY <1>2, <1>3, <1>4, <1>6, <1>7, <1>8 DEF PathsOK
<1>10. s \in Slot \ H
  BY <1>3 DEF PathsOK
<1>11. /\ q.data[s] \in Mail /\ Msgs(q, p) # <<>>
       /\ q.data[s] = Head(Msgs(q, p)) /\ Msgs(r, pp) = Tail(Msgs(q, p))
  <2>1. PICK ms : ms = Msgs(q, p)
    OBVIOUS
  <2>2. /\ ms \in Seq(Mail) /\ Len(ms) = Len(p)
        /\ \A i \in 1 .. Len(p) : ms[i] = q.data[p[i]]
    BY <1>5, <2>1 DEF Msgs, PathsOK
  <2>3. /\ ms # <<>> /\ Head(ms) = ms[1] /\ ms[1] = q.data[s] /\ ms[1] \in Mail
    BY <1>3, <1>5, <2>2
  <2>4. PICK mm : mm = Tail(ms)
    OBVIOUS
  <2>5. /\ mm \in Seq(Mail) /\ Len(mm) = Len(pp)
        /\ \A i \in 1 .. Len(pp) : mm[i] = ms[i + 1]
    BY <1>5, <2>2, <2>3, <2>4
  <2>6. \A i \in 1 .. Len(pp) : r.data[pp[i]] = mm[i]
    BY <1>5, <1>6, <2>2, <2>5
  <2>7. mm = [i \in 1 .. Len(pp) |-> mm[i]]
    BY <2>5
  <2>8. Msgs(r, pp) = mm
    BY <2>6, <2>7 DEF Msgs
  <2> QED
    BY <2>1, <2>3, <2>4, <2>8
<1> QED
  BY <1>1, <1>3, <1>4, <1>6, <1>9, <1>10, <1>11 DEF Drops

(* A slot in somebody's hands is freed.                                        *)
LEMMA QueueFrees ==
    ASSUME NEW q, NEW p, NEW f, NEW H, q \in QueueType, PathsOK(q, p, f, H), NEW s \in H,
           NEW r, r = FreeSlot(q, s)
    PROVE  /\ r \in QueueType /\ PathsOK(r, p, <<s>> \o f, H \ {s})
           /\ Len(<<s>> \o f) = Len(f) + 1 /\ r.entry = q.entry
           /\ SameSlots(r, q, H \ {s}) /\ Msgs(r, p) = Msgs(q, p)
<1>1. /\ IsNext(q.next) /\ IsData(q.data)
      /\ IsPath(q.next, q.head, p) /\ IsPath(q.next, q.free, f)
      /\ s \notin ToSet(p) /\ s \notin ToSet(f) /\ s \in Slot
      /\ q.tail = Node(p, Len(p))
  BY DEF PathsOK
<1>2. /\ r \in QueueType /\ r.head = q.head /\ r.tail = q.tail /\ r.entry = q.entry
      /\ r.free = s /\ r.data = [q.data EXCEPT ![s] = NoMail]
      /\ Relinks(r.next, q.next, s, q.free)
  <2>1. PICK n, d : n = [q.next EXCEPT ![s] = q.free] /\ d = [q.data EXCEPT ![s] = NoMail]
    OBVIOUS
  <2>2. n \in [Slot -> Slot \union {Null}] /\ d \in [Slot -> Mail \union {NoMail}]
    BY <1>1, <2>1, TypeParts DEF IsNext, IsData
  <2>3. r = [q EXCEPT !.next = n, !.free = s, !.data = d]
    BY <2>1 DEF FreeSlot
  <2>4. /\ r \in QueueType /\ r.head = q.head /\ r.tail = q.tail /\ r.entry = q.entry
        /\ r.free = s /\ r.data = d /\ r.next = n
    BY <1>1, <2>2, <2>3 DEF QueueType
  <2> QED
    BY ONLY <2>1, <2>4 DEF Relinks
<1>3. IsPath(r.next, r.head, p)
  BY <1>1, <1>2, PathApart
<1>4. PICK ff : ff = <<s>> \o f
  OBVIOUS
<1>5. /\ IsPath(r.next, s, ff) /\ ToSet(ff) = ToSet(f) \union {s} /\ Len(ff) = Len(f) + 1
  <2>1. PICK h, g, c : h = q.next /\ g = r.next /\ c = q.free
    OBVIOUS
  <2>2. /\ IsPath(h, c, f) /\ IsNext(h) /\ s \in Slot /\ s \notin ToSet(f)
        /\ Relinks(g, h, s, c)
    BY <1>1, <1>2, <2>1
  <2>3. /\ IsPath(g, s, <<s>> \o f) /\ ToSet(<<s>> \o f) = ToSet(f) \union {s}
        /\ Len(<<s>> \o f) = Len(f) + 1
    BY ONLY <2>2, PathFront
  <2> QED
    BY <1>4, <2>1, <2>3
<1>6. \A i \in 1 .. Len(p) : r.data[p[i]] = q.data[p[i]]
  BY <1>1, <1>2, OnThePath DEF IsPath, IsData
<1>7. PathsOK(r, p, ff, H \ {s})
  <2>1. IsNext(r.next) /\ IsData(r.data)
    BY <1>2, TypeParts
  <2>2. /\ ToSet(p) \intersect ToSet(ff) = {}
        /\ (ToSet(p) \union ToSet(ff)) \intersect (H \ {s}) = {}
        /\ Slot = ToSet(p) \union ToSet(ff) \union (H \ {s})
    BY <1>1, <1>5 DEF PathsOK
  <2>3. \A i \in 1 .. Len(p) : r.data[p[i]] \in Mail
    BY <1>6 DEF PathsOK
  <2> QED
    BY <1>1, <1>2, <1>3, <1>5, <2>1, <2>2, <2>3 DEF PathsOK
<1>8. SameSlots(r, q, H \ {s})
  BY <1>1, <1>2 DEF SameSlots, IsNext, IsData, Relinks, PathsOK
<1>9. Msgs(r, p) = Msgs(q, p)
  BY <1>6 DEF Msgs
<1> QED
  BY <1>2, <1>4, <1>5, <1>7, <1>8, <1>9


(* One round of the loop of RT_IPC_CMD_RESET.                                   *)
LEMMA FreeHeadKeeps ==
    ASSUME NEW q, NEW p, NEW f, NEW H, q \in QueueType, PathsOK(q, p, f, H),
           NEW r, r = FreeHead(q)
    PROVE  /\ r \in QueueType /\ SameSlots(r, q, H)
           /\ \E pp, ff : /\ PathsOK(r, pp, ff, H)
                          /\ Len(pp) = IF p = <<>> THEN 0 ELSE Len(p) - 1
<1>1. CASE q.head = Null
  <2>1. r = q /\ p = <<>> /\ Len(p) = 0
    BY <1>1, QueueParts, OnThePath DEF FreeHead
  <2> QED
    BY <2>1 DEF SameSlots
<1>2. CASE q.head # Null
  <2>1. PICK s, u, G : s = q.head /\ u = UnlinkHead(q) /\ G = H \union {s}
    OBVIOUS
  <2>2. /\ u \in QueueType /\ PathsOK(u, Tail(p), f, G) /\ s \notin H /\ p # <<>>
        /\ u.next = q.next /\ u.data = q.data /\ Len(Tail(p)) = Len(p) - 1
    BY <1>2, <2>1, QueueUnlinks
  <2>3. s \in G /\ G \ {s} = H /\ r = FreeSlot(u, s)
    BY <1>2, <2>1, <2>2 DEF FreeHead
  <2>4. /\ r \in QueueType /\ PathsOK(r, Tail(p), <<s>> \o f, H) /\ SameSlots(r, u, H)
    BY <2>2, <2>3, QueueFrees
  <2>5. SameSlots(r, q, H)
    BY <2>2, <2>4 DEF SameSlots
  <2>6. Len(Tail(p)) = IF p = <<>> THEN 0 ELSE Len(p) - 1
    BY <2>2
  <2> QED
    BY <2>4, <2>5, <2>6
<1> QED
  BY <1>1, <1>2

(* Each round leads from a queue to a queue.                                   *)
LEMMA FreeHeadType ==
    ASSUME NEW q \in QueueType PROVE FreeHead(q) \in QueueType
<1>1. CASE q.head = Null
  BY <1>1 DEF FreeHead
<1>2. CASE q.head # Null
  <2>1. q.head \in Slot /\ IsNext(q.next)
    BY <1>2, TypeParts
  <2>2. PICK u : u = UnlinkHead(q)
    OBVIOUS
  <2>3. u \in QueueType
    BY <2>1, <2>2 DEF UnlinkHead, QueueType, IsNext
  <2>4. FreeSlot(u, q.head) \in QueueType
    <3>1. PICK s : s = q.head
      OBVIOUS
    <3>2. PICK n, d : n = [u.next EXCEPT ![s] = u.free] /\ d = [u.data EXCEPT ![s] = NoMail]
      OBVIOUS
    <3>3. n \in [Slot -> Slot \union {Null}] /\ d \in [Slot -> Mail \union {NoMail}]
      BY <2>1, <2>3, <3>1, <3>2, TypeParts DEF IsNext, IsData
    <3>4. FreeSlot(u, s) = [u EXCEPT !.next = n, !.free = s, !.data = d]
      BY <3>2 DEF FreeSlot
    <3>5. FreeSlot(u, s) \in QueueType
      BY <2>1, <2>3, <3>1, <3>3, <3>4 DEF QueueType
    <3> QED
      BY <3>1, <3>5
  <2> QED
    BY <1>2, <2>2, <2>4 DEF FreeHead
<1> QED
  BY <1>1, <1>2

\* The queue u after n rounds of that loop, which started with q.
Freed(u, q, H, n) ==
    /\ u \in QueueType /\ SameSlots(u, q, H)
    /\ \E pp, ff : PathsOK(u, pp, ff, H) /\ (pp = <<>> \/ Len(pp) + n <= size)

(* That loop frees every message and touches no slot in somebody's hands.       *)
LEMMA QueueFreesAll ==
    ASSUME NEW q, NEW p, NEW f, NEW H, QueueOK(q, p, f, H), NEW r, r = FreeAll(q)
    PROVE  /\ \E g : QueueOK(r, <<>>, g, H)
           /\ SameSlots(r, q, H)
<1> DEFINE F(l) == [n \in 0 .. size |-> IF n = 0 THEN q ELSE FreeHead(l[n - 1])]
           L == CHOOSE l : l = F(l)
           Step == [n \in 1 .. size |-> [u \in QueueType |-> FreeHead(u)]]
<1>1. size \in Nat /\ q \in QueueType /\ PathsOK(q, p, f, H) /\ Len(p) \in 0 .. size
  BY SlotFacts, QueueParts DEF QueueOK
<1>2. PICK l : Rounds(l, q, size, QueueType, Step)
  <2>1. Step \in [1 .. size -> [QueueType -> QueueType]]
    BY FreeHeadType
  <2> HIDE DEF Step
  <2> QED
    BY <1>1, <2>1, RoundsExist
<1>3. l = F(l)
  <2>1. /\ l \in [0 .. size -> QueueType] /\ l[0] = q
        /\ \A n \in 1 .. size : l[n] = Step[n][l[n - 1]]
    BY <1>2 DEF Rounds
  <2>2. ASSUME NEW n \in 0 .. size PROVE l[n] = F(l)[n]
    <3>1. CASE n = 0
      BY <2>1, <3>1
    <3>2. CASE n # 0
      <4>1. n \in 1 .. size /\ n - 1 \in 0 .. size
        BY <1>1, <3>2
      <4>2. l[n - 1] \in QueueType
        BY <2>1, <4>1
      <4>3. Step[n][l[n - 1]] = FreeHead(l[n - 1])
        BY <4>1, <4>2
      <4> QED
        BY <2>1, <3>2, <4>1, <4>3
    <3> QED
      BY <3>1, <3>2
  <2> QED
    BY <2>1, <2>2
<1>4. L = F(L)
  <2> HIDE DEF F
  <2> QED
    BY <1>3
<1>5. r = [L[size] EXCEPT !.entry = 0]
  BY DEF FreeAll
<1> HIDE DEF L
<1>6. L[0] = q /\ \A n \in 1 .. size : L[n] = FreeHead(L[n - 1])
  <2>1. 0 \in 0 .. size
    BY <1>1
  <2>2. L[0] = F(L)[0] /\ \A n \in 1 .. size : L[n] = F(L)[n]
    BY <1>4
  <2>3. F(L)[0] = q
    BY <2>1
  <2>4. \A n \in 1 .. size : F(L)[n] = FreeHead(L[n - 1])
    BY <1>1
  <2> HIDE DEF F
  <2> QED
    BY <2>2, <2>3, <2>4
<1>7. Freed(L[size], q, H, size)
  <2> DEFINE G == {n \in 0 .. size : Freed(L[n], q, H, n)}
  <2>1. 0 \in G
    <3>1. Freed(q, q, H, 0)
      BY <1>1 DEF Freed, SameSlots
    <3> QED
      BY <1>1, <1>6, <3>1
  <2>2. ASSUME NEW n \in 1 .. size, n - 1 \in G PROVE n \in G
    <3>1. PICK u, v : u = L[n - 1] /\ v = L[n]
      OBVIOUS
    <3>2. v = FreeHead(u) /\ Freed(u, q, H, n - 1)
      BY <1>6, <2>2, <3>1
    <3>3. PICK pp, ff : PathsOK(u, pp, ff, H) /\ (pp = <<>> \/ Len(pp) + (n - 1) <= size)
      BY <3>2 DEF Freed
    <3>4. u \in QueueType /\ SameSlots(u, q, H)
      BY <3>2 DEF Freed
    <3>5. /\ v \in QueueType /\ SameSlots(v, u, H)
          /\ \E p2, f2 : /\ PathsOK(v, p2, f2, H)
                         /\ Len(p2) = IF pp = <<>> THEN 0 ELSE Len(pp) - 1
      BY ONLY <3>2, <3>3, <3>4, FreeHeadKeeps
    <3>6. PICK p2, f2 : /\ PathsOK(v, p2, f2, H)
                        /\ Len(p2) = IF pp = <<>> THEN 0 ELSE Len(pp) - 1
      BY <3>5
    <3>7. Len(pp) \in Nat /\ (p2 = <<>> <=> Len(p2) = 0)
      BY <3>3, <3>6, QueueParts, OnThePath
    <3>8. p2 = <<>> \/ Len(p2) + n <= size
      BY <1>1, <3>3, <3>6, <3>7
    <3>9. SameSlots(v, q, H)
      BY <3>4, <3>5 DEF SameSlots
    <3>10. Freed(v, q, H, n)
      BY <3>5, <3>6, <3>8, <3>9 DEF Freed
    <3> QED
      BY <1>1, <3>1, <3>10
  <2> HIDE DEF G
  <2>3. size \in G
    BY <1>1, <2>1, <2>2, CountUp
  <2> QED
    BY <2>3 DEF G
<1>8. PICK u : u = L[size]
  OBVIOUS
<1>9. PICK pp, ff : PathsOK(u, pp, ff, H) /\ (pp = <<>> \/ Len(pp) + size <= size)
  BY <1>7, <1>8 DEF Freed
<1>10. u \in QueueType /\ SameSlots(u, q, H)
  BY <1>7, <1>8 DEF Freed
<1>11. pp = <<>>
  <2>1. Len(pp) \in 0 .. size /\ (pp = <<>> <=> Len(pp) = 0)
    BY <1>9, QueueParts, OnThePath
  <2> QED
    BY <1>1, <1>9, <2>1
<1>12. /\ r \in QueueType /\ r.next = u.next /\ r.data = u.data /\ r.head = u.head
       /\ r.tail = u.tail /\ r.free = u.free /\ r.entry = 0
  <2>1. 0 \in 0 .. size /\ r = [u EXCEPT !.entry = 0]
    BY <1>1, <1>5, <1>8
  <2> QED
    BY <1>10, <2>1 DEF QueueType
<1>13. QueueOK(r, <<>>, ff, H)
  <2>1. PathsOK(r, <<>>, ff, H)
    BY <1>9, <1>11, <1>12 DEF PathsOK
  <2>2. Len(<<>>) = 0
    OBVIOUS
  <2> QED
    BY <1>12, <2>1, <2>2 DEF QueueOK
<1>14. SameSlots(r, q, H)
  BY <1>10, <1>12 DEF SameSlots
<1> QED
  BY <1>13, <1>14
-----------------------------------------------------------------------------
(* The message queue: the slots in the hands of threads *)

\* The points at which a thread has a slot in its hands.
Grips == {"fill", "ufill", "link", "ulink", "copy", "free"}

GripOK(t) ==
    /\ slot[t] # Null <=> pc[t] \in Grips
    /\ pc[t] \in Grips \ {"free"} => value[t] \in Mail
    /\ pc[t] \in {"link", "ulink", "copy"} => mq.data[slot[t]] = value[t]
    /\ pc[t] = "link" => mq.next[slot[t]] = Null

MqOK ==
    /\ QueueOK(mq, Queued, FreeSlots, InHand)
    /\ slot \in [Thread -> Slot \union {Null}] /\ mq_last \in Mail \union {NoMail}
    /\ \A t, u \in Thread : slot[t] = slot[u] /\ slot[t] # Null => t = u
    /\ \A t \in Thread : GripOK(t)

\* What is left to show after a step: the slots are listed by p and f.
Lists2(p, f) == MqOK' /\ Queued' = p /\ FreeSlots' = f

(* The lists after a step.                                                    *)
LEMMA QueuedAfter ==
    ASSUME NEW p, NEW f, NEW H, QueueOK(mq', p, f, H)
    PROVE  Queued' = p /\ FreeSlots' = f
<1>1. IsPath(mq'.next, mq'.head, p) /\ IsPath(mq'.next, mq'.free, f)
  BY DEF QueueOK, PathsOK
<1>2. Chain(mq', mq'.head) = p /\ Chain(mq', mq'.free) = f
  BY <1>1, ChainIs
<1> QED
  BY <1>2 DEF Queued, FreeSlots

(* A step that leaves the slots in the hands of threads where they are.         *)
LEMMA MqUntouched ==
    ASSUME MqOK, slot' = slot, SameSlots(mq', mq, InHand), mq_last' \in Mail \union {NoMail},
           \A u \in Thread : \/ pc'[u] = pc[u] /\ value'[u] = value[u]
                             \/ pc[u] \notin Grips /\ pc'[u] \notin Grips,
           NEW p, NEW f, QueueOK(mq', p, f, InHand)
    PROVE  Lists2(p, f)
<1>1. Queued' = p /\ FreeSlots' = f
  BY QueuedAfter
<1>2. InHand' = InHand
  BY DEF InHand
<1>3. ASSUME NEW u \in Thread PROVE GripOK(u)'
  <2>1. GripOK(u) /\ (slot[u] # Null => slot[u] \in InHand)
    BY DEF MqOK, InHand
  <2>2. CASE pc'[u] = pc[u] /\ value'[u] = value[u]
    BY <2>1, <2>2 DEF GripOK, SameSlots, Grips
  <2>3. CASE pc[u] \notin Grips /\ pc'[u] \notin Grips
    BY <2>1, <2>3 DEF GripOK, Grips
  <2> QED
    BY <2>2, <2>3
<1>4. QueueOK(mq', Queued', FreeSlots', InHand')
  BY <1>1, <1>2
<1>5. MqOK'
  BY <1>3, <1>4 DEF MqOK
<1> QED
  BY <1>1, <1>5 DEF Lists2

(* A step of thread t, which then has slot x in its hands, or none.             *)
LEMMA MqMoves ==
    ASSUME MqOK, NEW t \in Thread, NEW x \in Slot \union {Null},
           slot' = [slot EXCEPT ![t] = x], x \notin InHand \ {slot[t]},
           SameSlots(mq', mq, InHand \ {slot[t]}), mq_last' \in Mail \union {NoMail},
           \A u \in Thread \ {t} : pc'[u] = pc[u] /\ value'[u] = value[u],
           GripOK(t)', NEW p, NEW f,
           QueueOK(mq', p, f, (InHand \ {slot[t]}) \union ({x} \ {Null}))
    PROVE  Lists2(p, f)
<1>1. Queued' = p /\ FreeSlots' = f
  BY QueuedAfter
<1>2. /\ slot \in [Thread -> Slot \union {Null}]
      /\ \A u, w \in Thread : slot[u] = slot[w] /\ slot[u] # Null => u = w
      /\ \A u \in Thread : GripOK(u)
  BY DEF MqOK
<1>3. /\ slot' \in [Thread -> Slot \union {Null}] /\ slot'[t] = x
      /\ \A u \in Thread \ {t} : slot'[u] = slot[u]
  BY <1>2
<1>4. \A u \in Thread \ {t} : slot[u] # Null => slot[u] \in InHand \ {slot[t]}
  BY <1>2 DEF InHand
<1>5. InHand' = (InHand \ {slot[t]}) \union ({x} \ {Null})
  <2>1. ASSUME NEW s \in InHand' PROVE s \in (InHand \ {slot[t]}) \union ({x} \ {Null})
    <3>1. PICK u \in Thread : s = slot'[u] /\ s # Null
      BY <2>1 DEF InHand
    <3> QED
      BY <1>3, <1>4, <3>1
  <2>2. ASSUME NEW s \in InHand \ {slot[t]} PROVE s \in InHand'
    <3>1. PICK u \in Thread : s = slot[u] /\ s # Null
      BY <2>2 DEF InHand
    <3>2. u # t
      BY <2>2, <3>1
    <3> QED
      BY <1>3, <3>1, <3>2 DEF InHand
  <2>3. ASSUME x # Null PROVE x \in InHand'
    BY <1>3, <2>3 DEF InHand
  <2> QED
    BY <2>1, <2>2, <2>3
<1>6. \A u, w \in Thread : slot'[u] = slot'[w] /\ slot'[u] # Null => u = w
  BY <1>2, <1>3, <1>4
<1>7. ASSUME NEW u \in Thread \ {t} PROVE GripOK(u)'
  <2>1. /\ GripOK(u) /\ pc'[u] = pc[u] /\ value'[u] = value[u] /\ slot'[u] = slot[u]
        /\ slot[u] # Null => /\ mq'.data[slot[u]] = mq.data[slot[u]]
                             /\ mq'.next[slot[u]] = mq.next[slot[u]]
    BY <1>2, <1>3, <1>4 DEF SameSlots
  <2> QED
    BY <2>1 DEF GripOK, Grips
<1>8. QueueOK(mq', Queued', FreeSlots', InHand')
  BY <1>1, <1>5
<1>9. MqOK'
  BY <1>3, <1>6, <1>7, <1>8 DEF MqOK
<1> QED
  BY <1>1, <1>9 DEF Lists2

\* The slots behave, and the messages in them are those of the channel.
MqStep == MqOK' /\ [MqChannel!Next]_<<Messages, mq_last>>

(* The messages of the queue, before and after a step.                         *)
LEMMA MessagesAre ==
    /\ MqOK => /\ Messages = Msgs(mq, Queued) /\ Len(Messages) = Len(Queued)
               /\ mq.entry = Len(Queued)
    /\ MqOK' => Messages' = Msgs(mq', Queued')
<1>1. MqOK => Queued \in Seq(Slot) /\ mq.entry = Len(Queued)
  BY QueueParts DEF MqOK, QueueOK
<1>2. MqOK' => Queued' \in Seq(Slot)
  <2> SUFFICES ASSUME MqOK' PROVE Queued' \in Seq(Slot)
    OBVIOUS
  <2>1. PathsOK(mq', Queued', FreeSlots', InHand')
    BY DEF MqOK, QueueOK
  <2> QED
    BY <2>1, QueueParts
<1>3. ASSUME MqOK PROVE Messages = Msgs(mq, Queued) /\ Len(Messages) = Len(Queued)
  BY <1>1, <1>3 DEF Messages, Msgs
<1>4. ASSUME MqOK' PROVE Messages' = Msgs(mq', Queued')
  BY <1>2, <1>4 DEF Messages, Msgs
<1> QED
  BY <1>1, <1>3, <1>4

(* A sender takes a slot off the free list.                                    *)
LEMMA MqGrabs ==
    ASSUME MqOK, NEW t \in Thread, pc[t] \notin Grips, mq.free # Null,
           mq' = TakeFree(mq), slot' = [slot EXCEPT ![t] = mq.free], mq_last' = mq_last,
           \A u \in Thread \ {t} : pc'[u] = pc[u] /\ value'[u] = value[u],
           pc'[t] \in {"fill", "ufill"}, value'[t] \in Mail
    PROVE  MqStep /\ Queued' = Queued /\ Len(FreeSlots') = Len(FreeSlots) - 1
<1>1. PICK H, x, p, f : H = InHand /\ x = mq.free /\ p = Queued /\ f = FreeSlots
  OBVIOUS
<1>2. /\ QueueOK(mq, p, f, H) /\ GripOK(t) /\ slot[t] = Null /\ Null \notin H
      /\ slot \in [Thread -> Slot \union {Null}]
  BY <1>1 DEF MqOK, GripOK, InHand
<1>3. /\ x \in Slot \ H /\ QueueOK(mq', p, Tail(f), H \union {x})
      /\ Len(Tail(f)) = Len(f) - 1 /\ mq'.next = mq.next /\ mq'.data = mq.data
  <2>1. PICK q, r : q = mq /\ r = mq'
    OBVIOUS
  <2>2. QueueOK(q, p, f, H) /\ q.free # Null /\ r = TakeFree(q)
    BY <1>2, <2>1
  <2>3. /\ f # <<>> /\ q.free \in Slot \ H
        /\ QueueOK(r, p, Tail(f), H \union {q.free}) /\ Len(Tail(f)) = Len(f) - 1
        /\ r.next = q.next /\ r.data = q.data
    BY ONLY <2>2, QueueTakesFree
  <2> QED
    BY <1>1, <2>1, <2>3
<1>4. /\ InHand \ {slot[t]} = H /\ H \union {x} = (InHand \ {slot[t]}) \union ({x} \ {Null})
      /\ x \notin InHand \ {slot[t]} /\ x # Null
  BY <1>1, <1>2, <1>3, SlotFacts
<1>5. SameSlots(mq', mq, InHand \ {slot[t]})
  BY <1>3 DEF SameSlots
<1>6. GripOK(t)'
  BY <1>1, <1>2, <1>3, <1>4 DEF GripOK, Grips
<1>7. Lists2(p, Tail(f))
  <2>1. x \in Slot \union {Null} /\ slot' = [slot EXCEPT ![t] = x]
        /\ mq_last' \in Mail \union {NoMail}
        /\ QueueOK(mq', p, Tail(f), (InHand \ {slot[t]}) \union ({x} \ {Null}))
    BY <1>1, <1>3, <1>4 DEF MqOK
  <2> QED
    BY <1>4, <1>5, <1>6, <2>1, MqMoves
<1>8. Messages' = Messages
  <2>1. Messages = Msgs(mq, p) /\ Messages' = Msgs(mq', p)
    BY <1>1, <1>7, MessagesAre DEF Lists2
  <2> QED
    BY <1>3, <2>1 DEF Msgs
<1> QED
  BY <1>1, <1>3, <1>7, <1>8 DEF Lists2, MqStep

(* It copies its message into that slot.                                       *)
LEMMA MqFills ==
    ASSUME MqOK, NEW t \in Thread, SendFill(t), pc \in [Thread -> MqPoint]
    PROVE  MqStep /\ Queued' = Queued /\ FreeSlots' = FreeSlots
<1>1. PICK H, x, v, p, f :
          H = InHand /\ x = slot[t] /\ v = value[t] /\ p = Queued /\ f = FreeSlots
  OBVIOUS
<1>2. /\ QueueOK(mq, p, f, H) /\ GripOK(t) /\ pc[t] \in {"fill", "ufill"}
      /\ slot \in [Thread -> Slot \union {Null}] /\ x # Null
  BY <1>1 DEF MqOK, GripOK, SendFill, At, Grips
<1>3. x \in H /\ v \in Mail /\ Null \notin H
  BY <1>1, <1>2 DEF GripOK, Grips, InHand
<1>4. /\ mq' = FillTail(mq, x, v) \/ mq' = Fill(mq, x, v)
      /\ pc' = [pc EXCEPT ![t] = pc'[t]] /\ pc'[t] \in {"link", "ulink"}
      /\ pc'[t] = "link" => mq' = FillTail(mq, x, v)
      /\ value' = value /\ slot' = slot /\ mq_last' = mq_last
  BY <1>1 DEF SendFill, Goto, hands
<1>5. /\ QueueOK(mq', p, f, H) /\ mq'.data[x] = v /\ SameSlots(mq', mq, H \ {x})
      /\ mq' = FillTail(mq, x, v) => mq'.next[x] = Null
      /\ Msgs(mq', p) = Msgs(mq, p)
  BY <1>2, <1>3, <1>4, QueueFills
<1>6. GripOK(t)'
  BY <1>1, <1>2, <1>3, <1>4, <1>5 DEF GripOK, Grips
<1>7. Lists2(p, f)
  <2>1. /\ x \in Slot \union {Null} /\ slot' = [slot EXCEPT ![t] = x]
        /\ mq_last' \in Mail \union {NoMail} /\ x \notin InHand \ {slot[t]}
        /\ SameSlots(mq', mq, InHand \ {slot[t]})
        /\ \A u \in Thread \ {t} : pc'[u] = pc[u] /\ value'[u] = value[u]
    BY <1>1, <1>2, <1>4, <1>5 DEF MqOK
  <2>2. H = (InHand \ {slot[t]}) \union ({x} \ {Null})
    BY <1>1, <1>2, <1>3
  <2>3. QueueOK(mq', p, f, (InHand \ {slot[t]}) \union ({x} \ {Null}))
    BY <1>5, <2>2
  <2> QED
    BY <1>6, <2>1, <2>3, MqMoves
<1>8. Messages' = Messages
  <2>1. Messages = Msgs(mq, p) /\ Messages' = Msgs(mq', p)
    BY <1>1, <1>7, MessagesAre DEF Lists2
  <2> QED
    BY <1>5, <2>1
<1> QED
  BY <1>1, <1>4, <1>7, <1>8 DEF Lists2, MqStep

(* It links the slot: the message is sent.                                     *)
LEMMA MqLinks ==
    ASSUME MqOK, NEW t \in Thread, SendLink(t), pc \in [Thread -> MqPoint], HandsTypeOK
    PROVE  /\ MqStep /\ mq'.entry = mq.entry + 1
           /\ Len(FreeSlots') = Len(FreeSlots)
<1>1. PICK H, x, v, p, f :
          H = InHand /\ x = slot[t] /\ v = value[t] /\ p = Queued /\ f = FreeSlots
  OBVIOUS
<1>2. /\ QueueOK(mq, p, f, H) /\ GripOK(t) /\ pc[t] \in {"link", "ulink"}
      /\ slot \in [Thread -> Slot \union {Null}] /\ x # Null
  BY <1>1 DEF MqOK, GripOK, SendLink, At, Grips
<1>3. x \in H /\ v \in Mail /\ Null \notin H /\ mq.data[x] = v
  BY <1>1, <1>2 DEF GripOK, Grips, InHand
<1>4. /\ \/ mq' = LinkTail(mq, x) /\ pc[t] = "link"
         \/ mq' = LinkHead(mq, x)
      /\ slot' = [slot EXCEPT ![t] = Null] /\ mq_last' = mq_last
      /\ Wake(t, "mq_receivers") /\ EmptyHands(t)
  BY <1>1 DEF SendLink, At
<1>5. PICK c : c \in {"run", "schedule"} /\ Leave(t, c)
  BY <1>4 DEF Wake
<1>6. /\ pc'[t] = c /\ \A u \in Thread \ {t} : pc'[u] = pc[u] /\ value'[u] = value[u]
  BY <1>4, <1>5 DEF Leave, EmptyHands, Hold, HandsTypeOK
<1>7. PICK pp : /\ pp = Append(p, x) \/ pp = <<x>> \o p
                /\ QueueOK(mq', pp, f, H \ {x}) /\ SameSlots(mq', mq, H \ {x})
                /\ Len(p) < size
                /\ \/ Msgs(mq', pp) = Append(Msgs(mq, p), v)
                   \/ Msgs(mq', pp) = <<v>> \o Msgs(mq, p)
  <2>1. CASE mq' = LinkTail(mq, x) /\ pc[t] = "link"
    <3>1. mq.next[x] = Null
      BY <1>1, <1>2, <2>1 DEF GripOK
    <3>2. PICK q, r, y : q = mq /\ r = mq' /\ y = Append(p, x)
      OBVIOUS
    <3>3. /\ QueueOK(q, p, f, H) /\ x \in H /\ q.next[x] = Null /\ q.data[x] \in Mail
          /\ r = LinkTail(q, x)
      BY <1>2, <1>3, <2>1, <3>1, <3>2
    <3>4. /\ QueueOK(r, Append(p, x), f, H \ {x}) /\ SameSlots(r, q, H \ {x})
          /\ Len(p) < size /\ Msgs(r, Append(p, x)) = Append(Msgs(q, p), q.data[x])
      BY ONLY <3>3, QueueLinksTail
    <3>5. /\ QueueOK(mq', y, f, H \ {x}) /\ SameSlots(mq', mq, H \ {x})
          /\ Len(p) < size /\ Msgs(mq', y) = Append(Msgs(mq, p), v)
      BY <1>3, <3>2, <3>4
    <3> QED
      BY <3>2, <3>5
  <2>2. CASE mq' = LinkHead(mq, x)
    <3>1. PICK q, r, y : q = mq /\ r = mq' /\ y = <<x>> \o p
      OBVIOUS
    <3>2. /\ QueueOK(q, p, f, H) /\ x \in H /\ q.data[x] \in Mail /\ r = LinkHead(q, x)
      BY <1>2, <1>3, <2>2, <3>1
    <3>3. /\ QueueOK(r, <<x>> \o p, f, H \ {x}) /\ SameSlots(r, q, H \ {x})
          /\ Len(p) < size /\ Leads(Msgs(r, <<x>> \o p), q.data[x], Msgs(q, p))
      BY ONLY <3>2, QueueLinksHead
    <3>4. /\ QueueOK(mq', y, f, H \ {x}) /\ SameSlots(mq', mq, H \ {x})
          /\ Len(p) < size /\ Msgs(mq', y) = <<v>> \o Msgs(mq, p)
      BY <1>3, <3>1, <3>3 DEF Leads
    <3> QED
      BY <3>1, <3>4
  <2> QED
    BY <1>4, <2>1, <2>2
<1>8. Len(pp) = Len(p) + 1
  <2>1. p \in Seq(Slot) /\ x \in Slot
    BY <1>2, <1>3, QueueParts DEF QueueOK
  <2> QED
    BY <1>7, <2>1
<1>9. GripOK(t)'
  BY <1>2, <1>4, <1>5, <1>6 DEF GripOK, Grips
<1>10. Lists2(pp, f)
  <2>1. /\ Null \in Slot \union {Null} /\ Null \notin InHand \ {slot[t]}
        /\ mq_last' \in Mail \union {NoMail}
        /\ SameSlots(mq', mq, InHand \ {slot[t]})
        /\ H \ {x} = (InHand \ {slot[t]}) \union ({Null} \ {Null})
    BY <1>1, <1>3, <1>4, <1>7 DEF MqOK
  <2>2. QueueOK(mq', pp, f, (InHand \ {slot[t]}) \union ({Null} \ {Null}))
    BY <1>7, <2>1
  <2> QED
    BY <1>4, <1>6, <1>9, <2>1, <2>2, MqMoves
<1>11. Messages = Msgs(mq, p) /\ Messages' = Msgs(mq', pp) /\ Len(Messages) = Len(p)
       /\ mq.entry = Len(p)
  BY <1>1, <1>10, MessagesAre DEF Lists2
<1>12. MqChannel!Next
  BY <1>3, <1>4, <1>7, <1>11 DEF MqChannel!Next, MqChannel!Send, MqChannel!Urgent
<1>13. mq'.entry = Len(pp)
  BY <1>7 DEF QueueOK
<1> QED
  BY <1>1, <1>8, <1>10, <1>11, <1>12, <1>13 DEF Lists2, MqStep

(* A receiver takes the first message out of the queue.                        *)
LEMMA MqTakes ==
    ASSUME MqOK, NEW t \in Thread, pc[t] \notin Grips, mq.entry > 0,
           mq' = TakeHead(mq), slot' = [slot EXCEPT ![t] = mq.head],
           mq_last' = mq.data[mq.head],
           \A u \in Thread \ {t} : pc'[u] = pc[u] /\ value'[u] = value[u],
           pc'[t] = "copy", value'[t] = mq.data[mq.head]
    PROVE  /\ MqStep /\ mq'.entry = mq.entry - 1 /\ FreeSlots' = FreeSlots
           /\ mq.data[mq.head] \in Mail
<1>1. PICK H, x, p, f, u, q : /\ H = InHand /\ x = mq.head /\ p = Queued /\ f = FreeSlots
                              /\ u = UnlinkHead(mq) /\ q = mq
  OBVIOUS
<1>2. /\ q \in QueueType /\ PathsOK(q, p, f, H) /\ q.entry = Len(p)
      /\ GripOK(t) /\ slot[t] = Null /\ Null \notin H
      /\ slot \in [Thread -> Slot \union {Null}]
  BY <1>1 DEF MqOK, QueueOK, GripOK, InHand
<1>3. q.head # Null /\ Len(p) \in 0 .. size /\ size \in Nat
  <2>1. Len(p) \in 0 .. size /\ size \in Nat /\ (p = <<>> <=> Len(p) = 0)
        /\ (q.head = Null <=> p = <<>>)
    BY <1>2, QueueParts, OnThePath, SlotFacts
  <2> QED
    BY <1>1, <1>2, <2>1
<1>4. /\ u \in QueueType /\ PathsOK(u, Tail(p), f, H \union {q.head})
      /\ p # <<>> /\ q.head \in Slot \ H /\ Len(Tail(p)) = Len(p) - 1
      /\ u.next = q.next /\ u.data = q.data /\ u.entry = q.entry
      /\ q.data[q.head] \in Mail /\ Msgs(q, p) # <<>>
      /\ q.data[q.head] = Head(Msgs(q, p)) /\ Msgs(u, Tail(p)) = Tail(Msgs(q, p))
  <2>1. u = UnlinkHead(q)
    BY <1>1
  <2>2. /\ u \in QueueType /\ PathsOK(u, Tail(p), f, H \union {q.head})
        /\ p # <<>> /\ q.head \in Slot \ H /\ Len(Tail(p)) = Len(p) - 1
        /\ u.next = q.next /\ u.data = q.data /\ u.entry = q.entry
        /\ q.data[q.head] \in Mail /\ Msgs(q, p) # <<>>
        /\ q.data[q.head] = Head(Msgs(q, p)) /\ Drops(Msgs(u, Tail(p)), Msgs(q, p))
    BY ONLY <1>2, <1>3, <2>1, QueueUnlinks
  <2> QED
    BY ONLY <2>2 DEF Drops
<1>5. PICK r : r = mq'
  OBVIOUS
<1>6. /\ r \in QueueType /\ r.next = u.next /\ r.data = u.data /\ r.head = u.head
      /\ r.tail = u.tail /\ r.free = u.free /\ r.entry = Len(p) - 1
  <2>1. r = [u EXCEPT !.entry = u.entry - 1]
    BY <1>1, <1>5 DEF TakeHead
  <2>2. u.entry - 1 = Len(p) - 1 /\ Len(p) - 1 \in 0 .. size
    BY <1>1, <1>2, <1>3, <1>4
  <2> QED
    BY <1>4, <2>1, <2>2 DEF QueueType
<1>7. QueueOK(mq', Tail(p), f, H \union {x})
  <2>1. PathsOK(r, Tail(p), f, H \union {q.head})
    BY ONLY <1>4, <1>6 DEF PathsOK
  <2> QED
    BY <1>1, <1>4, <1>5, <1>6, <2>1 DEF QueueOK
<1>8. mq'.next = mq.next /\ mq'.data = mq.data /\ mq.data[x] \in Mail /\ x \in Slot \ H
  BY <1>1, <1>4, <1>5, <1>6
<1>9. /\ InHand \ {slot[t]} = H /\ H \union {x} = (InHand \ {slot[t]}) \union ({x} \ {Null})
      /\ x \notin InHand \ {slot[t]} /\ x # Null
  BY <1>1, <1>2, <1>8, SlotFacts
<1>10. SameSlots(mq', mq, InHand \ {slot[t]})
  BY <1>8 DEF SameSlots
<1>11. GripOK(t)'
  BY <1>1, <1>2, <1>8, <1>9 DEF GripOK, Grips
<1>12. Lists2(Tail(p), f)
  <2>1. x \in Slot \union {Null} /\ slot' = [slot EXCEPT ![t] = x]
        /\ mq_last' \in Mail \union {NoMail}
        /\ QueueOK(mq', Tail(p), f, (InHand \ {slot[t]}) \union ({x} \ {Null}))
    BY <1>1, <1>7, <1>8, <1>9 DEF MqOK
  <2> QED
    BY <1>9, <1>10, <1>11, <2>1, MqMoves
<1>13. Messages = Msgs(q, p) /\ Messages' = Msgs(u, Tail(p))
  <2>1. Messages = Msgs(mq, p) /\ Messages' = Msgs(mq', Tail(p))
    BY <1>1, <1>12, MessagesAre DEF Lists2
  <2> QED
    BY <1>1, <1>5, <1>6, <2>1 DEF Msgs
<1>14. MqChannel!Next
  BY <1>1, <1>4, <1>13 DEF MqChannel!Next, MqChannel!Receive
<1> QED
  BY <1>1, <1>2, <1>5, <1>6, <1>8, <1>12, <1>14 DEF Lists2, MqStep

(* It copies the message out of the slot.                                      *)
LEMMA MqCopies ==
    ASSUME MqOK, NEW t \in Thread, RecvCopy(t), pc \in [Thread -> MqPoint], HandsTypeOK
    PROVE  MqStep /\ mq' = mq /\ FreeSlots' = FreeSlots
<1>1. PICK H, x, p, f : H = InHand /\ x = slot[t] /\ p = Queued /\ f = FreeSlots
  OBVIOUS
<1>2. /\ QueueOK(mq, p, f, H) /\ GripOK(t) /\ pc[t] = "copy"
      /\ slot \in [Thread -> Slot \union {Null}] /\ x # Null
  BY <1>1 DEF MqOK, GripOK, RecvCopy, At, Grips
<1>3. /\ mq' = mq /\ slot' = slot /\ mq_last' = mq_last /\ pc'[t] = "free"
      /\ \A u \in Thread \ {t} : pc'[u] = pc[u] /\ value'[u] = value[u]
  BY DEF RecvCopy, msgqueue, Goto, EmptyHands, Hold, HandsTypeOK
<1>4. x \in H /\ Null \notin H
  BY <1>1, <1>2 DEF InHand
<1>5. GripOK(t)'
  BY <1>1, <1>2, <1>3 DEF GripOK, Grips
<1>6. Lists2(p, f)
  <2>1. /\ x \in Slot \union {Null} /\ slot' = [slot EXCEPT ![t] = x]
        /\ mq_last' \in Mail \union {NoMail} /\ x \notin InHand \ {slot[t]}
        /\ SameSlots(mq', mq, InHand \ {slot[t]})
    BY <1>1, <1>2, <1>3 DEF MqOK, SameSlots
  <2>2. H = (InHand \ {slot[t]}) \union ({x} \ {Null})
    BY <1>1, <1>2, <1>4
  <2>3. QueueOK(mq', p, f, (InHand \ {slot[t]}) \union ({x} \ {Null}))
    BY <1>2, <1>3, <2>2
  <2> QED
    BY <1>3, <1>5, <2>1, <2>3, MqMoves
<1>7. Messages' = Messages
  BY <1>1, <1>3, <1>6, MessagesAre DEF Lists2
<1> QED
  BY <1>1, <1>3, <1>6, <1>7 DEF Lists2, MqStep

(* It frees the slot.                                                         *)
LEMMA MqFrees ==
    ASSUME MqOK, NEW t \in Thread, RecvFree(t), pc \in [Thread -> MqPoint]
    PROVE  MqStep /\ mq'.entry = mq.entry /\ Len(FreeSlots') = Len(FreeSlots) + 1
<1>1. PICK H, x, p, f : H = InHand /\ x = slot[t] /\ p = Queued /\ f = FreeSlots
  OBVIOUS
<1>2. /\ mq \in QueueType /\ PathsOK(mq, p, f, H) /\ mq.entry = Len(p)
      /\ GripOK(t) /\ pc[t] = "free"
      /\ slot \in [Thread -> Slot \union {Null}] /\ x # Null
  BY <1>1 DEF MqOK, QueueOK, GripOK, RecvFree, At, Grips
<1>3. /\ mq' = FreeSlot(mq, x) /\ slot' = [slot EXCEPT ![t] = Null] /\ mq_last' = mq_last
      /\ Wake(t, "mq_senders") /\ value' = value
  BY <1>1 DEF RecvFree, hands
<1>4. PICK c : c \in {"run", "schedule"} /\ Leave(t, c)
  BY <1>3 DEF Wake
<1>5. /\ pc'[t] = c /\ \A u \in Thread \ {t} : pc'[u] = pc[u] /\ value'[u] = value[u]
  BY <1>3, <1>4 DEF Leave
<1>6. x \in H /\ Null \notin H
  BY <1>1, <1>2 DEF InHand
<1>7. /\ mq' \in QueueType /\ PathsOK(mq', p, <<x>> \o f, H \ {x})
      /\ Len(<<x>> \o f) = Len(f) + 1 /\ mq'.entry = mq.entry
      /\ SameSlots(mq', mq, H \ {x}) /\ Msgs(mq', p) = Msgs(mq, p)
  BY <1>2, <1>3, <1>6, QueueFrees
<1>8. QueueOK(mq', p, <<x>> \o f, H \ {x})
  BY <1>2, <1>7 DEF QueueOK
<1>9. GripOK(t)'
  BY <1>2, <1>3, <1>4, <1>5 DEF GripOK, Grips
<1>10. Lists2(p, <<x>> \o f)
  <2>1. /\ Null \in Slot \union {Null} /\ Null \notin InHand \ {slot[t]}
        /\ mq_last' \in Mail \union {NoMail}
        /\ SameSlots(mq', mq, InHand \ {slot[t]})
        /\ H \ {x} = (InHand \ {slot[t]}) \union ({Null} \ {Null})
    BY <1>1, <1>3, <1>6, <1>7 DEF MqOK
  <2>2. QueueOK(mq', p, <<x>> \o f, (InHand \ {slot[t]}) \union ({Null} \ {Null}))
    BY <1>8, <2>1
  <2> QED
    BY <1>3, <1>5, <1>9, <2>1, <2>2, MqMoves
<1>11. Messages' = Messages
  <2>1. Messages = Msgs(mq, p) /\ Messages' = Msgs(mq', p)
    BY <1>1, <1>10, MessagesAre DEF Lists2
  <2> QED
    BY <1>7, <2>1
<1> QED
  BY <1>1, <1>3, <1>7, <1>10, <1>11 DEF Lists2, MqStep

\* The queue r is the queue q after a whole send, or urgent send, of v.
IsSent(r, q, v) ==
    \/ r = LinkTail(FillTail(TakeFree(q), q.free, v), q.free)
    \/ r = LinkHead(Fill(TakeFree(q), q.free, v), q.free)

(* A send from end to end, as an interrupt handler makes it.                    *)
LEMMA QueueSends ==
    ASSUME NEW q, NEW p, NEW f, NEW H, QueueOK(q, p, f, H), q.free # Null,
           NEW v \in Mail, NEW r, IsSent(r, q, v)
    PROVE  \E y : /\ QueueOK(r, y, Tail(f), H) /\ SameSlots(r, q, H)
                  /\ Len(p) < size /\ Len(y) = Len(p) + 1 /\ Len(Tail(f)) = Len(f) - 1
                  /\ \/ Msgs(r, y) = Append(Msgs(q, p), v)
                     \/ Leads(Msgs(r, y), v, Msgs(q, p))
<1>1. PICK s, a, G : s = q.free /\ a = TakeFree(q) /\ G = H \union {s}
  OBVIOUS
<1>2. /\ f # <<>> /\ s \in Slot \ H /\ QueueOK(a, p, Tail(f), G)
      /\ Len(Tail(f)) = Len(f) - 1 /\ a.next = q.next /\ a.data = q.data
  <2>1. /\ f # <<>> /\ q.free \in Slot \ H
        /\ QueueOK(a, p, Tail(f), H \union {q.free}) /\ Len(Tail(f)) = Len(f) - 1
        /\ a.next = q.next /\ a.data = q.data
    BY <1>1, QueueTakesFree
  <2> QED
    BY ONLY <1>1, <2>1
<1>3. s \in G /\ G \ {s} = H /\ s \in Slot /\ p \in Seq(Slot)
  <2>1. PathsOK(a, p, Tail(f), G)
    BY <1>2 DEF QueueOK
  <2> QED
    BY <1>1, <1>2, <2>1, QueueParts
<1>4. Msgs(a, p) = Msgs(q, p)
  BY <1>2 DEF Msgs
<1>5. Len(Append(p, s)) = Len(p) + 1 /\ Len(<<s>> \o p) = Len(p) + 1
  BY <1>3
<1>6. CASE r = LinkTail(FillTail(a, s, v), s)
  <2>1. PICK b : b = FillTail(a, s, v)
    OBVIOUS
  <2>2. /\ QueueOK(b, p, Tail(f), G) /\ b.data[s] = v /\ SameSlots(b, a, G \ {s})
        /\ b.next[s] = Null /\ Msgs(b, p) = Msgs(a, p)
    BY <1>2, <1>3, <2>1, QueueFills
  <2>3. r = LinkTail(b, s) /\ b.data[s] \in Mail
    BY <1>6, <2>1, <2>2
  <2>4. /\ QueueOK(r, Append(p, s), Tail(f), G \ {s}) /\ SameSlots(r, b, G \ {s})
        /\ Len(p) < size /\ Msgs(r, Append(p, s)) = Append(Msgs(b, p), b.data[s])
    <3>1. PICK g : g = Tail(f)
      OBVIOUS
    <3>2. /\ QueueOK(b, p, g, G) /\ s \in G /\ b.next[s] = Null /\ b.data[s] \in Mail
          /\ r = LinkTail(b, s)
      BY <1>3, <2>2, <2>3, <3>1
    <3>3. /\ QueueOK(r, Append(p, s), g, G \ {s}) /\ SameSlots(r, b, G \ {s})
          /\ Len(p) < size /\ Msgs(r, Append(p, s)) = Append(Msgs(b, p), b.data[s])
      BY ONLY <3>2, QueueLinksTail
    <3> QED
      BY ONLY <3>1, <3>3
  <2>5. SameSlots(r, q, H)
    BY <1>2, <1>3, <2>2, <2>4 DEF SameSlots
  <2>6. PICK y : y = Append(p, s)
    OBVIOUS
  <2>7. /\ QueueOK(r, y, Tail(f), H) /\ Len(p) < size /\ Len(y) = Len(p) + 1
        /\ Msgs(r, y) = Append(Msgs(q, p), v)
    BY <1>3, <1>4, <1>5, <2>2, <2>4, <2>6
  <2> QED
    BY <1>2, <2>5, <2>7
<1>7. CASE r = LinkHead(Fill(a, s, v), s)
  <2>1. PICK b : b = Fill(a, s, v)
    OBVIOUS
  <2>2. /\ QueueOK(b, p, Tail(f), G) /\ b.data[s] = v /\ SameSlots(b, a, G \ {s})
        /\ Msgs(b, p) = Msgs(a, p)
    <3>1. PICK g : g = Tail(f)
      OBVIOUS
    <3>2. QueueOK(a, p, g, G) /\ s \in G /\ v \in Mail /\ b = Fill(a, s, v)
      BY <1>2, <1>3, <2>1, <3>1
    <3>3. /\ QueueOK(b, p, g, G) /\ b.data[s] = v /\ SameSlots(b, a, G \ {s})
          /\ b = FillTail(a, s, v) => b.next[s] = Null
          /\ Msgs(b, p) = Msgs(a, p)
      BY ONLY <3>2, QueueFills
    <3> QED
      BY ONLY <3>1, <3>3
  <2>3. r = LinkHead(b, s) /\ b.data[s] \in Mail
    BY <1>7, <2>1, <2>2
  <2>4. /\ QueueOK(r, <<s>> \o p, Tail(f), G \ {s}) /\ SameSlots(r, b, G \ {s})
        /\ Len(p) < size /\ Leads(Msgs(r, <<s>> \o p), b.data[s], Msgs(b, p))
    BY ONLY <1>3, <2>2, <2>3, QueueLinksHead
  <2>5. SameSlots(r, q, H)
    BY <1>2, <1>3, <2>2, <2>4 DEF SameSlots
  <2>6. PICK y : y = <<s>> \o p
    OBVIOUS
  <2>7. /\ QueueOK(r, y, Tail(f), H) /\ Len(p) < size /\ Len(y) = Len(p) + 1
        /\ Leads(Msgs(r, y), v, Msgs(q, p))
    BY <1>3, <1>4, <1>5, <2>2, <2>4, <2>6
  <2> QED
    BY <1>2, <2>5, <2>7
<1> QED
  BY <1>1, <1>6, <1>7 DEF IsSent

(* An interrupt handler sends a message.                                        *)
LEMMA MqIsrSends ==
    ASSUME MqOK, NEW v \in Mail, mq.free # Null, IsSent(mq', mq, v),
           UNCHANGED <<slot, mq_last, pc, value>>
    PROVE  /\ MqStep /\ mq'.entry = mq.entry + 1
           /\ Len(FreeSlots') = Len(FreeSlots) - 1
<1>1. PICK p, f, q, r : p = Queued /\ f = FreeSlots /\ q = mq /\ r = mq'
  OBVIOUS
<1>2. QueueOK(q, p, f, InHand) /\ q.free # Null /\ IsSent(r, q, v)
  BY <1>1 DEF MqOK
<1>3. PICK y : /\ QueueOK(r, y, Tail(f), InHand) /\ SameSlots(r, q, InHand)
               /\ Len(p) < size /\ Len(y) = Len(p) + 1 /\ Len(Tail(f)) = Len(f) - 1
               /\ \/ Msgs(r, y) = Append(Msgs(q, p), v)
                  \/ Leads(Msgs(r, y), v, Msgs(q, p))
  BY ONLY <1>2, QueueSends
<1>4. Lists2(y, Tail(f))
  <2>1. /\ mq_last' \in Mail \union {NoMail} /\ SameSlots(mq', mq, InHand)
        /\ QueueOK(mq', y, Tail(f), InHand)
    BY <1>1, <1>3 DEF MqOK
  <2> QED
    BY <2>1, MqUntouched
<1>5. /\ Messages = Msgs(q, p) /\ Messages' = Msgs(r, y) /\ Len(Messages) = Len(p)
      /\ mq.entry = Len(p)
  BY <1>1, <1>4, MessagesAre DEF Lists2
<1>6. MqChannel!Next
  BY <1>3, <1>5 DEF MqChannel!Next, MqChannel!Send, MqChannel!Urgent, Leads
<1>7. mq'.entry = Len(y)
  BY <1>1, <1>3 DEF QueueOK
<1> QED
  BY <1>1, <1>3, <1>4, <1>5, <1>6, <1>7 DEF Lists2, MqStep

(* RT_IPC_CMD_RESET frees the messages.                                        *)
LEMMA MqResetsSlots ==
    ASSUME MqOK, mq' = FreeAll(mq), UNCHANGED <<slot, mq_last, value>>,
           \A u \in Thread : pc'[u] = pc[u] \/ (pc[u] \notin Grips /\ pc'[u] \notin Grips)
    PROVE  MqStep
<1>1. PICK p, f, q, r : p = Queued /\ f = FreeSlots /\ q = mq /\ r = mq'
  OBVIOUS
<1>2. QueueOK(q, p, f, InHand) /\ r = FreeAll(q)
  BY <1>1 DEF MqOK
<1>3. (\E g : QueueOK(r, <<>>, g, InHand)) /\ SameSlots(r, q, InHand)
  BY ONLY <1>2, QueueFreesAll
<1>4. PICK g, e : QueueOK(r, e, g, InHand) /\ e = <<>>
  BY <1>3
<1>5. Lists2(e, g)
  <2>1. /\ mq_last' \in Mail \union {NoMail} /\ SameSlots(mq', mq, InHand)
        /\ QueueOK(mq', e, g, InHand)
    BY <1>1, <1>3, <1>4 DEF MqOK
  <2> QED
    BY <2>1, MqUntouched
<1>6. Messages' = <<>>
  <2>1. Messages' = Msgs(mq', e) /\ Len(e) = 0
    BY <1>4, <1>5, MessagesAre DEF Lists2
  <2> QED
    BY <2>1 DEF Msgs
<1> QED
  BY <1>5, <1>6 DEF Lists2, MqStep, MqChannel!Next, MqChannel!Reset

(* A step that leaves the queue alone.                                         *)
LEMMA MqLeaves ==
    ASSUME MqOK, UNCHANGED <<mq, slot, mq_last>>,
           \A u \in Thread : \/ pc'[u] = pc[u] /\ value'[u] = value[u]
                             \/ pc[u] \notin Grips /\ pc'[u] \notin Grips
    PROVE  MqStep /\ FreeSlots' = FreeSlots
<1>1. PICK p, f : p = Queued /\ f = FreeSlots
  OBVIOUS
<1>2. /\ mq_last' \in Mail \union {NoMail} /\ SameSlots(mq', mq, InHand)
      /\ QueueOK(mq', p, f, InHand)
  BY <1>1 DEF MqOK, SameSlots
<1>3. Lists2(p, f)
  BY <1>2, MqUntouched
<1>4. Messages' = Messages
  BY <1>1, <1>3, MessagesAre DEF Lists2
<1> QED
  BY <1>1, <1>3, <1>4 DEF Lists2, MqStep
-----------------------------------------------------------------------------
(* The message queue: its calls *)

MqFrame == Frame("mq_receivers", "mq_senders", MqPoint)

MqInv == MqFrame /\ MqOK /\ MessageIsClaimed

\* What a step has to show: the invariant, and a step of the channel or none.
MqKept == MqInv' /\ [MqChannel!Next]_<<Messages, mq_last>>

(* The lists of the message queue, and what MessageIsClaimed says of each.       *)
LEMMA MqFacts ==
    /\ Lists("mq_receivers", "mq_senders", MqPoint)
    /\ "mq_receivers" \in WaitList /\ "mq_senders" \in WaitList
    /\ MessageIsClaimed <=> /\ Claimed("mq_receivers", mq.entry)
                            /\ Claimed("mq_senders", Len(FreeSlots))
    /\ MqOK => /\ mq.entry \in Nat /\ Len(FreeSlots) \in Nat
               /\ mq.free = Null => Len(FreeSlots) = 0
<1>1. MqOK => /\ mq.entry \in Nat /\ Len(FreeSlots) \in Nat
              /\ mq.free = Null => Len(FreeSlots) = 0
  <2> SUFFICES ASSUME MqOK
               PROVE  /\ mq.entry \in Nat /\ Len(FreeSlots) \in Nat
                      /\ mq.free = Null => Len(FreeSlots) = 0
    OBVIOUS
  <2>1. PathsOK(mq, Queued, FreeSlots, InHand) /\ mq.entry = Len(Queued)
    BY DEF MqOK, QueueOK
  <2>2. /\ Len(Queued) \in 0 .. size /\ Len(FreeSlots) \in 0 .. size
        /\ mq.free = Null <=> FreeSlots = <<>>
    BY <2>1, QueueParts
  <2> QED
    BY <2>1, <2>2, SlotFacts
<1> QED
  BY <1>1, MsgQueueAssumption DEF Lists, MessageIsClaimed, Claimed, MqPoint

(* A claim after a step.                                                      *)
LEMMA ClaimedAfter ==
    ASSUME NEW l, NEW a \in Int, NEW b \in Int, NEW g \in Int, Claimed(l, a),
           \/ Gains(l, g) /\ b <= a + g
           \/ b = 0 \/ k'.wait[l] = <<>>
    PROVE  k'.wait[l] # <<>> => b <= Cardinality(Called(l)')
<1>1. CASE Gains(l, g) /\ b <= a + g
  <2>1. Claimed(l, a + g)'
    BY <1>1 DEF Gains
  <2>2. k'.wait[l] # <<>> => a + g <= Cardinality(Called(l)')
    BY <2>1 DEF Claimed
  <2> QED
    BY <1>1, <2>2, CalledStaysFinite
<1>2. CASE b = 0
  BY <1>2, CalledStaysFinite
<1> QED
  BY <1>1, <1>2

(* The invariant after a step, from what the step gains on the lists.           *)
LEMMA MqClaims ==
    ASSUME MqInv, MqFrame', MqStep, NEW g \in Int, NEW h \in Int,
           \/ Gains("mq_receivers", g) /\ mq'.entry <= mq.entry + g
           \/ mq'.entry = 0 \/ k'.wait["mq_receivers"] = <<>>,
           \/ Gains("mq_senders", h) /\ Len(FreeSlots') <= Len(FreeSlots) + h
           \/ Len(FreeSlots') = 0 \/ k'.wait["mq_senders"] = <<>>
    PROVE  MqKept
<1>1. PICK a, b, c, d : /\ a = mq.entry /\ b = mq'.entry
                        /\ c = Len(FreeSlots) /\ d = Len(FreeSlots')
  OBVIOUS
<1>2. a \in Int /\ c \in Int /\ Claimed("mq_receivers", a) /\ Claimed("mq_senders", c)
  BY <1>1, MqFacts DEF MqInv
<1>3. b \in Int /\ d \in Int
  <2>1. MqOK'
    BY DEF MqStep
  <2>2. PathsOK(mq', Queued', FreeSlots', InHand') /\ mq'.entry = Len(Queued')
    BY <2>1 DEF MqOK, QueueOK
  <2>3. Len(Queued') \in 0 .. size /\ Len(FreeSlots') \in 0 .. size
    BY <2>2, QueueParts
  <2> QED
    BY <1>1, <2>2, <2>3, SlotFacts
<1>4. k'.wait["mq_receivers"] # <<>> => b <= Cardinality(Called("mq_receivers")')
  BY <1>1, <1>2, <1>3, ClaimedAfter
<1>5. k'.wait["mq_senders"] # <<>> => d <= Cardinality(Called("mq_senders")')
  BY <1>1, <1>2, <1>3, ClaimedAfter
<1>6. MessageIsClaimed'
  BY <1>1, <1>4, <1>5 DEF MessageIsClaimed
<1> QED
  BY <1>6 DEF MqKept, MqInv, MqStep

(* A thread with a slot in its hands, in the middle of a call.                  *)
LEMMA MqHolder ==
    ASSUME MqInv, NEW t \in Thread, NEW c \in Grips, At(t, c)
    PROVE  /\ life = "yes" /\ k.cur = t /\ k.stat[t] = "ready" /\ ~InWait(t)
           /\ \A l \in WaitList : t \notin Called(l)
<1>1. pc[t] = c /\ k.cur = t /\ CallsInv
  BY DEF At, MqInv, MqFrame, Frame
<1>2. c \notin CallPoint /\ ~InWait(t)
  BY <1>1 DEF Grips, CallPoint, InWait
<1>3. life = "yes"
  BY <1>1, <1>2 DEF MqInv, MqFrame, Frame
<1>4. k.stat[t] = "ready"
  BY <1>1, <1>2 DEF CallsInv, Runner, InWait
<1> QED
  BY <1>1, <1>2, <1>3, <1>4 DEF Called

(* The running thread goes on to a point at which it has a slot in its hands.    *)
LEMMA MqGoes ==
    ASSUME MqInv, NEW t \in Thread, life = "yes", k.cur = t, k.stat[t] = "ready",
           UNCHANGED k, UNCHANGED object, NEW c \in Grips, Leave(t, c) \/ Goto(t, c),
           NEW v \in Mail \union {NoMail}, NEW d \in Time, Hold(t, v, d)
    PROVE  /\ MqFrame'
           /\ \A l \in WaitList : Gains(l, -1) /\ (t \notin Called(l) => Gains(l, 0))
<1>1. /\ MqFrame /\ CallsInv /\ life' = "yes" /\ list \in [Thread -> WaitList \union {"none"}]
      /\ c \in MqPoint /\ c \notin {"wait", "woken", "test", "resume"}
      /\ list[t] \in {"mq_receivers", "mq_senders", "none"} /\ pc \in [Thread -> MqPoint]
  BY DEF MqInv, MqFrame, Frame, CallsInv, CallsTypeOK, object, Grips, MqPoint
<1>2. GoesOn(t)
  BY <1>1, LeavingGoesOn
<1>3. CallsInv' /\ \A l \in WaitList : Passes(t, l)
  BY <1>1, <1>2, GoingOn
<1>4. ASSUME NEW l \in WaitList PROVE Gains(l, -1) /\ (t \notin Called(l) => Gains(l, 0))
  BY <1>1, <1>3, GainsByPassing
<1>5. PICK x \in {"mq_receivers", "mq_senders", "none"} : list' = [list EXCEPT ![t] = x]
  BY <1>1 DEF Leave, Goto
<1>6. pc' = [pc EXCEPT ![t] = c] /\ ~InWait(t)'
  BY <1>1, <1>2 DEF Leave, Goto, GoesOn
<1>7. MqFrame'
  BY <1>1, <1>3, <1>5, <1>6, MqFacts, FrameHolds DEF MqFrame
<1> QED
  BY <1>4, <1>7

(* A thread that has linked or freed its slot wakes the first of list l.         *)
LEMMA MqWakes ==
    ASSUME MqInv, NEW t \in Thread, NEW c \in Grips, At(t, c),
           NEW l \in {"mq_receivers", "mq_senders"}, Wake(t, l), UNCHANGED object,
           NEW v \in Mail \union {NoMail}, NEW d \in Time, Hold(t, v, d)
    PROVE  /\ MqFrame' /\ Gains(l, 1)
           /\ \A m \in {"mq_receivers", "mq_senders"} \ {l} : Gains(m, 0)
<1>1. /\ life = "yes" /\ k.cur = t /\ k.stat[t] = "ready"
      /\ \A m \in WaitList : t \notin Called(m)
  BY MqHolder
<1>2. /\ MqFrame /\ CallsInv /\ life' = "yes" /\ pc \in [Thread -> MqPoint]
      /\ "mq_receivers" \in WaitList /\ "mq_senders" \in WaitList
  BY <1>1, MqFacts DEF MqInv, MqFrame, Frame, object
<1>3. CallsInv' /\ Gains(l, 1) /\ \A m \in {"mq_receivers", "mq_senders"} \ {l} : Gains(m, 0)
  BY <1>1, <1>2, WakeGains
<1>4. PICK e \in MqPoint : Leave(t, e) /\ e \in {"run", "schedule"}
  BY DEF Wake, MqPoint, CallPoint
<1>5. /\ pc' = [pc EXCEPT ![t] = e] /\ list' = [list EXCEPT ![t] = "none"] /\ ~InWait(t)'
  BY <1>2, <1>4 DEF Leave, InWait
<1>6. MqFrame'
  BY <1>2, <1>3, <1>4, <1>5, MqFacts, FrameHolds DEF MqFrame
<1> QED
  BY <1>3, <1>6

(* What a thread does with a slot in its hands.                                 *)
LEMMA MqHandles ==
    ASSUME MqInv, NEW t \in Thread, SendFill(t) \/ SendLink(t) \/ RecvCopy(t) \/ RecvFree(t)
    PROVE  MqKept
<1>1. /\ MqOK /\ MqFrame /\ HandsTypeOK /\ pc \in [Thread -> MqPoint]
      /\ value \in [Thread -> Mail \union {NoMail}] /\ timeout \in [Thread -> Time]
      /\ mq.entry \in Nat /\ Len(FreeSlots) \in Nat /\ "none" \in Time
      /\ "mq_receivers" \in WaitList /\ "mq_senders" \in WaitList
  BY MqFacts DEF MqInv, MqFrame, Frame, HandsTypeOK, Time
<1>2. PICK c \in Grips : At(t, c)
  BY DEF SendFill, SendLink, RecvCopy, RecvFree, Grips
<1>3. /\ life = "yes" /\ k.cur = t /\ k.stat[t] = "ready"
      /\ \A l \in WaitList : t \notin Called(l)
  BY <1>2, MqHolder
<1>4. ASSUME UNCHANGED hands PROVE Hold(t, value[t], timeout[t])
  BY <1>1, <1>4 DEF hands, Hold
<1>5. value[t] \in Mail \union {NoMail} /\ timeout[t] \in Time
  BY <1>1
<1>6. CASE SendFill(t)
  <2>1. MqStep /\ mq'.entry = mq.entry /\ Len(FreeSlots') = Len(FreeSlots)
    <3>1. MqStep /\ Queued' = Queued /\ FreeSlots' = FreeSlots
      BY <1>1, <1>6, MqFills
    <3>2. mq'.entry = Len(Queued') /\ mq.entry = Len(Queued)
      BY <1>1, <3>1 DEF MqStep, MqOK, QueueOK
    <3> QED
      BY <3>1, <3>2
  <2>2. PICK e \in Grips : Goto(t, e)
    BY <1>6 DEF SendFill, Grips
  <2>3. MqFrame' /\ Gains("mq_receivers", 0) /\ Gains("mq_senders", 0)
    <3>1. UNCHANGED k /\ UNCHANGED object /\ UNCHANGED hands
      BY <1>6 DEF SendFill
    <3> QED
      BY <1>1, <1>3, <1>4, <1>5, <2>2, <3>1, MqGoes
  <2>4. 0 \in Int /\ mq'.entry <= mq.entry + 0 /\ Len(FreeSlots') <= Len(FreeSlots) + 0
    BY <1>1, <2>1
  <2> QED
    BY <2>1, <2>3, <2>4, MqClaims
<1>7. CASE RecvCopy(t)
  <2>1. MqStep /\ mq'.entry = mq.entry /\ Len(FreeSlots') = Len(FreeSlots)
    BY <1>1, <1>7, MqCopies
  <2>2. MqFrame' /\ Gains("mq_receivers", 0) /\ Gains("mq_senders", 0)
    <3>1. /\ UNCHANGED k /\ UNCHANGED object /\ Hold(t, NoMail, "none") /\ Goto(t, "free")
          /\ "free" \in Grips
      BY <1>7 DEF RecvCopy, EmptyHands, Grips
    <3> QED
      BY <1>1, <1>3, <3>1, MqGoes
  <2>3. 0 \in Int /\ mq'.entry <= mq.entry + 0 /\ Len(FreeSlots') <= Len(FreeSlots) + 0
    BY <1>1, <2>1
  <2> QED
    BY <2>1, <2>2, <2>3, MqClaims
<1>8. CASE SendLink(t)
  <2>1. MqStep /\ mq'.entry = mq.entry + 1 /\ Len(FreeSlots') = Len(FreeSlots)
    BY <1>1, <1>8, MqLinks
  <2>2. MqFrame' /\ Gains("mq_receivers", 1) /\ Gains("mq_senders", 0)
    <3>1. Wake(t, "mq_receivers") /\ UNCHANGED object /\ Hold(t, NoMail, "none")
      BY <1>8 DEF SendLink, EmptyHands
    <3> QED
      BY <1>1, <1>2, <3>1, MqWakes
  <2>3. /\ 0 \in Int /\ 1 \in Int
        /\ mq'.entry <= mq.entry + 1 /\ Len(FreeSlots') <= Len(FreeSlots) + 0
    BY <1>1, <2>1
  <2> QED
    BY <2>1, <2>2, <2>3, MqClaims
<1>9. CASE RecvFree(t)
  <2>1. MqStep /\ mq'.entry = mq.entry /\ Len(FreeSlots') = Len(FreeSlots) + 1
    BY <1>1, <1>9, MqFrees
  <2>2. MqFrame' /\ Gains("mq_receivers", 0) /\ Gains("mq_senders", 1)
    <3>1. Wake(t, "mq_senders") /\ UNCHANGED object /\ UNCHANGED hands
      BY <1>9 DEF RecvFree
    <3> QED
      BY <1>1, <1>2, <1>4, <1>5, <3>1, MqWakes
  <2>3. /\ 0 \in Int /\ 1 \in Int
        /\ mq'.entry <= mq.entry + 0 /\ Len(FreeSlots') <= Len(FreeSlots) + 1
    BY <1>1, <2>1
  <2> QED
    BY <2>1, <2>2, <2>3, MqClaims
<1> QED
  BY <1>6, <1>7, <1>8, <1>9

(* A caller at the loop test has no slot, and other threads keep theirs.         *)
LEMMA MqCaller ==
    ASSUME MqInv, NEW t \in Thread, NEW x \in {"mq_receivers", "mq_senders"},
           Enters(t) \/ WokenToRetry(t, x)
    PROVE  /\ Caller(t, x) /\ pc[t] \notin Grips
           /\ \A y \in {"mq_receivers", "mq_senders"} \ {x} : t \notin Called(y)
<1>1. Caller(t, x) /\ \A y \in WaitList : t \in Called(y) => y = x
  BY MqFacts, CallerIs DEF MqInv, MqFrame
<1> QED
  BY <1>1, MqFacts DEF Caller, Grips

(* A caller that neither takes a slot nor a message.                           *)
LEMMA MqAway ==
    ASSUME MqInv, NEW t \in Thread, pc[t] \notin Grips, UNCHANGED <<mq, slot, mq_last>>,
           NEW c, c \notin Grips, pc' = [pc EXCEPT ![t] = c],
           NEW v, value' = [value EXCEPT ![t] = v]
    PROVE  MqStep /\ FreeSlots' = FreeSlots /\ mq' = mq
<1>1. value \in [Thread -> Mail \union {NoMail}] /\ pc \in [Thread -> MqPoint]
  BY DEF MqInv, MqFrame, Frame, HandsTypeOK
<1>2. \A u \in Thread : \/ pc'[u] = pc[u] /\ value'[u] = value[u]
                        \/ pc[u] \notin Grips /\ pc'[u] \notin Grips
  BY <1>1
<1> QED
  BY <1>2, MqLeaves DEF MqInv

(* The loop of rt_mq_send_wait.                                                *)
LEMMA MqSends ==
    ASSUME MqInv, NEW t \in Thread, NEW v \in Mail, NEW d \in Time, SendTry(t, v, d),
           Enters(t) \/ WokenToRetry(t, "mq_senders")
    PROVE  MqKept
<1>1. /\ MqOK /\ MqFrame /\ Lists("mq_receivers", "mq_senders", MqPoint)
      /\ value \in [Thread -> Mail \union {NoMail}] /\ pc \in [Thread -> MqPoint]
      /\ mq.entry \in Nat /\ Len(FreeSlots) \in Nat /\ "none" \in Time
      /\ mq.free = Null => Len(FreeSlots) = 0
      /\ "mq_receivers" \in WaitList /\ "mq_senders" \in WaitList
      /\ UNCHANGED object /\ mq_last' = mq_last
  BY MqFacts DEF MqInv, MqFrame, Frame, HandsTypeOK, Time, SendTry
<1>2. /\ Caller(t, "mq_senders") /\ pc[t] \notin Grips /\ t \notin Called("mq_receivers")
  BY MqCaller
<1>3. life = "yes" /\ k.cur = t /\ k.stat[t] = "ready"
  BY <1>2 DEF Caller
<1>4. CASE /\ mq.free # Null /\ mq' = TakeFree(mq) /\ slot' = [slot EXCEPT ![t] = mq.free]
           /\ Leave(t, "fill") /\ Hold(t, v, "none") /\ UNCHANGED k
  <2>1. /\ \A u \in Thread \ {t} : pc'[u] = pc[u] /\ value'[u] = value[u]
        /\ pc'[t] \in {"fill", "ufill"} /\ value'[t] \in Mail
    BY <1>1, <1>4 DEF Leave, Hold
  <2>2. MqStep /\ Queued' = Queued /\ Len(FreeSlots') = Len(FreeSlots) - 1
    BY <1>1, <1>2, <1>4, <2>1, MqGrabs
  <2>3. MqFrame' /\ Gains("mq_receivers", 0) /\ Gains("mq_senders", -1)
    <3>1. "fill" \in Grips
      BY DEF Grips
    <3> QED
      BY <1>1, <1>2, <1>3, <1>4, <3>1, MqGoes
  <2>4. /\ 0 \in Int /\ -1 \in Int
        /\ mq'.entry <= mq.entry + 0 /\ Len(FreeSlots') <= Len(FreeSlots) + (-1)
    <3>1. mq'.entry = mq.entry
      BY <1>4 DEF TakeFree, MqOK, MqInv, QueueOK, QueueType
    <3> QED
      BY <1>1, <2>2, <3>1
  <2> QED
    BY <2>2, <2>3, <2>4, MqClaims
<1>5. CASE mq.free = Null /\ UNCHANGED <<mq, slot>> /\ GiveUp(t, "EOK")
  <2>1. MqFrame' /\ Gains("mq_receivers", 0)
    <3>1. "EOK" \in Error
      BY DEF Error
    <3> QED
      BY <1>1, <1>2, <1>5, <3>1, FrameGiveUp DEF MqFrame
  <2>2. MqStep /\ FreeSlots' = FreeSlots /\ mq' = mq
    <3>1. pc' = [pc EXCEPT ![t] = "run"] /\ value' = [value EXCEPT ![t] = NoMail]
      BY <1>5 DEF GiveUp, Leave, EmptyHands, Hold
    <3>2. "run" \notin Grips
      BY DEF Grips
    <3> QED
      BY <1>1, <1>2, <1>5, <3>1, <3>2, MqAway
  <2>3. 0 \in Int /\ mq'.entry <= mq.entry + 0 /\ Len(FreeSlots') = 0
    BY <1>1, <1>5, <2>2
  <2> QED
    BY <2>1, <2>2, <2>3, MqClaims
<1>6. CASE /\ mq.free = Null /\ UNCHANGED <<mq, slot>>
           /\ WaitToSend(t, "mq_senders", flag, v, d)
  <2>1. /\ Block(t, Queue(t, "mq_senders", flag), "mq_senders", d) /\ Hold(t, v, d)
    BY <1>6 DEF WaitToSend
  <2>2. MqFrame' /\ Gains("mq_receivers", 0)
    BY <1>1, <1>2, <2>1, FrameWait DEF MqFrame
  <2>3. MqStep /\ FreeSlots' = FreeSlots /\ mq' = mq
    <3>1. pc' = [pc EXCEPT ![t] = "wait"] /\ value' = [value EXCEPT ![t] = v]
      BY <2>1 DEF Block, Hold
    <3>2. "wait" \notin Grips
      BY DEF Grips
    <3> QED
      BY <1>1, <1>2, <1>6, <3>1, <3>2, MqAway
  <2>4. 0 \in Int /\ mq'.entry <= mq.entry + 0 /\ Len(FreeSlots') = 0
    BY <1>1, <1>6, <2>3
  <2> QED
    BY <2>2, <2>3, <2>4, MqClaims
<1> QED
  BY <1>4, <1>5, <1>6 DEF SendTry

(* The loop of rt_mq_recv.                                                    *)
LEMMA MqReceives ==
    ASSUME MqInv, NEW t \in Thread, NEW d \in Time, RecvTry(t, d),
           Enters(t) \/ WokenToRetry(t, "mq_receivers")
    PROVE  MqKept
<1>1. /\ MqOK /\ MqFrame /\ Lists("mq_receivers", "mq_senders", MqPoint)
      /\ value \in [Thread -> Mail \union {NoMail}] /\ pc \in [Thread -> MqPoint]
      /\ mq.entry \in Nat /\ Len(FreeSlots) \in Nat /\ "none" \in Time
      /\ "mq_receivers" \in WaitList /\ "mq_senders" \in WaitList
      /\ UNCHANGED object
  BY MqFacts DEF MqInv, MqFrame, Frame, HandsTypeOK, Time, RecvTry
<1>2. /\ Caller(t, "mq_receivers") /\ pc[t] \notin Grips /\ t \notin Called("mq_senders")
  BY MqCaller
<1>3. life = "yes" /\ k.cur = t /\ k.stat[t] = "ready"
  BY <1>2 DEF Caller
<1>4. CASE /\ mq.entry > 0 /\ mq' = TakeHead(mq) /\ slot' = [slot EXCEPT ![t] = mq.head]
           /\ mq_last' = mq.data[mq.head]
           /\ Leave(t, "copy") /\ Hold(t, mq.data[mq.head], "none") /\ UNCHANGED k
  <2>1. /\ \A u \in Thread \ {t} : pc'[u] = pc[u] /\ value'[u] = value[u]
        /\ pc'[t] = "copy" /\ value'[t] = mq.data[mq.head]
    BY <1>1, <1>4 DEF Leave, Hold
  <2>2. /\ MqStep /\ mq'.entry = mq.entry - 1 /\ FreeSlots' = FreeSlots
        /\ mq.data[mq.head] \in Mail
    BY <1>1, <1>2, <1>4, <2>1, MqTakes
  <2>3. MqFrame' /\ Gains("mq_receivers", -1) /\ Gains("mq_senders", 0)
    <3>1. "copy" \in Grips
      BY DEF Grips
    <3> QED
      BY <1>1, <1>2, <1>3, <1>4, <2>2, <3>1, MqGoes
  <2>4. /\ 0 \in Int /\ -1 \in Int
        /\ mq'.entry <= mq.entry + (-1) /\ Len(FreeSlots') <= Len(FreeSlots) + 0
    BY <1>1, <2>2
  <2> QED
    BY <2>2, <2>3, <2>4, MqClaims
<1>5. CASE mq.entry = 0 /\ UNCHANGED msgqueue /\ GiveUp(t, "ETIMEOUT")
  <2>1. MqFrame' /\ Gains("mq_senders", 0)
    <3>1. "ETIMEOUT" \in Error
      BY DEF Error
    <3> QED
      BY <1>1, <1>2, <1>5, <3>1, FrameGiveUp DEF MqFrame
  <2>2. MqStep /\ FreeSlots' = FreeSlots /\ mq' = mq
    <3>1. pc' = [pc EXCEPT ![t] = "run"] /\ value' = [value EXCEPT ![t] = NoMail]
      BY <1>5 DEF GiveUp, Leave, EmptyHands, Hold
    <3>2. "run" \notin Grips
      BY DEF Grips
    <3> QED
      BY <1>1, <1>2, <1>5, <3>1, <3>2, MqAway DEF msgqueue
  <2>3. 0 \in Int /\ mq'.entry = 0 /\ Len(FreeSlots') <= Len(FreeSlots) + 0
    BY <1>1, <1>5, <2>2
  <2> QED
    BY <2>1, <2>2, <2>3, MqClaims
<1>6. CASE /\ mq.entry = 0 /\ UNCHANGED msgqueue
           /\ WaitToRecv(t, "mq_receivers", flag, d)
  <2>1. /\ Block(t, Queue(t, "mq_receivers", flag), "mq_receivers", d)
        /\ Hold(t, NoMail, d)
    BY <1>6 DEF WaitToRecv
  <2>2. MqFrame' /\ Gains("mq_senders", 0)
    BY <1>1, <1>2, <2>1, FrameWait DEF MqFrame
  <2>3. MqStep /\ FreeSlots' = FreeSlots /\ mq' = mq
    <3>1. pc' = [pc EXCEPT ![t] = "wait"] /\ value' = [value EXCEPT ![t] = NoMail]
      BY <2>1 DEF Block, Hold
    <3>2. "wait" \notin Grips
      BY DEF Grips
    <3> QED
      BY <1>1, <1>2, <1>6, <3>1, <3>2, MqAway DEF msgqueue
  <2>4. 0 \in Int /\ mq'.entry = 0 /\ Len(FreeSlots') <= Len(FreeSlots) + 0
    BY <1>1, <1>6, <2>3
  <2> QED
    BY <2>2, <2>3, <2>4, MqClaims
<1> QED
  BY <1>4, <1>5, <1>6 DEF RecvTry

(* What a call does when it runs again after a wait.                           *)
LEMMA MqRetries ==
    ASSUME MqInv, NEW t \in Thread, MqSendRetry(t) \/ MqRecvRetry(t)
    PROVE  MqKept
<1>1. /\ MqFrame /\ Lists("mq_receivers", "mq_senders", MqPoint)
      /\ mq.entry \in Nat /\ Len(FreeSlots) \in Nat
  BY MqFacts DEF MqInv
<1>2. ASSUME NEW x \in {"mq_receivers", "mq_senders"}, WokenInVain(t, x),
             UNCHANGED <<msgqueue, object>>
      PROVE  MqKept
  <2>1. MqFrame' /\ Gains("mq_receivers", 0) /\ Gains("mq_senders", 0)
    BY <1>1, <1>2, FrameInVain DEF MqFrame
  <2>2. MqStep /\ FreeSlots' = FreeSlots /\ mq' = mq
    <3>1. pc' = [pc EXCEPT ![t] = "run"] /\ value' = [value EXCEPT ![t] = NoMail]
      BY <1>2 DEF WokenInVain, Leave, EmptyHands, Hold
    <3>2. "run" \notin Grips /\ pc[t] \notin Grips
      BY <1>2 DEF Grips, WokenInVain, At
    <3> QED
      BY <1>2, <3>1, <3>2, MqAway DEF msgqueue
  <2>3. 0 \in Int /\ mq'.entry <= mq.entry + 0 /\ Len(FreeSlots') <= Len(FreeSlots) + 0
    BY <1>1, <2>2
  <2> QED
    BY <2>1, <2>2, <2>3, MqClaims
<1>3. ASSUME NEW d \in Left(timeout[t]) PROVE d \in Time
  BY <1>1 DEF Left, Time, MqFrame, Frame, HandsTypeOK
<1>4. ASSUME WokenToRetry(t, "mq_senders"), NEW d \in Left(timeout[t]),
             SendTry(t, value[t], d)
      PROVE  MqKept
  <2>1. value[t] \in Mail
    BY <1>1, <1>4 DEF MqFrame, Frame, WokenToRetry, At, InWait
  <2> QED
    BY <1>3, <1>4, <2>1, MqSends
<1>5. ASSUME WokenToRetry(t, "mq_receivers"), NEW d \in Left(timeout[t]), RecvTry(t, d)
      PROVE  MqKept
  BY <1>3, <1>5, MqReceives
<1> QED
  BY <1>2, <1>4, <1>5 DEF MqSendRetry, MqRecvRetry

(* rt_mq_urgent takes a slot.                                                  *)
LEMMA MqUrgent ==
    ASSUME MqInv, NEW t \in Thread, NEW v \in Mail, rt_mq_urgent(t, v)
    PROVE  MqKept
<1>1. /\ MqOK /\ MqFrame /\ "none" \in Time
      /\ value \in [Thread -> Mail \union {NoMail}] /\ pc \in [Thread -> MqPoint]
      /\ mq.entry \in Nat /\ Len(FreeSlots) \in Nat
      /\ "mq_receivers" \in WaitList /\ "mq_senders" \in WaitList
  BY MqFacts DEF MqInv, MqFrame, Frame, HandsTypeOK, Time
<1>2. /\ Enters(t) /\ mq.free # Null /\ mq' = TakeFree(mq)
      /\ slot' = [slot EXCEPT ![t] = mq.free] /\ Goto(t, "ufill") /\ Hold(t, v, "none")
      /\ UNCHANGED k /\ UNCHANGED object /\ mq_last' = mq_last
  BY DEF rt_mq_urgent
<1>3. /\ Caller(t, "mq_senders") /\ pc[t] \notin Grips /\ t \notin Called("mq_receivers")
  BY <1>2, MqCaller
<1>4. life = "yes" /\ k.cur = t /\ k.stat[t] = "ready"
  BY <1>3 DEF Caller
<1>5. /\ \A u \in Thread \ {t} : pc'[u] = pc[u] /\ value'[u] = value[u]
      /\ pc'[t] \in {"fill", "ufill"} /\ value'[t] \in Mail
  BY <1>1, <1>2 DEF Goto, Hold
<1>6. MqStep /\ Queued' = Queued /\ Len(FreeSlots') = Len(FreeSlots) - 1
  BY <1>1, <1>2, <1>3, <1>5, MqGrabs
<1>7. MqFrame' /\ Gains("mq_receivers", 0) /\ Gains("mq_senders", -1)
  <2>1. "ufill" \in Grips
    BY DEF Grips
  <2> QED
    BY <1>1, <1>2, <1>3, <1>4, <2>1, MqGoes
<1>8. /\ 0 \in Int /\ -1 \in Int
      /\ mq'.entry <= mq.entry + 0 /\ Len(FreeSlots') <= Len(FreeSlots) + (-1)
  <2>1. mq'.entry = Len(Queued') /\ mq.entry = Len(Queued)
    BY <1>1, <1>6 DEF MqStep, MqOK, QueueOK
  <2> QED
    BY <1>1, <1>6, <2>1
<1> QED
  BY <1>6, <1>7, <1>8, MqClaims

(* An interrupt handler sends.                                                 *)
LEMMA MqIsr ==
    ASSUME MqInv, NEW v \in Mail, IsrMqSend(v)
    PROVE  MqKept
<1>1. /\ MqOK /\ MqFrame /\ CallsInv /\ mq.entry \in Nat /\ Len(FreeSlots) \in Nat
      /\ "mq_receivers" \in WaitList /\ "mq_senders" \in WaitList
  BY MqFacts DEF MqInv, MqFrame, Frame
<1>2. /\ life = "yes" /\ life' = "yes" /\ mq.free # Null /\ IsSent(mq', mq, v)
      /\ IsrWake("mq_receivers") /\ UNCHANGED <<pc, list, object>> /\ UNCHANGED hands
      /\ UNCHANGED <<slot, mq_last, pc, value>>
  BY DEF IsrMqSend, IsSent, object, hands
<1>3. CallsInv' /\ Gains("mq_receivers", 1) /\ Gains("mq_senders", 0)
  <2>1. "mq_senders" \in WaitList \ {"mq_receivers"}
    BY <1>1
  <2> QED
    BY <1>1, <1>2, <2>1, IsrWakeGains
<1>4. MqFrame'
  BY <1>1, <1>2, <1>3 DEF MqFrame, Frame, HandsTypeOK, hands, InWait
<1>5. /\ MqStep /\ mq'.entry = mq.entry + 1 /\ Len(FreeSlots') = Len(FreeSlots) - 1
  BY <1>1, <1>2, MqIsrSends
<1>6. /\ 0 \in Int /\ 1 \in Int
      /\ mq'.entry <= mq.entry + 1 /\ Len(FreeSlots') <= Len(FreeSlots) + 0
  BY <1>1, <1>5
<1> QED
  BY <1>3, <1>4, <1>5, <1>6, MqClaims

(* RT_IPC_CMD_RESET.                                                          *)
LEMMA MqResets ==
    ASSUME MqInv, NEW t \in Thread, rt_mq_control(t)
    PROVE  MqKept
<1>1. /\ MqOK /\ MqFrame /\ CallsInv /\ pc \in [Thread -> MqPoint] /\ 0 \in Int
      /\ "mq_receivers" \in WaitList /\ "mq_senders" \in WaitList
  BY MqFacts DEF MqInv, MqFrame, Frame
<1>2. /\ life = "yes" /\ life' = "yes" /\ At(t, "run") /\ Goto(t, "schedule")
      /\ k' = ResetWaiters("mq_receivers", "mq_senders") /\ UNCHANGED object
      /\ UNCHANGED hands /\ mq' = FreeAll(mq) /\ UNCHANGED <<slot, mq_last, value>>
  BY DEF rt_mq_control, Enters, object, hands
<1>3. Quiet /\ k'.wait["mq_receivers"] = <<>> /\ k'.wait["mq_senders"] = <<>>
  BY <1>1, <1>2, ResetKeeps
<1>4. /\ pc' \in [Thread -> MqPoint] /\ list' = list
      /\ \A x \in Thread : InWait(x)' => InWait(x)
  BY <1>1, <1>2 DEF Goto, MqPoint, CallPoint, InWait
<1>5. MqFrame'
  BY <1>1, <1>2, <1>3, <1>4 DEF MqFrame, Frame, HandsTypeOK, hands, Quiet
<1>6. \A u \in Thread : pc'[u] = pc[u] \/ (pc[u] \notin Grips /\ pc'[u] \notin Grips)
  BY <1>1, <1>2 DEF Goto, At, Grips
<1>7. MqStep
  BY <1>1, <1>2, <1>6, MqResetsSlots
<1> QED
  BY <1>1, <1>3, <1>5, <1>7, MqClaims

(* The steps every object has.                                                *)
LEMMA MqCommon ==
    ASSUME MqInv, UNCHANGED <<hands, msgqueue>>,
           \/ \E t \in Thread : CallSteps(t) \/ rt_mq_detach(t)
           \/ Background \/ UNCHANGED calls
    PROVE  MqKept
<1>1. /\ MqFrame /\ Lists("mq_receivers", "mq_senders", MqPoint) /\ MqOK /\ CallsInv
      /\ mq.entry \in Nat /\ Len(FreeSlots) \in Nat /\ pc \in [Thread -> MqPoint]
      /\ CallPoint \subseteq MqPoint
  BY MqFacts DEF MqInv, MqFrame, Frame, MqPoint
<1>2. MqFrame' /\ Gains("mq_receivers", 0) /\ Gains("mq_senders", 0)
  BY <1>1, FrameCommon DEF MqFrame, rt_mq_detach
<1>3. \A u \in Thread : pc'[u] = pc[u] \/ {pc[u], pc'[u]} \subseteq CallPoint
  <2>1. ASSUME NEW t \in Thread, CallSteps(t)
        PROVE  \A u \in Thread : pc'[u] = pc[u] \/ {pc[u], pc'[u]} \subseteq CallPoint
    BY <1>1, <2>1, CallStepsPoints
  <2>2. ASSUME NEW t \in Thread, rt_mq_detach(t)
        PROVE  \A u \in Thread : pc'[u] = pc[u] \/ {pc[u], pc'[u]} \subseteq CallPoint
    <3>1. pc[t] = "run" /\ pc' = [pc EXCEPT ![t] = "test"]
      BY <2>2 DEF rt_mq_detach, DetachChannel, StartDetach, Enters, At, Goto
    <3> QED
      BY <1>1, <3>1 DEF CallPoint
  <2>3. Background \/ UNCHANGED calls => pc' = pc
    BY DEF Background, calls
  <2> QED
    BY <2>1, <2>2, <2>3
<1>4. \A u \in Thread : \/ pc'[u] = pc[u] /\ value'[u] = value[u]
                        \/ pc[u] \notin Grips /\ pc'[u] \notin Grips
  BY <1>3 DEF hands, Grips, CallPoint
<1>5. MqStep /\ FreeSlots' = FreeSlots /\ mq' = mq
  BY <1>1, <1>4, MqLeaves DEF msgqueue
<1>6. 0 \in Int /\ mq'.entry <= mq.entry + 0 /\ Len(FreeSlots') <= Len(FreeSlots) + 0
  BY <1>1, <1>5
<1> QED
  BY <1>2, <1>5, <1>6, MqClaims

(* Every step of the message queue keeps its invariant, and is a step of the     *)
(* channel or leaves the channel alone.                                        *)
LEMMA MqSteps ==
    ASSUME MqInv, [MqNext]_<<calls, hands, msgqueue>> PROVE MqKept
<1>1. ASSUME NEW t \in Thread, NEW d \in Time, NEW v \in Mail, rt_mq_send_wait(t, v, d)
      PROVE  MqKept
  BY <1>1, MqSends DEF rt_mq_send_wait
<1>2. ASSUME NEW t \in Thread, NEW d \in Time, rt_mq_recv(t, d) PROVE MqKept
  BY <1>2, MqReceives DEF rt_mq_recv
<1>3. ASSUME NEW t \in Thread, rt_mq_detach(t) PROVE MqKept
  BY <1>3, MqCommon DEF rt_mq_detach
<1>4. ASSUME UNCHANGED <<calls, hands, msgqueue>> PROVE MqKept
  BY <1>4, MqCommon
<1>5. ASSUME NEW t \in Thread, CallSteps(t), UNCHANGED <<hands, msgqueue>> PROVE MqKept
  BY <1>5, MqCommon
<1>6. ASSUME Background, UNCHANGED <<hands, msgqueue>> PROVE MqKept
  BY <1>6, MqCommon
<1> QED
  BY <1>1, <1>2, <1>3, <1>4, <1>5, <1>6, MqHandles, MqRetries, MqUrgent, MqIsr, MqResets
     DEF MqNext

(* rt_mq_init: every slot is free.                                             *)
LEMMA MqStarts ==
    ASSUME CallsInit, HandsInit, MqInit PROVE MqInv /\ MqChannel!Init
<1>1. /\ CallsInv /\ \A l \in WaitList : Called(l) = {} /\ k.wait[l] = <<>>
      /\ \A t \in Thread : pc[t] = "run" /\ list[t] = "none"
  BY CallsStart
<1>2. HandsTypeOK /\ pc \in [Thread -> MqPoint]
  BY DEF HandsInit, HandsTypeOK, Time, CallsInit, CallPoint, MqPoint
<1>3. life = "yes" /\ \A t \in Thread : ~InWait(t)
  BY <1>1 DEF CallsInit, InWait
<1>4. MqFrame
  BY <1>1, <1>2, <1>3 DEF MqFrame, Frame
<1>5. PICK q, e, f : q = mq /\ e = <<>> /\ f = [i \in 1 .. size |-> size + 1 - i]
  OBVIOUS
<1>6. size \in Nat /\ size >= 1 /\ Null \notin Slot
  BY SlotFacts
<1>7. /\ f \in Seq(Slot) /\ Len(f) = size /\ \A i \in 1 .. size : f[i] = size + 1 - i
      /\ e \in Seq(Slot) /\ Len(e) = 0
  BY <1>5, <1>6 DEF Slot
<1>8. /\ q.next = [s \in Slot |-> IF s = 1 THEN Null ELSE s - 1]
      /\ q.data = [s \in Slot |-> NoMail] /\ q.head = Null /\ q.tail = Null
      /\ q.free = size /\ q.entry = 0 /\ q \in QueueType
  <2>1. size \in Slot /\ 0 \in 0 .. size /\ \A s \in Slot : s # 1 => s - 1 \in Slot
    BY <1>6 DEF Slot
  <2> QED
    BY <1>5, <2>1 DEF MqInit, QueueType
<1>9. IsNext(q.next) /\ IsData(q.data)
  BY <1>8, TypeParts
<1>10. IsPath(q.next, q.head, e) /\ q.tail = Node(e, Len(e))
  BY <1>7, <1>8 DEF IsPath, Node
<1>11. IsPath(q.next, q.free, f)
  <2>1. q.free = Node(f, 1)
    BY <1>6, <1>7, <1>8 DEF Node
  <2>2. ASSUME NEW i \in 1 .. Len(f) PROVE q.next[f[i]] = Node(f, i + 1)
    <3>1. f[i] = size + 1 - i /\ f[i] \in Slot /\ i \in 1 .. size
      BY <1>7
    <3>2. CASE i = size
      <4>1. f[i] = 1 /\ ~(i + 1 \in 1 .. Len(f))
        BY <1>6, <1>7, <3>1, <3>2
      <4> QED
        BY <1>8, <3>1, <4>1 DEF Node
    <3>3. CASE i # size
      <4>1. /\ i + 1 \in 1 .. Len(f) /\ f[i] # 1 /\ f[i + 1] = f[i] - 1
        BY <1>6, <1>7, <3>1, <3>3
      <4> QED
        BY <1>8, <3>1, <4>1 DEF Node
    <3> QED
      BY <3>2, <3>3
  <2>3. \A i, j \in 1 .. Len(f) : f[i] = f[j] => i = j
    BY <1>6, <1>7
  <2> QED
    BY <1>7, <2>1, <2>2, <2>3 DEF IsPath
<1>12. ToSet(e) = {} /\ ToSet(f) = Slot
  <2>1. ToSet(f) = {f[i] : i \in 1 .. Len(f)} /\ ToSet(e) = {e[i] : i \in 1 .. Len(e)}
    BY <1>7, OnThePath
  <2>2. ASSUME NEW s \in Slot PROVE \E i \in 1 .. Len(f) : f[i] = s
    <3>1. PICK i \in 1 .. size : i = size + 1 - s
      BY <1>6 DEF Slot
    <3>2. f[i] = s /\ i \in 1 .. Len(f)
      BY <1>6, <1>7, <3>1 DEF Slot
    <3> QED
      BY <3>2
  <2>3. \A i \in 1 .. Len(f) : f[i] \in Slot
    BY <1>7
  <2> QED
    BY <1>7, <2>1, <2>2, <2>3
<1>13. QueueOK(q, e, f, {})
  <2>1. /\ ToSet(e) \intersect ToSet(f) = {} /\ (ToSet(e) \union ToSet(f)) \intersect {} = {}
        /\ Slot = ToSet(e) \union ToSet(f) \union {}
    BY ONLY <1>12
  <2>2. \A i \in 1 .. Len(e) : q.data[e[i]] \in Mail
    BY ONLY <1>7
  <2>3. PathsOK(q, e, f, {})
    BY ONLY <1>9, <1>10, <1>11, <2>1, <2>2 DEF PathsOK
  <2> QED
    BY <1>7, <1>8, <2>3 DEF QueueOK
<1>14. Queued = e /\ FreeSlots = f
  BY <1>5, <1>10, <1>11, ChainIs DEF Queued, FreeSlots
<1>15. InHand = {}
  BY DEF InHand, MqInit
<1>16. MqOK
  <2>1. QueueOK(mq, Queued, FreeSlots, InHand)
    BY <1>5, <1>13, <1>14, <1>15
  <2>2. /\ slot \in [Thread -> Slot \union {Null}] /\ mq_last \in Mail \union {NoMail}
        /\ \A t \in Thread : slot[t] = Null
    BY DEF MqInit
  <2>3. \A t \in Thread : GripOK(t)
    BY <1>1, <2>2 DEF GripOK, Grips
  <2> QED
    BY <2>1, <2>2, <2>3 DEF MqOK
<1>17. MessageIsClaimed
  BY <1>1, MqFacts DEF MessageIsClaimed
<1>18. Messages = <<>>
  BY <1>5, <1>14 DEF Messages
<1> QED
  BY <1>4, <1>16, <1>17, <1>18 DEF MqInv, MqChannel!Init, MqInit

(* The inductive invariant of the message queue.                               *)
THEOREM MsgQueueInvariance == MqSpec => []MqInv
<1>1. MqInv /\ [MqNext]_<<calls, hands, msgqueue>> => MqInv'
  BY MqSteps DEF MqKept
<1> QED
  BY <1>1, MqStarts, PTL DEF MqSpec

(* No slot of a message queue is lost or linked twice and no message damaged,   *)
(* however the sections of rt_mq_send_wait, rt_mq_urgent, rt_mq_recv and        *)
(* rt_mq_control interleave, for any number of threads and of slots.            *)
THEOREM MessagesAlwaysSafe == MqSpec => []MessagesSafe
<1>1. MqInv => MessagesSafe
  <2> SUFFICES ASSUME MqInv PROVE MessagesSafe
    OBVIOUS
  <2>1. PICK p, f, H : p = Queued /\ f = FreeSlots /\ H = InHand
    OBVIOUS
  <2>2. /\ PathsOK(mq, p, f, H) /\ mq.entry = Len(p)
        /\ \A t, u \in Thread : slot[t] = slot[u] /\ slot[t] # Null => t = u
        /\ \A t \in Thread : GripOK(t)
    BY <2>1 DEF MqInv, MqOK, QueueOK
  <2>3. /\ IsPath(mq.next, mq.head, p) /\ IsPath(mq.next, mq.free, f)
        /\ p \in Seq(Slot) /\ f \in Seq(Slot) /\ mq.tail = Node(p, Len(p))
        /\ ToSet(p) \union ToSet(f) \union H = Slot
    BY <2>2 DEF PathsOK, IsPath
  <2>4. IsInjective(p) /\ IsInjective(f)
    BY <2>3 DEF IsPath, IsInjective
  <2>5. mq.tail = IF p = <<>> THEN Null ELSE p[Len(p)]
    BY <2>3 DEF Node
  <2>6. Len(p) + Len(f) + Cardinality(H) = size
    BY <2>2, QueueCounts
  <2>7. SlotsPartitioned
    BY <2>1, <2>2, <2>3, <2>4, <2>5, <2>6 DEF SlotsPartitioned
  <2>8. MessageIntact
    BY <2>2 DEF MessageIntact, GripOK
  <2> QED
    BY <2>7, <2>8 DEF MessagesSafe
<1> QED
  BY <1>1, MsgQueueInvariance, PTL

(* The message queue implements the bounded channel with urgent messages: a      *)
(* message is handed out once, in the order in which the slots were linked,      *)
(* although it is copied outside the sections that link and unlink it.          *)
THEOREM MsgQueueImplementsChannel == MqSpec => MsgQueueIsChannel
<1>1. MqInv /\ [MqNext]_<<calls, hands, msgqueue>> => [MqChannel!Next]_<<Messages, mq_last>>
  BY MqSteps DEF MqKept
<1>2. CallsInit /\ HandsInit /\ MqInit => MqChannel!Init
  BY MqStarts
<1> QED
  BY <1>1, <1>2, MsgQueueInvariance, PTL DEF MqSpec, MsgQueueIsChannel, MqChannel!Spec

(* No wake-up of a message queue is lost: while receivers are left on its list  *)
(* every message has a woken receiver on its way, and every free slot a woken    *)
(* sender while senders are left.                                              *)
THEOREM MessageAlwaysClaimed == MqSpec => []MessageIsClaimed
<1>1. MqInv => MessageIsClaimed
  BY DEF MqInv
<1> QED
  BY <1>1, MsgQueueInvariance, PTL

(* The types of the message queue: entry never exceeds the number of slots.      *)
THEOREM MsgQueueTypes == MqSpec => []MqTypeOK
<1>1. MqInv => MqTypeOK
  BY DEF MqInv, MqFrame, Frame, CallsInv, MqOK, QueueOK, QueueType, MqTypeOK
<1> QED
  BY <1>1, MsgQueueInvariance, PTL

(* A message queue whose waiters are untimed when it is detached forgets nobody. *)
THEOREM MsgQueueForgetsNobody ==
    ASSUME ~DetachTimed PROVE MqSpec => []NobodyForgotten
<1>1. MqInv => NobodyForgotten
  BY NothingForgotten DEF MqInv, MqFrame, Frame, NobodyForgotten
<1> QED
  BY <1>1, MsgQueueInvariance, PTL
=============================================================================
