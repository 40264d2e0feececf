----------------------------- MODULE TimerProofs -----------------------------
(***************************************************************************)
(* The safety properties of Timer.tla, for any timers, any width of the    *)
(* tick counter and any periods below half its range.                      *)
(*                                                                         *)
(* The comparisons of rt_timer_start and rt_timer_check are differences    *)
(* modulo W.  The invariant says that they are never ambiguous: every      *)
(* timer in the list times out between one tick ago and Half - 1 ticks     *)
(* from now (Off), the list is sorted by that, and the history variable    *)
(* due, which counts the ticks of the promise, follows it.                 *)
(***************************************************************************)
EXTENDS Timer, KernelProofs

\* When tick a comes, in ticks from tick r; -1 is one tick ago.
OffOf(a, r) == LET d == Distance(a, r) IN IF d = W - 1 THEN -1 ELSE d

\* When each timer times out, in ticks from now.
Off == [t \in Timer |-> OffOf(timeout_tick[t], rt_tick)]

\* A timer that was started with 0 is called at the next tick, one tick late.
Earliest == IF checking THEN 0 ELSE 1

\* a comes before b in the list s.
Before(s, a, b) ==
    \E m \in 1 .. Len(s), n \in 1 .. Len(s) : m < n /\ s[m] = a /\ s[n] = b

SortedBy(l, o) ==
    \A i \in 1 .. Len(l), j \in 1 .. Len(l) : i < j => o[l[i]] <= o[l[j]]

TiesBy(l, s, tick) ==
    \A i \in 1 .. Len(l), j \in 1 .. Len(l) :
        i < j /\ tick[l[i]] = tick[l[j]] => Before(s, l[i], l[j])

\* The timeouts of the timers in l are less than half the range away, and due
\* follows them.
DueFollows(l) ==
    \A t \in ToSet(l) :
        /\ Off[t] \in -1 .. Half - 1
        /\ ~checking => Off[t] >= 0
        /\ due[t] = IF Off[t] >= Earliest THEN Off[t] ELSE Earliest

\* The timer list l, whose timers were started in the order s.
ListOK(l, s) ==
    /\ l \in Seq(Timer) /\ IsInjective(l)
    /\ s \in Seq(Timer) /\ IsInjective(s) /\ ToSet(s) = ToSet(l)
    /\ DueFollows(l)
    /\ SortedBy(l, Off)
    /\ TiesBy(l, s, timeout_tick)

\* A callback runs inside rt_timer_check; its timer is on the temporary list or
\* on the timer list, not on both.
CheckFacts ==
    /\ ~checking => firing = None
    /\ listed => firing # None /\ firing \notin ToSet(rt_timer_list)

\* The timers in the list are active, and of the others only a periodic one whose
\* callback is running.
ActiveFacts ==
    /\ ToSet(rt_timer_list) \subseteq activated
    /\ activated \subseteq ToSet(rt_timer_list) \union (IF listed THEN {firing} ELSE {})
    /\ listed /\ firing \in activated => firing \in periodic

TimerInv ==
    /\ TypeOK /\ DetachedIsUnlinked /\ CheckFacts
    /\ ListOK(rt_timer_list, started)
    /\ CallbackSetsOneshot \/ ActiveFacts

-----------------------------------------------------------------------------
(* Arithmetic of ticks *)

(* A tick is a number below W, and half the range is at least two ticks.     *)
LEMMA TickRange ==
    /\ W \in Nat /\ W >= 5 /\ RT_TICK_MAX = W - 1
    /\ Half \in Nat /\ Half >= 2 /\ 2 * Half <= W - 1
    /\ Time \subseteq 0 .. Half - 1
<1>1. W \in Nat /\ W >= 5 /\ Time \subseteq 0 .. Half - 1
  BY TimerAssumption
<1>2. Half \in Nat /\ Half >= 2 /\ 2 * Half <= W - 1
  BY <1>1 DEF Half, RT_TICK_MAX
<1> QED
  BY <1>1, <1>2 DEF RT_TICK_MAX

(* Adding to a tick wraps at most once.                                      *)
LEMMA TickPlus ==
    ASSUME NEW r \in 0 .. W - 1, NEW c \in 0 .. W - 1
    PROVE  (r + c) % W = IF r + c < W THEN r + c ELSE r + c - W
<1>1. W \in Nat /\ W >= 5
  BY TickRange
<1>2. ASSUME NEW x \in Int, 0 <= x, x < W PROVE x % W = x
  BY <1>1, <1>2
<1>3. ASSUME NEW x \in Int, 0 <= x, x < W PROVE (x + W) % W = x
  BY <1>1, <1>3
<1>4. CASE r + c < W
  BY <1>1, <1>2, <1>4
<1>5. CASE r + c >= W
  <2>1. r + c - W \in Int /\ 0 <= r + c - W /\ r + c - W < W
    BY <1>1, <1>5
  <2>2. ((r + c - W) + W) % W = r + c - W
    BY <1>3, <2>1
  <2>3. (r + c - W) + W = r + c
    BY <1>1
  <2> QED
    BY <1>1, <1>5, <2>2, <2>3
<1> QED
  BY <1>1, <1>4, <1>5

(* The difference of two ticks is the number of ticks from one to the other. *)
LEMMA DistanceValue ==
    ASSUME NEW a \in 0 .. W - 1, NEW b \in 0 .. W - 1
    PROVE  Distance(a, b) = IF a >= b THEN a - b ELSE a - b + W
<1>1. W \in Nat /\ W >= 5
  BY TickRange
<1>2. ASSUME NEW x \in Int, 0 <= x, x < W PROVE x % W = x
  BY <1>1, <1>2
<1>3. ASSUME NEW x \in Int, 0 <= x, x < W PROVE (x - W) % W = x
  BY <1>1, <1>3
<1>4. CASE a >= b
  BY <1>1, <1>2, <1>4 DEF Distance
<1>5. CASE a < b
  <2>1. a - b + W \in Int /\ 0 <= a - b + W /\ a - b + W < W
    BY <1>1, <1>5
  <2>2. ((a - b + W) - W) % W = a - b + W
    BY <1>3, <2>1
  <2>3. (a - b + W) - W = a - b
    BY <1>1
  <2> QED
    BY <1>1, <1>5, <2>2, <2>3 DEF Distance
<1> QED
  BY <1>1, <1>4, <1>5

(* What OffOf is without a modulus.                                          *)
LEMMA OffValue ==
    ASSUME NEW a \in 0 .. W - 1, NEW r \in 0 .. W - 1
    PROVE  OffOf(a, r) = IF a - r = W - 1 \/ a - r = -1
                         THEN -1
                         ELSE IF a >= r THEN a - r ELSE a - r + W
BY DistanceValue, TickRange DEF OffOf

(* The comparison of rt_timer_start: a timer of the list is later than a new   *)
(* one that is to time out c ticks from now exactly if its own timeout is more *)
(* than c ticks away.                                                         *)
LEMMA LaterIsOff ==
    ASSUME NEW a \in 0 .. W - 1, NEW r \in 0 .. W - 1, OffOf(a, r) \in -1 .. Half - 1,
           NEW c \in 0 .. Half - 1, NEW tick, tick = (r + c) % W
    PROVE  /\ tick \in 0 .. W - 1
           /\ OffOf(tick, r) = c
           /\ Later(a, tick) <=> OffOf(a, r) > c
           /\ OffOf(a, r) > c => a # tick
<1>1. c \in 0 .. W - 1
  BY TickRange
<1>2. tick = IF r + c < W THEN r + c ELSE r + c - W
  BY <1>1, TickPlus
<1>3. tick \in 0 .. W - 1
  BY <1>1, <1>2, TickRange
<1>4. Distance(a, tick) = IF a >= tick THEN a - tick ELSE a - tick + W
  BY <1>3, DistanceValue
<1>5. OffOf(a, r) = IF a - r = W - 1 \/ a - r = -1
                     THEN -1 ELSE IF a >= r THEN a - r ELSE a - r + W
  BY OffValue
<1>6. OffOf(tick, r) = IF tick - r = W - 1 \/ tick - r = -1
                     THEN -1 ELSE IF tick >= r THEN tick - r ELSE tick - r + W
  BY <1>3, OffValue
<1>7. OffOf(tick, r) = c
  BY <1>1, <1>2, <1>3, <1>6, TickRange
<1>8. Later(a, tick) <=> OffOf(a, r) > c
  BY <1>1, <1>2, <1>3, <1>4, <1>5, TickRange DEF Later
<1>9. OffOf(a, r) > c => a # tick
  BY <1>7
<1> QED
  BY <1>3, <1>7, <1>8, <1>9

(* The comparison of rt_timer_check: the timer has reached its time exactly if *)
(* its timeout is now or one tick ago.                                        *)
LEMMA ExpiredIsOff ==
    ASSUME NEW a \in 0 .. W - 1, NEW r \in 0 .. W - 1, OffOf(a, r) \in -1 .. Half - 1
    PROVE  Distance(r, a) < Half <=> OffOf(a, r) <= 0
<1>1. Distance(r, a) = IF r >= a THEN r - a ELSE r - a + W
  BY DistanceValue
<1> QED
  BY <1>1, OffValue, TickRange

(* A tick brings every timeout that has not passed one tick nearer.           *)
LEMMA TickIsNearer ==
    ASSUME NEW a \in 0 .. W - 1, NEW r \in 0 .. W - 1, OffOf(a, r) \in 0 .. Half - 1
    PROVE  (r + 1) % W \in 0 .. W - 1 /\ OffOf(a, (r + 1) % W) = OffOf(a, r) - 1
<1>1. (r + 1) % W = IF r + 1 < W THEN r + 1 ELSE r + 1 - W
  BY TickPlus, TickRange
<1> DEFINE q == (r + 1) % W
<1> HIDE DEF q
<1>2. q = IF r + 1 < W THEN r + 1 ELSE r + 1 - W
  BY <1>1 DEF q
<1>3. q \in 0 .. W - 1
  BY <1>2, TickRange
<1>4. OffOf(a, q) = IF a - q = W - 1 \/ a - q = -1
                     THEN -1 ELSE IF a >= q THEN a - q ELSE a - q + W
  BY <1>3, OffValue
<1>5. OffOf(a, r) = IF a - r = W - 1 \/ a - r = -1
                     THEN -1 ELSE IF a >= r THEN a - r ELSE a - r + W
  BY OffValue
<1>6. OffOf(a, q) = OffOf(a, r) - 1
  BY <1>2, <1>3, <1>4, <1>5, TickRange
<1> QED
  BY <1>3, <1>6 DEF q

(* The ticks of a state are ticks.                                           *)
LEMMA TickTypes ==
    ASSUME TypeOK, NEW t \in Timer
    PROVE  /\ timeout_tick[t] \in 0 .. W - 1 /\ rt_tick \in 0 .. W - 1
           /\ Off[t] = OffOf(timeout_tick[t], rt_tick)
BY TickRange DEF TypeOK, Off

-----------------------------------------------------------------------------
(* Order in lists *)

(* What comes earlier in a list after a timer was unlinked came earlier before. *)
LEMMA RemoveKeepsOrder ==
    ASSUME NEW l \in Seq(Timer), NEW t, NEW r, r = RemoveFirst(l, t),
           NEW i \in 1 .. Len(r), NEW j \in 1 .. Len(r), i < j
    PROVE  Before(l, r[i], r[j])
<1>1. CASE t \in ToSet(l)
  <2>0. \E p : l[p] = t /\ WithoutNode(r, l, p)
    BY ONLY <1>1, l \in Seq(Timer), r = RemoveFirst(l, t), RemovePositions
  <2>1. Len(r) = Len(l) - 1
    BY <2>0 DEF WithoutNode
  <2>2. PICK p \in 1 .. Len(l) :
            /\ l[p] = t
            /\ \A h \in 1 .. Len(l) - 1 : r[h] = IF h < p THEN l[h] ELSE l[h + 1]
    BY <2>0 DEF WithoutNode
  <2> DEFINE f(h) == IF h < p THEN h ELSE h + 1
  <2>3. i \in 1 .. Len(l) - 1 /\ j \in 1 .. Len(l) - 1
    BY <2>1
  <2>4. f(i) \in 1 .. Len(l) /\ f(j) \in 1 .. Len(l) /\ f(i) < f(j)
    BY <2>3
  <2>5. l[f(i)] = r[i] /\ l[f(j)] = r[j]
    BY <2>2, <2>3
  <2> QED
    BY <2>4, <2>5 DEF Before
<1>2. CASE t \notin ToSet(l)
  <2>1. r = l
    BY <1>2, ToSetIsRange DEF RemoveFirst
  <2> QED
    BY <2>1 DEF Before
<1> QED
  BY <1>1, <1>2

(* Two other timers keep their order when one is unlinked.                   *)
LEMMA RemoveKeepsBefore ==
    ASSUME NEW s \in Seq(Timer), NEW t, NEW a, NEW b, a # t, b # t, Before(s, a, b)
    PROVE  Before(RemoveFirst(s, t), a, b)
<1> DEFINE r == RemoveFirst(s, t)
<1>1. PICK m \in 1 .. Len(s), n \in 1 .. Len(s) : m < n /\ s[m] = a /\ s[n] = b
  BY DEF Before
<1>2. CASE t \in ToSet(s)
  <2>0. \E p : s[p] = t /\ WithoutNode(r, s, p)
    BY ONLY <1>2, s \in Seq(Timer), RemovePositions
  <2> HIDE DEF r
  <2>1. Len(r) = Len(s) - 1
    BY <2>0 DEF WithoutNode
  <2>2. PICK p \in 1 .. Len(s) :
            /\ s[p] = t
            /\ \A h \in 1 .. Len(s) - 1 : r[h] = IF h < p THEN s[h] ELSE s[h + 1]
    BY <2>0 DEF WithoutNode
  <2> DEFINE f(h) == IF h < p THEN h ELSE h - 1
  <2>3. m # p /\ n # p
    BY <1>1, <2>2
  <2>4. f(m) \in 1 .. Len(r) /\ f(n) \in 1 .. Len(r) /\ f(m) < f(n)
    BY <1>1, <2>1, <2>3
  <2>5. ASSUME NEW h \in 1 .. Len(s), h # p PROVE r[f(h)] = s[h]
    <3>1. CASE h < p
      BY <2>2, <3>1
    <3>2. CASE h > p
      <4>1. h - 1 \in 1 .. Len(s) - 1 /\ ~(h - 1 < p) /\ (h - 1) + 1 = h
        BY <3>2
      <4>2. r[h - 1] = s[(h - 1) + 1]
        BY <2>2, <4>1
      <4> QED
        BY <3>2, <4>1, <4>2
    <3> QED
      BY <2>5, <3>1, <3>2
  <2> QED
    BY <1>1, <2>3, <2>4, <2>5 DEF Before, r
<1>3. CASE t \notin ToSet(s)
  <2>1. RemoveFirst(s, t) = s
    BY <1>3, ToSetIsRange DEF RemoveFirst
  <2> QED
    BY <2>1
<1> QED
  BY <1>2, <1>3

(* A timer that is taken off leaves the others sorted, ties in the order of   *)
(* their starts.                                                             *)
LEMMA RemoveKeepsSorted ==
    ASSUME NEW l \in Seq(Timer), IsInjective(l), NEW s \in Seq(Timer), NEW t,
           NEW o, SortedBy(l, o), NEW tick, TiesBy(l, s, tick)
    PROVE  /\ SortedBy(RemoveFirst(l, t), o)
           /\ TiesBy(RemoveFirst(l, t), RemoveFirst(s, t), tick)
<1> DEFINE r == RemoveFirst(l, t)
<1>1. r \in Seq(Timer) /\ ToSet(r) = ToSet(l) \ {t}
  BY RemoveFirstRemoves
<1>2. ASSUME NEW i \in 1 .. Len(r), NEW j \in 1 .. Len(r), i < j
      PROVE  /\ o[r[i]] <= o[r[j]]
             /\ tick[r[i]] = tick[r[j]] => Before(RemoveFirst(s, t), r[i], r[j])
  <2>0. Before(l, r[i], r[j])
    BY <1>2, RemoveKeepsOrder
  <2>1. PICK m \in 1 .. Len(l), n \in 1 .. Len(l) : m < n /\ l[m] = r[i] /\ l[n] = r[j]
    BY <1>2, <2>0 DEF Before
  <2>2. o[r[i]] <= o[r[j]]
    BY <2>1 DEF SortedBy
  <2>3. r[i] # t /\ r[j] # t
    BY <1>1, ToSetIsRange
  <2>4. tick[r[i]] = tick[r[j]] => Before(s, r[i], r[j])
    BY <2>1 DEF TiesBy
  <2>5. ASSUME tick[r[i]] = tick[r[j]] PROVE Before(RemoveFirst(s, t), r[i], r[j])
    BY ONLY <2>3, <2>4, <2>5, s \in Seq(Timer), RemoveKeepsBefore
  <2> QED
    BY ONLY <2>2, <2>5
<1> QED
  BY <1>2 DEF SortedBy, TiesBy

(* The first timer of the list is unlinked by rt_timer_check.                *)
LEMMA TailIsRemove ==
    ASSUME NEW l \in Seq(Timer), IsInjective(l), l # <<>>
    PROVE  Tail(l) = RemoveFirst(l, Head(l))
<1> DEFINE r == RemoveFirst(l, Head(l))
<1>1. Head(l) \in ToSet(l)
  BY HeadIsElement
<1>0. r \in Seq(Timer) /\ \E p : l[p] = Head(l) /\ WithoutNode(r, l, p)
  BY ONLY <1>1, l \in Seq(Timer), RemovePositions
<1> HIDE DEF r
<1>2. r \in Seq(Timer) /\ Len(r) = Len(l) - 1
  BY <1>0 DEF WithoutNode
<1>3. PICK p \in 1 .. Len(l) :
          /\ l[p] = Head(l)
          /\ \A h \in 1 .. Len(l) - 1 : r[h] = IF h < p THEN l[h] ELSE l[h + 1]
  BY <1>0 DEF WithoutNode
<1>4. p = 1
  BY <1>3 DEF IsInjective
<1>5. \A h \in 1 .. Len(l) - 1 : r[h] = l[h + 1]
  BY <1>3, <1>4
<1>6. Tail(l) \in Seq(Timer) /\ Len(Tail(l)) = Len(l) - 1
      /\ \A h \in 1 .. Len(l) - 1 : Tail(l)[h] = l[h + 1]
  OBVIOUS
<1>7. Tail(l) = r
  BY <1>2, <1>5, <1>6, SeqEqual
<1> QED
  BY <1>7 DEF r

(* A timer that is put behind those that time out no later, and before those  *)
(* that do, leaves the list sorted.                                          *)
LEMMA InsertKeepsSorted ==
    ASSUME NEW l \in Seq(Timer), NEW t \in Timer, NEW n \in 1 .. Len(l) + 1,
           NEW r, r = InsertAt(l, n, t), NEW o, SortedBy(l, o),
           \A i \in 1 .. n - 1 : o[l[i]] <= o[t],
           \A i \in n .. Len(l) : o[t] <= o[l[i]],
           o \in [Timer -> Int]
    PROVE  SortedBy(r, o)
<1>1. /\ r \in Seq(Timer) /\ Len(r) = Len(l) + 1
      /\ \A j \in 1 .. n - 1 : r[j] = l[j]
      /\ r[n] = t
      /\ \A j \in n + 1 .. Len(l) + 1 : r[j] = l[j - 1]
  <2>1. r \in Seq(Timer) /\ WithNode(r, l, n, t)
    BY ONLY l \in Seq(Timer), t \in Timer, n \in 1 .. Len(l) + 1, r = InsertAt(l, n, t),
            InsertPositions
  <2> QED
    BY ONLY <2>1 DEF WithNode
<1> SUFFICES ASSUME NEW i \in 1 .. Len(r), NEW j \in 1 .. Len(r), i < j
             PROVE  o[r[i]] <= o[r[j]]
  BY DEF SortedBy
<1>2. \A g \in 1 .. Len(l), h \in 1 .. Len(l) : g < h => o[l[g]] <= o[l[h]]
  BY DEF SortedBy
<1>0. /\ Len(l) \in Nat /\ n \in Int /\ 1 <= n /\ n <= Len(l) + 1
      /\ i \in Int /\ j \in Int /\ 1 <= i /\ i < j /\ j <= Len(l) + 1
  BY <1>1
<1>3. CASE j < n
  <2>1. r[i] = l[i] /\ r[j] = l[j] /\ i \in 1 .. Len(l) /\ j \in 1 .. Len(l)
    BY ONLY <1>0, <1>1, <1>3
  <2> QED
    BY ONLY <1>0, <1>2, <2>1
<1>4. CASE j = n
  <2>1. r[i] = l[i] /\ r[j] = t /\ i \in 1 .. n - 1
    BY ONLY <1>0, <1>1, <1>4
  <2> QED
    BY ONLY <2>1, \A h \in 1 .. n - 1 : o[l[h]] <= o[t]
<1>5. CASE j > n /\ i < n
  <2>1. r[i] = l[i] /\ r[j] = l[j - 1] /\ i \in 1 .. n - 1 /\ j - 1 \in n .. Len(l)
    BY ONLY <1>0, <1>1, <1>5
  <2>2. o[l[i]] <= o[t] /\ o[t] <= o[l[j - 1]]
    BY ONLY <2>1, \A h \in 1 .. n - 1 : o[l[h]] <= o[t],
            \A h \in n .. Len(l) : o[t] <= o[l[h]]
  <2>3. i \in 1 .. Len(l) /\ j - 1 \in 1 .. Len(l)
    BY ONLY <1>0, <2>1
  <2>4. o[l[i]] \in Int /\ o[t] \in Int /\ o[l[j - 1]] \in Int
    BY ONLY <2>3, l \in Seq(Timer), t \in Timer, o \in [Timer -> Int]
  <2> QED
    BY ONLY <2>1, <2>2, <2>4
<1>6. CASE j > n /\ i = n
  <2>1. j \in n + 1 .. Len(l) + 1 /\ j - 1 \in n .. Len(l)
    BY ONLY <1>0, <1>6
  <2>2. r[i] = t /\ r[j] = l[j - 1]
    BY ONLY <1>1, <1>6, <2>1
  <2> QED
    BY ONLY <2>1, <2>2, \A h \in n .. Len(l) : o[t] <= o[l[h]]
<1>7. CASE j > n /\ i > n
  <2>1. /\ r[i] = l[i - 1] /\ r[j] = l[j - 1]
        /\ i - 1 \in 1 .. Len(l) /\ j - 1 \in 1 .. Len(l) /\ i - 1 < j - 1
    BY ONLY <1>0, <1>1, <1>7
  <2> QED
    BY ONLY <1>2, <2>1
<1> QED
  BY ONLY <1>0, <1>3, <1>4, <1>5, <1>6, <1>7

(* A timer that is put before those that time out later, and is the last that *)
(* was started, leaves ties in the order of the starts.                      *)
LEMMA InsertKeepsTies ==
    ASSUME NEW l \in Seq(Timer), NEW t \in Timer, NEW n \in 1 .. Len(l) + 1,
           NEW r, r = InsertAt(l, n, t),
           NEW s \in Seq(Timer), ToSet(l) \subseteq ToSet(s), NEW tick, TiesBy(l, s, tick),
           \A i \in n .. Len(l) : tick[t] # tick[l[i]]
    PROVE  TiesBy(r, Append(s, t), tick)
<1>1. /\ r \in Seq(Timer) /\ Len(r) = Len(l) + 1
      /\ \A j \in 1 .. n - 1 : r[j] = l[j]
      /\ r[n] = t
      /\ \A j \in n + 1 .. Len(l) + 1 : r[j] = l[j - 1]
  <2>1. r \in Seq(Timer) /\ WithNode(r, l, n, t)
    BY ONLY l \in Seq(Timer), t \in Timer, n \in 1 .. Len(l) + 1, r = InsertAt(l, n, t),
            InsertPositions
  <2> QED
    BY ONLY <2>1 DEF WithNode
<1> DEFINE u == Append(s, t)
<1>2. /\ u \in Seq(Timer) /\ Len(u) = Len(s) + 1
      /\ \A j \in 1 .. Len(s) : u[j] = s[j]
      /\ u[Len(s) + 1] = t
  OBVIOUS
<1> SUFFICES ASSUME NEW i \in 1 .. Len(r), NEW j \in 1 .. Len(r), i < j,
                    tick[r[i]] = tick[r[j]]
             PROVE  Before(u, r[i], r[j])
  BY DEF TiesBy
<1> HIDE DEF u
<1>0. /\ Len(l) \in Nat /\ n \in Int /\ 1 <= n /\ n <= Len(l) + 1
      /\ i \in Int /\ j \in Int /\ 1 <= i /\ i < j /\ j <= Len(l) + 1
  BY <1>1
<1>3. ASSUME NEW g \in 1 .. Len(l), NEW h \in 1 .. Len(l), g < h, tick[l[g]] = tick[l[h]]
      PROVE  Before(u, l[g], l[h])
  <2>1. Before(s, l[g], l[h])
    BY <1>3 DEF TiesBy
  <2> QED
    BY <1>2, <2>1 DEF Before
<1>4. CASE j < n
  <2>1. r[i] = l[i] /\ r[j] = l[j] /\ i \in 1 .. Len(l) /\ j \in 1 .. Len(l)
    BY ONLY <1>0, <1>1, <1>4
  <2> QED
    BY <1>3, <2>1
<1>5. CASE j = n
  <2>1. r[i] = l[i] /\ r[j] = t /\ i \in 1 .. Len(l)
    BY ONLY <1>0, <1>1, <1>5
  <2>2. l[i] \in ToSet(l)
    BY <2>1, ToSetIsRange
  <2>3. PICK m \in 1 .. Len(s) : s[m] = l[i]
    <3>1. l[i] \in ToSet(s)
      BY <2>2
    <3> QED
      BY ONLY <3>1, s \in Seq(Timer), ToSetIsRange
  <2>4. m \in 1 .. Len(u) /\ Len(s) + 1 \in 1 .. Len(u) /\ m < Len(s) + 1 /\ u[m] = r[i] /\ u[Len(s) + 1] = r[j]
    BY <1>2, <2>1, <2>3
  <2> QED
    BY <2>4 DEF Before
<1>6. CASE j > n /\ i < n
  <2>1. r[i] = l[i] /\ r[j] = l[j - 1] /\ i \in 1 .. Len(l) /\ j - 1 \in 1 .. Len(l) /\ i < j - 1
    BY ONLY <1>0, <1>1, <1>6
  <2> QED
    BY <1>3, <2>1
<1>7. CASE j > n /\ i = n
  <2>1. r[i] = t /\ r[j] = l[j - 1] /\ j - 1 \in n .. Len(l)
    BY ONLY <1>0, <1>1, <1>7
  <2> QED
    BY <2>1
<1>8. CASE j > n /\ i > n
  <2>1. r[i] = l[i - 1] /\ r[j] = l[j - 1] /\ i - 1 \in 1 .. Len(l) /\ j - 1 \in 1 .. Len(l) /\ i - 1 < j - 1
    BY ONLY <1>0, <1>1, <1>8
  <2> QED
    BY <1>3, <2>1
<1> QED
  BY ONLY <1>0, <1>4, <1>5, <1>6, <1>7, <1>8

(* The search of rt_timer_start stops behind every timer that times out no    *)
(* later than the new one, and before every other.                           *)
LEMMA PositionIsRight ==
    ASSUME TypeOK, NEW l \in Seq(Timer), SortedBy(l, Off),
           \A x \in ToSet(l) : Off[x] \in -1 .. Half - 1,
           NEW c \in 0 .. Half - 1, NEW tick, tick = (rt_tick + c) % W,
           NEW n, n = Position(l, tick)
    PROVE  /\ n \in 1 .. Len(l) + 1
           /\ \A i \in 1 .. n - 1 : Off[l[i]] <= c
           /\ \A i \in n .. Len(l) : Off[l[i]] > c /\ timeout_tick[l[i]] # tick
<1> DEFINE after == {i \in 1 .. Len(l) : Later(timeout_tick[l[i]], tick)}
<1>1. ASSUME NEW i \in 1 .. Len(l)
      PROVE  /\ l[i] \in Timer /\ Off[l[i]] \in -1 .. Half - 1
             /\ i \in after <=> Off[l[i]] > c
             /\ Off[l[i]] > c => timeout_tick[l[i]] # tick
  <2>1. l[i] \in Timer /\ Off[l[i]] \in -1 .. Half - 1
    BY ToSetIsRange
  <2>2. /\ timeout_tick[l[i]] \in 0 .. W - 1 /\ rt_tick \in 0 .. W - 1
        /\ Off[l[i]] = OffOf(timeout_tick[l[i]], rt_tick)
    BY <2>1, TickTypes
  <2> QED
    BY <2>1, <2>2, LaterIsOff
<1>2. n = IF after = {} THEN Len(l) + 1 ELSE CHOOSE i \in after : \A j \in after : i <= j
  BY DEF Position
<1>3. after \in SUBSET (1 .. Len(l))
  OBVIOUS
<1> HIDE DEF after
<1>4. CASE after = {}
  BY <1>1, <1>2, <1>3, <1>4
<1>5. CASE after # {}
  <2>1. n = Min(after)
    BY <1>2, <1>5 DEF Min
  <2>2. n \in after /\ \A y \in after : n <= y
    <3>1. after \in SUBSET Nat
      BY <1>3
    <3> QED
      BY <1>5, <2>1, <3>1, MinIsLeast
  <2>3. n \in 1 .. Len(l) /\ Off[l[n]] > c
    BY <1>1, <1>3, <2>2
  <2>4. ASSUME NEW i \in 1 .. n - 1 PROVE Off[l[i]] <= c
    <3>1. i \in 1 .. Len(l) /\ i \notin after
      BY <2>2, <2>3
    <3> QED
      BY <1>1, <3>1
  <2>5. ASSUME NEW i \in n .. Len(l) PROVE Off[l[i]] > c
    <3>1. i \in 1 .. Len(l) /\ (i = n \/ n < i)
      BY <2>3
    <3>2. i # n => Off[l[n]] <= Off[l[i]]
      BY <2>3, <3>1 DEF SortedBy
    <3> QED
      BY <1>1, <2>3, <3>1, <3>2
  <2>6. \A i \in n .. Len(l) : i \in 1 .. Len(l)
    BY <2>3
  <2> QED
    BY <1>1, <2>3, <2>4, <2>5, <2>6
<1> QED
  BY <1>4, <1>5

-----------------------------------------------------------------------------
(* What the operations do to the list *)

(* _rt_timer_remove keeps the rest of the list as it should be.              *)
LEMMA RemoveOK ==
    ASSUME NEW l, NEW s, ListOK(l, s), NEW t
    PROVE  /\ ListOK(RemoveFirst(l, t), RemoveFirst(s, t))
           /\ ToSet(RemoveFirst(l, t)) = ToSet(l) \ {t}
<1> DEFINE m == RemoveFirst(l, t)
           r == RemoveFirst(s, t)
<1>1. /\ m \in Seq(Timer) /\ ToSet(m) = ToSet(l) \ {t} /\ IsInjective(m)
  BY RemoveFirstRemoves DEF ListOK
<1>2. /\ r \in Seq(Timer) /\ ToSet(r) = ToSet(s) \ {t} /\ IsInjective(r)
  BY RemoveFirstRemoves DEF ListOK
<1>3. SortedBy(m, Off) /\ TiesBy(m, r, timeout_tick)
  BY RemoveKeepsSorted DEF ListOK
<1> HIDE DEF m, r
<1>4. ToSet(r) = ToSet(m)
  BY <1>1, <1>2 DEF ListOK
<1>5. DueFollows(m)
  BY <1>1 DEF ListOK, DueFollows
<1> QED
  BY <1>1, <1>2, <1>3, <1>4, <1>5 DEF ListOK, m, r

(* A step that leaves the tick and the timeouts of the listed timers alone     *)
(* leaves the list as it should be.                                          *)
LEMMA FrameOK ==
    ASSUME NEW l, NEW s, ListOK(l, s), rt_timer_list' = l, started' = s,
           UNCHANGED <<rt_tick, checking, due>>, TypeOK,
           timeout_tick' \in [Timer -> 0 .. RT_TICK_MAX],
           \A x \in ToSet(l) : timeout_tick'[x] = timeout_tick[x]
    PROVE  ListOK(rt_timer_list, started)'
<1>1. \A i \in 1 .. Len(l) : l[i] \in Timer /\ l[i] \in ToSet(l)
  BY ToSetIsRange DEF ListOK
<1>2. \A x \in ToSet(l) : x \in Timer
  BY <1>1, ToSetIsRange DEF ListOK
<1>3. \A x \in ToSet(l) : Off'[x] = Off[x]
  BY <1>2 DEF Off
<1>4. DueFollows(rt_timer_list)'
  BY <1>3 DEF ListOK, DueFollows, Earliest
<1>5. SortedBy(l, Off')
  BY <1>1, <1>3 DEF ListOK, SortedBy
<1>6. TiesBy(l, s, timeout_tick')
  BY <1>1 DEF ListOK, TiesBy
<1> QED
  BY <1>4, <1>5, <1>6 DEF ListOK

(* rt_timer_start puts the timer where it will fire, at the n-th tick from now. *)
LEMMA InsertOK ==
    ASSUME TypeOK, NEW l, NEW s, ListOK(l, s), NEW t \in Timer, t \notin ToSet(l),
           Insert(t, l, s), UNCHANGED <<rt_tick, init_tick, checking>>
    PROVE  /\ ListOK(rt_timer_list, started)'
           /\ ToSet(rt_timer_list') = ToSet(l) \union {t}
           /\ timeout_tick' \in [Timer -> 0 .. RT_TICK_MAX]
           /\ due' \in [Timer -> 0 .. Half]
<1> DEFINE c == init_tick[t]
           tick == (rt_tick + c) % W
           n == Position(l, tick)
           r == InsertAt(l, n, t)
           u == Append(s, t)
<1>1. c \in 0 .. Half - 1
  BY TickRange DEF TypeOK
<1>2. /\ timeout_tick' = [timeout_tick EXCEPT ![t] = tick]
      /\ rt_timer_list' = r /\ started' = u
      /\ due' = [due EXCEPT ![t] = DueIn(c)]
  BY DEF Insert
<1>3. /\ l \in Seq(Timer) /\ IsInjective(l)
      /\ s \in Seq(Timer) /\ IsInjective(s) /\ ToSet(s) = ToSet(l)
      /\ DueFollows(l) /\ SortedBy(l, Off) /\ TiesBy(l, s, timeout_tick)
  BY DEF ListOK
<1> HIDE DEF c
<1>4. /\ n \in 1 .. Len(l) + 1
      /\ \A i \in 1 .. n - 1 : Off[l[i]] <= c
      /\ \A i \in n .. Len(l) : Off[l[i]] > c /\ timeout_tick[l[i]] # tick
  <2>1. \A x \in ToSet(l) : Off[x] \in -1 .. Half - 1
    BY <1>3 DEF DueFollows
  <2> QED
    BY <1>1, <1>3, <2>1, PositionIsRight
<1>5. /\ timeout_tick[t] \in 0 .. W - 1 /\ rt_tick \in 0 .. W - 1
  BY TickTypes
<1>6. tick \in 0 .. W - 1 /\ OffOf(tick, rt_tick) = c
  <2>1. OffOf(rt_tick, rt_tick) \in -1 .. Half - 1
    BY <1>5, OffValue, TickRange
  <2> QED
    BY <1>1, <1>5, <2>1, LaterIsOff
<1> HIDE DEF tick, n
<1>7. r \in Seq(Timer) /\ ToSet(r) = ToSet(l) \union {t} /\ IsInjective(r)
  BY <1>3, <1>4, InsertAtInserts
<1>8. u \in Seq(Timer) /\ ToSet(u) = ToSet(s) \union {t} /\ IsInjective(u)
  BY <1>3, AppendInserts
<1>9. timeout_tick' \in [Timer -> 0 .. RT_TICK_MAX]
  BY <1>2, <1>6, TickRange DEF TypeOK
<1>10. due' \in [Timer -> 0 .. Half]
  <2>1. DueIn(c) \in 0 .. Half
    BY <1>1, TickRange DEF DueIn
  <2> QED
    BY <1>2, <2>1 DEF TypeOK
<1>11. \A i \in 1 .. Len(l) : l[i] \in Timer /\ l[i] \in ToSet(l) /\ l[i] # t
  BY <1>3, ToSetIsRange
<1>12. \A x \in ToSet(l) : x \in Timer /\ x # t
  BY <1>3, <1>11, ToSetIsRange
<1>13. Off' = [Off EXCEPT ![t] = c]
  BY <1>2, <1>6 DEF Off, TypeOK
<1>14. DueFollows(rt_timer_list)'
  <2>1. ASSUME NEW x \in ToSet(l)
        PROVE  /\ Off'[x] \in -1 .. Half - 1
               /\ ~checking => Off'[x] >= 0
               /\ due'[x] = IF Off'[x] >= Earliest THEN Off'[x] ELSE Earliest
    BY <1>2, <1>3, <1>12, <1>13 DEF DueFollows, Off, TypeOK
  <2>2. /\ Off'[t] \in -1 .. Half - 1
        /\ ~checking => Off'[t] >= 0
        /\ due'[t] = IF Off'[t] >= Earliest THEN Off'[t] ELSE Earliest
    <3>1. Off'[t] = c /\ due'[t] = DueIn(c)
      BY <1>2, <1>13 DEF Off, TypeOK
    <3> QED
      BY <1>1, <3>1 DEF DueIn, Earliest
  <2>3. Earliest' = Earliest /\ checking' = checking
    BY DEF Earliest
  <2>4. ToSet(rt_timer_list') = ToSet(l) \union {t}
    BY <1>2, <1>7
  <2>5. ASSUME NEW x \in ToSet(rt_timer_list')
        PROVE  /\ Off'[x] \in -1 .. Half - 1
               /\ ~checking' => Off'[x] >= 0
               /\ due'[x] = IF Off'[x] >= Earliest' THEN Off'[x] ELSE Earliest'
    <3>1. CASE x = t
      BY <2>2, <2>3, <3>1
    <3>2. CASE x \in ToSet(l)
      BY <2>1, <2>3, <3>2
    <3> QED
      BY <2>4, <3>1, <3>2
  <2> QED
    BY <2>5 DEF DueFollows
<1>15. SortedBy(r, Off')
  <2>1. \A x \in Timer : Off[x] \in Int /\ Off'[x] \in Int
    <3>1. ASSUME NEW a \in 0 .. W - 1 PROVE OffOf(a, rt_tick) \in Int
      BY <1>5, TickRange, OffValue
    <3>2. ASSUME NEW x \in Timer
          PROVE  timeout_tick[x] \in 0 .. W - 1 /\ timeout_tick'[x] \in 0 .. W - 1
      BY <1>9, TickRange DEF TypeOK
    <3> QED
      BY <3>1, <3>2 DEF Off
  <2> DEFINE o == Off'
  <2>2. o \in [Timer -> Int]
    BY <2>1 DEF Off
  <2>3. \A x \in ToSet(l) : o[x] = Off[x]
    BY <1>12, <1>13 DEF Off
  <2>4. o[t] = c
    BY <1>13 DEF Off
  <2> HIDE DEF o
  <2>5. SortedBy(l, o)
    BY <1>3, <1>11, <2>3 DEF SortedBy
  <2>6. \A i \in 1 .. n - 1 : o[l[i]] <= o[t]
    <3>1. \A i \in 1 .. n - 1 : i \in 1 .. Len(l)
      BY <1>3, <1>4
    <3> QED
      BY <1>4, <1>11, <2>3, <2>4, <3>1
  <2>7. \A i \in n .. Len(l) : o[t] <= o[l[i]]
    <3>1. \A i \in n .. Len(l) : i \in 1 .. Len(l)
      BY <1>3, <1>4
    <3> QED
      BY <1>1, <1>4, <1>11, <2>1, <2>3, <2>4, <3>1
  <2>8. SortedBy(r, o)
    BY ONLY <1>3, <1>4, <2>2, <2>5, <2>6, <2>7, t \in Timer, InsertKeepsSorted
  <2> QED
    BY <2>8 DEF o
<1>16. TiesBy(r, u, timeout_tick')
  <2> DEFINE tt == timeout_tick'
  <2>1. tt[t] = tick /\ \A x \in ToSet(l) : tt[x] = timeout_tick[x]
    BY <1>2, <1>12 DEF TypeOK
  <2> HIDE DEF tt
  <2>2. TiesBy(l, s, tt)
    BY <1>3, <1>11, <2>1 DEF TiesBy
  <2>3. \A i \in n .. Len(l) : tt[t] # tt[l[i]]
    <3>1. \A i \in n .. Len(l) : i \in 1 .. Len(l)
      BY <1>3, <1>4
    <3> QED
      BY <1>4, <1>11, <2>1, <3>1
  <2>4. ToSet(l) \subseteq ToSet(s)
    BY <1>3
  <2>5. TiesBy(r, u, tt)
    BY ONLY <1>3, <1>4, <2>2, <2>3, <2>4, t \in Timer, InsertKeepsTies
  <2> QED
    BY <2>5 DEF tt
<1> HIDE DEF r, u
<1> QED
  BY <1>2, <1>3, <1>7, <1>8, <1>9, <1>10, <1>14, <1>15, <1>16 DEF ListOK

-----------------------------------------------------------------------------
(* The invariant *)

(* The list begins empty.                                                    *)
LEMMA TimerStarts == Init => TimerInv
<1> SUFFICES ASSUME Init PROVE TimerInv
  OBVIOUS
<1>1. ToSet(<<>>) = {} /\ Len(<<>>) = 0 /\ <<>> \in Seq(Timer) /\ IsInjective(<<>>)
  BY DEF ToSet, IsInjective
<1>2. TypeOK
  <2>1. checking \in BOOLEAN /\ listed \in BOOLEAN
    BY Zenon DEF Init
  <2> QED
    BY <1>1, <2>1, TickRange DEF Init, TypeOK
<1>3. DetachedIsUnlinked /\ CheckFacts /\ ActiveFacts
  BY <1>1 DEF Init, DetachedIsUnlinked, CheckFacts, ActiveFacts
<1>4. ListOK(rt_timer_list, started)
  BY <1>1 DEF Init, ListOK, DueFollows, SortedBy, TiesBy
<1> QED
  BY <1>2, <1>3, <1>4 DEF TimerInv

(* What unlinking a timer and clearing its flag leave true.                   *)
LEMMA RemoveStep ==
    ASSUME TimerInv, NEW t \in Timer, _rt_timer_remove(t), activated' = activated \ {t},
           UNCHANGED <<rt_tick, timeout_tick, periodic, checking, firing, due>>
    PROVE  /\ ListOK(rt_timer_list, started)'
           /\ CheckFacts'
           /\ CallbackSetsOneshot \/ ActiveFacts'
           /\ ToSet(rt_timer_list') = ToSet(rt_timer_list) \ {t}
           /\ listed' \in BOOLEAN
           /\ listed' => listed /\ firing # t
<1>1. PICK l, s : l = RemoveFirst(rt_timer_list, t) /\ s = RemoveFirst(started, t)
  OBVIOUS
<1>2. ListOK(l, s) /\ ToSet(l) = ToSet(rt_timer_list) \ {t}
  BY <1>1, RemoveOK DEF TimerInv
<1>3. rt_timer_list' = l /\ started' = s /\ listed' = (listed /\ firing # t)
  BY <1>1 DEF _rt_timer_remove
<1>4. ListOK(rt_timer_list, started)'
  <2>1. TypeOK /\ timeout_tick' \in [Timer -> 0 .. RT_TICK_MAX]
    BY DEF TimerInv, TypeOK
  <2> QED
    BY <1>2, <1>3, <2>1, FrameOK
<1>5. listed' \in BOOLEAN
  BY <1>3, Zenon
<1>6. listed' => listed /\ firing # t
  BY <1>3
<1>7. CheckFacts'
  BY <1>2, <1>3, <1>6 DEF TimerInv, CheckFacts
<1>8. CallbackSetsOneshot \/ ActiveFacts'
  BY <1>2, <1>3, <1>6 DEF TimerInv, ActiveFacts
<1> QED
  BY <1>2, <1>3, <1>4, <1>5, <1>6, <1>7, <1>8

(* rt_timer_start.                                                           *)
LEMMA StartStep == ASSUME TimerInv, NEW t \in Timer, rt_timer_start(t) PROVE TimerInv'
<1>1. PICK l, s : l = RemoveFirst(rt_timer_list, t) /\ s = RemoveFirst(started, t)
  OBVIOUS
<1>2. ListOK(l, s) /\ ToSet(l) = ToSet(rt_timer_list) \ {t}
  BY <1>1, RemoveOK DEF TimerInv
<1>3. /\ Insert(t, l, s) /\ t \in alive /\ listed' = (listed /\ firing # t)
      /\ UNCHANGED <<rt_tick, init_tick, periodic, alive, stopping, checking, firing>>
  BY <1>1 DEF rt_timer_start
<1>4. /\ ListOK(rt_timer_list, started)'
      /\ ToSet(rt_timer_list') = ToSet(rt_timer_list) \union {t}
      /\ timeout_tick' \in [Timer -> 0 .. RT_TICK_MAX]
      /\ due' \in [Timer -> 0 .. Half]
  <2>1. TypeOK /\ t \notin ToSet(l)
    BY <1>2 DEF TimerInv
  <2>2. /\ ListOK(rt_timer_list, started)'
        /\ ToSet(rt_timer_list') = ToSet(l) \union {t}
        /\ timeout_tick' \in [Timer -> 0 .. RT_TICK_MAX]
        /\ due' \in [Timer -> 0 .. Half]
    BY <1>2, <1>3, <2>1, InsertOK
  <2> QED
    BY <1>2, <2>2
<1>5. activated' = activated \union {t}
  BY <1>3 DEF Insert
<1>6. listed' \in BOOLEAN /\ (listed' => listed /\ firing # t) /\ (listed /\ firing # t => listed')
  BY <1>3, Zenon
<1>7. TypeOK'
  BY <1>3, <1>4, <1>5, <1>6 DEF TimerInv, TypeOK, ListOK
<1>8. DetachedIsUnlinked' /\ CheckFacts'
  BY <1>3, <1>4, <1>6 DEF TimerInv, DetachedIsUnlinked, CheckFacts
<1>9. CallbackSetsOneshot \/ ActiveFacts'
  BY <1>3, <1>4, <1>5, <1>6 DEF TimerInv, ActiveFacts
<1> QED
  BY <1>4, <1>7, <1>8, <1>9 DEF TimerInv

(* rt_timer_stop, by a thread and by a callback, and rt_timer_detach.          *)
LEMMA RemovalSteps ==
    ASSUME TimerInv, \/ StopRemove
                     \/ \E t \in Timer : CallbackStop(t) \/ rt_timer_detach(t)
    PROVE  TimerInv'
<1>1. ASSUME NEW t \in Timer, Stop(t), stopping' \in Timer \union {None} PROVE TimerInv'
  <2>1. /\ _rt_timer_remove(t) /\ activated' = activated \ {t}
        /\ UNCHANGED <<rt_tick, timeout_tick, init_tick, periodic, alive, checking, firing, due>>
    BY <1>1 DEF Stop
  <2>2. /\ ListOK(rt_timer_list, started)' /\ CheckFacts'
        /\ CallbackSetsOneshot \/ ActiveFacts'
        /\ ToSet(rt_timer_list') = ToSet(rt_timer_list) \ {t}
        /\ listed' \in BOOLEAN
        /\ listed' => listed /\ firing # t
    BY <2>1, RemoveStep
  <2>3. TypeOK'
    BY <1>1, <2>1, <2>2 DEF TimerInv, TypeOK, ListOK
  <2>4. DetachedIsUnlinked'
    BY <2>1, <2>2 DEF TimerInv, DetachedIsUnlinked
  <2> QED
    BY <2>2, <2>3, <2>4 DEF TimerInv
<1>2. CASE StopRemove
  BY <1>1, <1>2 DEF StopRemove, TimerInv, TypeOK
<1>3. ASSUME NEW t \in Timer, CallbackStop(t) PROVE TimerInv'
  BY <1>1, <1>3 DEF CallbackStop, TimerInv, TypeOK
<1>4. ASSUME NEW t \in Timer, rt_timer_detach(t) PROVE TimerInv'
  <2>1. /\ _rt_timer_remove(t) /\ activated' = activated \ {t} /\ alive' = alive \ {t}
        /\ UNCHANGED <<rt_tick, timeout_tick, init_tick, periodic, stopping, checking, firing, due>>
    BY <1>4 DEF rt_timer_detach
  <2>2. /\ ListOK(rt_timer_list, started)' /\ CheckFacts'
        /\ CallbackSetsOneshot \/ ActiveFacts'
        /\ ToSet(rt_timer_list') = ToSet(rt_timer_list) \ {t}
        /\ listed' \in BOOLEAN
        /\ listed' => listed /\ firing # t
    BY <2>1, RemoveStep
  <2>3. TypeOK'
    BY <2>1, <2>2 DEF TimerInv, TypeOK, ListOK
  <2>4. DetachedIsUnlinked'
    BY <2>1, <2>2 DEF TimerInv, DetachedIsUnlinked
  <2> QED
    BY <2>2, <2>3, <2>4 DEF TimerInv
<1> QED
  BY <1>2, <1>3, <1>4

(* The calls that touch neither the list nor the timeout of a listed timer:     *)
(* the first half of rt_timer_stop, rt_timer_init and rt_timer_control.          *)
LEMMA FieldSteps ==
    ASSUME TimerInv, NEW t \in Timer,
           \/ StopTest(t)
           \/ \E time \in Time : SetTime(t, time) \/ \E p \in BOOLEAN : rt_timer_init(t, time, p)
           \/ \E p \in BOOLEAN : SetPeriodic(t, p)
    PROVE  TimerInv'
<1>0. TypeOK /\ DetachedIsUnlinked /\ CheckFacts /\ ListOK(rt_timer_list, started)
      /\ (CallbackSetsOneshot \/ ActiveFacts)
  BY DEF TimerInv
<1>1. ASSUME UNCHANGED <<rt_tick, rt_timer_list, started, checking, due>>,
             timeout_tick' \in [Timer -> 0 .. RT_TICK_MAX],
             \A x \in ToSet(rt_timer_list) : timeout_tick'[x] = timeout_tick[x]
      PROVE  ListOK(rt_timer_list, started)'
  <2>1. PICK l, s : l = rt_timer_list /\ s = started
    OBVIOUS
  <2> QED
    BY <1>0, <1>1, <2>1, FrameOK
<1>2. CASE StopTest(t)
  <2>1. ListOK(rt_timer_list, started)'
    BY <1>0, <1>1, <1>2 DEF StopTest, TypeOK
  <2>2. TypeOK' /\ DetachedIsUnlinked' /\ CheckFacts' /\ (CallbackSetsOneshot \/ ActiveFacts')
    BY <1>0, <1>2 DEF StopTest, TypeOK, DetachedIsUnlinked, CheckFacts, ActiveFacts
  <2> QED
    BY <2>1, <2>2 DEF TimerInv
<1>3. ASSUME NEW time \in Time, SetTime(t, time) PROVE TimerInv'
  <2>1. ListOK(rt_timer_list, started)'
    BY <1>0, <1>1, <1>3 DEF SetTime, TypeOK
  <2>2. TypeOK' /\ DetachedIsUnlinked' /\ CheckFacts' /\ (CallbackSetsOneshot \/ ActiveFacts')
    BY <1>0, <1>3 DEF SetTime, TypeOK, DetachedIsUnlinked, CheckFacts, ActiveFacts
  <2> QED
    BY <2>1, <2>2 DEF TimerInv
<1>4. ASSUME NEW time \in Time, NEW p \in BOOLEAN, rt_timer_init(t, time, p) PROVE TimerInv'
  <2>1. t \notin ToSet(rt_timer_list) /\ t \notin activated
    BY <1>0, <1>4 DEF rt_timer_init, DetachedIsUnlinked, TypeOK
  <2>2. timeout_tick' \in [Timer -> 0 .. RT_TICK_MAX]
    BY <1>0, <1>4, TickRange DEF rt_timer_init, TypeOK
  <2>3. ListOK(rt_timer_list, started)'
    BY <1>0, <1>1, <1>4, <2>1, <2>2 DEF rt_timer_init, TypeOK
  <2>4. TypeOK'
    BY <1>0, <1>4, <2>2 DEF rt_timer_init, TypeOK
  <2>5. DetachedIsUnlinked' /\ CheckFacts'
    BY <1>0, <1>4 DEF rt_timer_init, DetachedIsUnlinked, CheckFacts
  <2>6. CallbackSetsOneshot \/ ActiveFacts'
    BY <1>0, <1>4, <2>1 DEF rt_timer_init, ActiveFacts
  <2> QED
    BY <2>3, <2>4, <2>5, <2>6 DEF TimerInv
<1>5. ASSUME NEW p \in BOOLEAN, SetPeriodic(t, p) PROVE TimerInv'
  <2>1. ListOK(rt_timer_list, started)'
    BY <1>0, <1>1, <1>5 DEF SetPeriodic, TypeOK
  <2>2. TypeOK' /\ DetachedIsUnlinked' /\ CheckFacts'
    BY <1>0, <1>5 DEF SetPeriodic, TypeOK, DetachedIsUnlinked, CheckFacts
  <2>3. CallbackSetsOneshot \/ ActiveFacts'
    BY <1>0, <1>5 DEF SetPeriodic, ActiveFacts
  <2> QED
    BY <2>1, <2>2, <2>3 DEF TimerInv
<1> QED
  BY <1>2, <1>3, <1>4, <1>5

(* The tick: every listed timer is one tick nearer to its timeout.             *)
LEMMA TickStep == ASSUME TimerInv, rt_tick_increase PROVE TimerInv'
<1>0. TypeOK /\ DetachedIsUnlinked /\ CheckFacts /\ ListOK(rt_timer_list, started)
      /\ (CallbackSetsOneshot \/ ActiveFacts)
  BY DEF TimerInv
<1>1. /\ ~checking /\ rt_tick' = (rt_tick + 1) % W
      /\ due' = [t \in Timer |-> IF t \in ToSet(rt_timer_list) THEN due[t] - 1 ELSE due[t]]
      /\ UNCHANGED <<rt_timer_list, timeout_tick, init_tick, activated, periodic,
                     alive, stopping, firing, listed, started>>
  BY DEF rt_tick_increase
<1>2. checking' /\ checking' \in BOOLEAN
  BY Zenon DEF rt_tick_increase
<1>3. PICK l : l = rt_timer_list
  OBVIOUS
<1>4. l \in Seq(Timer) /\ \A i \in 1 .. Len(l) : l[i] \in ToSet(l)
  BY <1>0, <1>3, ToSetIsRange DEF ListOK
<1>5. ASSUME NEW x \in ToSet(l)
      PROVE  /\ x \in Timer
             /\ Off[x] \in 0 .. Half - 1
             /\ due[x] = IF Off[x] >= 1 THEN Off[x] ELSE 1
             /\ Off'[x] = Off[x] - 1
             /\ due'[x] = IF Off'[x] >= 0 THEN Off'[x] ELSE 0
  <2>1. x \in Timer
    BY <1>4, ToSetIsRange
  <2>2. Off[x] \in 0 .. Half - 1 /\ due[x] = IF Off[x] >= 1 THEN Off[x] ELSE 1
    BY <1>0, <1>1, <1>3 DEF ListOK, DueFollows, Earliest
  <2>3. /\ timeout_tick[x] \in 0 .. W - 1 /\ rt_tick \in 0 .. W - 1
        /\ Off[x] = OffOf(timeout_tick[x], rt_tick)
    BY <1>0, <2>1, TickTypes
  <2>4. Off'[x] = OffOf(timeout_tick[x], (rt_tick + 1) % W)
    BY <1>1, <2>1 DEF Off
  <2>5. Off'[x] = Off[x] - 1
    BY <2>2, <2>3, <2>4, TickIsNearer
  <2>6. due'[x] = due[x] - 1
    BY <1>1, <1>3, <2>1
  <2> QED
    BY <2>1, <2>2, <2>5, <2>6
<1>6. TypeOK'
  <2>1. rt_tick' \in 0 .. RT_TICK_MAX
    BY <1>0, <1>1, TickPlus, TickRange DEF TypeOK
  <2>2. due' \in [Timer -> 0 .. Half]
    <3>1. \A x \in Timer : due[x] \in 0 .. Half
      BY <1>0 DEF TypeOK
    <3>2. \A x \in Timer : x \in ToSet(l) => due[x] - 1 \in 0 .. Half
      BY <1>5, <3>1, TickRange
    <3> QED
      BY <1>1, <1>3, <3>1, <3>2
  <2> QED
    BY <1>0, <1>1, <1>2, <2>1, <2>2 DEF TypeOK
<1>7. ListOK(rt_timer_list, started)'
  <2>1. DueFollows(rt_timer_list)'
    <3>1. Earliest' = 0
      BY <1>2 DEF Earliest
    <3>2. \A x \in ToSet(l) :
              /\ Off'[x] \in -1 .. Half - 1
              /\ due'[x] = IF Off'[x] >= Earliest' THEN Off'[x] ELSE Earliest'
      BY <1>5, <3>1, TickRange
    <3> QED
      BY <1>1, <1>2, <1>3, <3>2 DEF DueFollows
  <2>2. SortedBy(rt_timer_list, Off)'
    <3>1. ASSUME NEW i \in 1 .. Len(l), NEW j \in 1 .. Len(l), i < j
          PROVE  Off'[l[i]] <= Off'[l[j]]
      <4>1. Off[l[i]] <= Off[l[j]]
        BY <1>0, <1>3, <3>1 DEF ListOK, SortedBy
      <4> QED
        BY <1>4, <1>5, <4>1
    <3> QED
      BY <1>1, <1>3, <3>1 DEF SortedBy
  <2> QED
    BY <1>0, <1>1, <2>1, <2>2 DEF ListOK
<1>8. DetachedIsUnlinked' /\ (CallbackSetsOneshot \/ ActiveFacts')
  BY <1>0, <1>1 DEF DetachedIsUnlinked, ActiveFacts
<1>9. CheckFacts'
  BY <1>0, <1>1, <1>2 DEF CheckFacts
<1> QED
  BY <1>6, <1>7, <1>8, <1>9 DEF TimerInv

(* What the head of the list being due, or not, says of its timeout.           *)
LEMMA HeadExpired ==
    ASSUME TimerInv, rt_timer_list # <<>>
    PROVE  /\ Head(rt_timer_list) \in ToSet(rt_timer_list) /\ Head(rt_timer_list) \in Timer
           /\ Off[Head(rt_timer_list)] \in -1 .. Half - 1
           /\ Expired <=> Off[Head(rt_timer_list)] <= 0
<1>1. TypeOK /\ ListOK(rt_timer_list, started)
  BY DEF TimerInv
<1>2. PICK h : h = Head(rt_timer_list)
  OBVIOUS
<1>3. h \in ToSet(rt_timer_list) /\ h \in Timer
  BY <1>1, <1>2, HeadIsElement DEF ListOK
<1>4. Off[h] \in -1 .. Half - 1
  BY <1>1, <1>3 DEF ListOK, DueFollows
<1>5. /\ timeout_tick[h] \in 0 .. W - 1 /\ rt_tick \in 0 .. W - 1
      /\ Off[h] = OffOf(timeout_tick[h], rt_tick)
  BY <1>1, <1>3, TickTypes
<1>6. Distance(rt_tick, timeout_tick[h]) < Half <=> Off[h] <= 0
  BY <1>4, <1>5, ExpiredIsOff
<1> QED
  BY <1>2, <1>3, <1>4, <1>6 DEF Expired

(* rt_timer_check takes the first timer off the list and calls it.             *)
LEMMA FireStep == ASSUME TimerInv, CheckFire PROVE TimerInv'
<1>0. TypeOK /\ DetachedIsUnlinked /\ CheckFacts /\ ListOK(rt_timer_list, started)
      /\ (CallbackSetsOneshot \/ ActiveFacts)
  BY DEF TimerInv
<1>1. PICK h : h = Head(rt_timer_list)
  OBVIOUS
<1>2. /\ checking /\ rt_timer_list # <<>> /\ firing' = h
      /\ activated' = (IF h \in periodic THEN activated ELSE activated \ {h})
      /\ started' = RemoveFirst(started, h) /\ rt_timer_list' = Tail(rt_timer_list)
      /\ UNCHANGED <<rt_tick, timeout_tick, init_tick, periodic, alive, stopping, checking, due>>
  BY <1>1 DEF CheckFire, Expired
<1>3. listed' /\ listed' \in BOOLEAN
  BY Zenon DEF CheckFire
<1>4. h \in ToSet(rt_timer_list) /\ h \in Timer /\ h # None
  BY <1>1, <1>2, HeadExpired, TimerAssumption
<1>5. PICK l, s : l = RemoveFirst(rt_timer_list, h) /\ s = RemoveFirst(started, h)
  OBVIOUS
<1>6. ListOK(l, s) /\ ToSet(l) = ToSet(rt_timer_list) \ {h}
  BY <1>0, <1>5, RemoveOK
<1>7. rt_timer_list' = l /\ started' = s
  BY <1>0, <1>1, <1>2, <1>5, TailIsRemove DEF ListOK
<1>8. ListOK(rt_timer_list, started)'
  BY <1>0, <1>2, <1>6, <1>7, FrameOK DEF TypeOK
<1>9. TypeOK'
  BY <1>0, <1>2, <1>3, <1>4, <1>8 DEF TypeOK, ListOK
<1>10. DetachedIsUnlinked' /\ CheckFacts'
  BY <1>0, <1>2, <1>3, <1>4, <1>6, <1>7 DEF DetachedIsUnlinked, CheckFacts
<1>11. CallbackSetsOneshot \/ ActiveFacts'
  <2>1. CASE CallbackSetsOneshot
    BY <2>1
  <2>2. CASE ActiveFacts
    <3>1. ~listed
      BY <1>0, <1>2 DEF CheckFacts, CheckFire
    <3> QED
      BY <1>2, <1>3, <1>4, <1>6, <1>7, <2>2, <3>1 DEF ActiveFacts
  <2> QED
    BY <1>0, <2>1, <2>2
<1> QED
  BY <1>8, <1>9, <1>10, <1>11 DEF TimerInv

(* The callback has returned: a periodic timer is started again.              *)
LEMMA ReturnStep == ASSUME TimerInv, CheckReturn PROVE TimerInv'
<1>0. TypeOK /\ DetachedIsUnlinked /\ CheckFacts /\ ListOK(rt_timer_list, started)
      /\ (CallbackSetsOneshot \/ ActiveFacts)
  BY DEF TimerInv
<1>1. /\ firing # None /\ firing' = None /\ ~listed' /\ firing \in Timer
      /\ UNCHANGED <<rt_tick, init_tick, periodic, alive, stopping, checking>>
  BY <1>0 DEF CheckReturn, TypeOK
<1>2. listed' \in BOOLEAN
  BY Zenon DEF CheckReturn
<1>3. CASE listed /\ firing \in periodic \intersect activated
  <2>1. PICK l, s, t : l = rt_timer_list /\ s = started /\ t = firing
    OBVIOUS
  <2>2. Insert(t, l, s)
    BY <1>3, <2>1 DEF CheckReturn
  <2>3. t \in Timer /\ t \notin ToSet(l) /\ ListOK(l, s)
    BY <1>0, <1>1, <1>3, <2>1 DEF CheckFacts
  <2>4. /\ ListOK(rt_timer_list, started)'
        /\ ToSet(rt_timer_list') = ToSet(l) \union {t}
        /\ timeout_tick' \in [Timer -> 0 .. RT_TICK_MAX]
        /\ due' \in [Timer -> 0 .. Half]
    BY <1>0, <1>1, <2>2, <2>3, InsertOK
  <2>5. activated' = activated
    BY <1>3, <2>1, <2>2 DEF Insert
  <2>6. TypeOK'
    BY <1>0, <1>1, <1>2, <2>4, <2>5 DEF TypeOK, ListOK
  <2>7. DetachedIsUnlinked' /\ CheckFacts'
    BY <1>0, <1>1, <1>3, <2>1, <2>4 DEF DetachedIsUnlinked, CheckFacts
  <2>8. CallbackSetsOneshot \/ ActiveFacts'
    BY <1>0, <1>1, <1>3, <2>1, <2>4, <2>5 DEF ActiveFacts
  <2> QED
    BY <2>4, <2>6, <2>7, <2>8 DEF TimerInv
<1>4. CASE ~(listed /\ firing \in periodic \intersect activated)
  <2>1. UNCHANGED <<timeout_tick, rt_timer_list, started, due, activated>>
    BY <1>4 DEF CheckReturn
  <2>2. PICK l, s : l = rt_timer_list /\ s = started
    OBVIOUS
  <2>3. ListOK(rt_timer_list, started)'
    BY <1>0, <1>1, <2>1, <2>2, FrameOK DEF TypeOK
  <2>4. TypeOK'
    BY <1>0, <1>1, <1>2, <2>1 DEF TypeOK
  <2>5. DetachedIsUnlinked' /\ CheckFacts'
    BY <1>0, <1>1, <2>1 DEF DetachedIsUnlinked, CheckFacts
  <2>6. CallbackSetsOneshot \/ ActiveFacts'
    BY <1>0, <1>1, <1>4, <2>1 DEF ActiveFacts
  <2> QED
    BY <2>3, <2>4, <2>5, <2>6 DEF TimerInv
<1> QED
  BY <1>3, <1>4

(* rt_timer_check returns: no timer of the list has reached its time.         *)
LEMMA DoneStep == ASSUME TimerInv, CheckDone PROVE TimerInv'
<1>0. TypeOK /\ DetachedIsUnlinked /\ CheckFacts /\ ListOK(rt_timer_list, started)
      /\ (CallbackSetsOneshot \/ ActiveFacts)
  BY DEF TimerInv
<1>1. /\ checking /\ firing = None /\ ~Expired
      /\ UNCHANGED <<rt_tick, rt_timer_list, timeout_tick, init_tick, activated,
                     periodic, alive, stopping, firing, listed, due, started>>
  BY DEF CheckDone
<1>2. ~checking' /\ checking' \in BOOLEAN
  BY Zenon DEF CheckDone
<1>3. PICK l : l = rt_timer_list
  OBVIOUS
<1>4. ASSUME NEW x \in ToSet(l) PROVE Off[x] >= 1
  <2>1. l \in Seq(Timer) /\ l # <<>>
    BY <1>0, <1>3, <1>4, EmptyList DEF ListOK
  <2>2. Head(l) = l[1] /\ Off[Head(l)] \in -1 .. Half - 1 /\ Off[Head(l)] >= 1
    BY <1>1, <1>3, <2>1, HeadExpired, TickRange
  <2>3. PICK i \in 1 .. Len(l) : l[i] = x
    BY <2>1, <1>4, ToSetIsRange
  <2>4. Off[x] \in -1 .. Half - 1
    BY <1>0, <1>3, <1>4 DEF ListOK, DueFollows
  <2>5. 1 < i => Off[l[1]] <= Off[l[i]]
    BY <1>0, <1>3, <2>1, <2>3 DEF ListOK, SortedBy
  <2> QED
    BY <2>1, <2>2, <2>3, <2>4, <2>5, TickRange
<1>5. Off' = Off
  BY <1>1 DEF Off
<1>6. DueFollows(rt_timer_list)'
  <2>1. Earliest' = 1 /\ Earliest = 0
    BY <1>1, <1>2 DEF Earliest
  <2>2. \A x \in ToSet(l) :
            Off[x] \in -1 .. Half - 1 /\ due[x] = IF Off[x] >= 0 THEN Off[x] ELSE 0
    BY <1>0, <1>3, <2>1 DEF ListOK, DueFollows
  <2>3. \A x \in ToSet(l) :
            /\ Off[x] \in -1 .. Half - 1
            /\ Off[x] >= 0
            /\ due[x] = IF Off[x] >= Earliest' THEN Off[x] ELSE Earliest'
    BY <1>4, <2>1, <2>2, TickRange
  <2> QED
    BY <1>1, <1>3, <1>5, <2>3 DEF DueFollows
<1>7. ListOK(rt_timer_list, started)'
  BY <1>0, <1>1, <1>5, <1>6 DEF ListOK
<1>8. TypeOK' /\ DetachedIsUnlinked' /\ CheckFacts' /\ (CallbackSetsOneshot \/ ActiveFacts')
  BY <1>0, <1>1, <1>2 DEF TypeOK, DetachedIsUnlinked, CheckFacts, ActiveFacts
<1> QED
  BY <1>7, <1>8 DEF TimerInv

-----------------------------------------------------------------------------
(* The theorems *)

(* The inductive invariant holds whatever threads and callbacks do, for any    *)
(* timers, width of the tick and periods.                                     *)
THEOREM TimerInvariance == Spec => []TimerInv
<1>1. TimerInv /\ [Next]_vars => TimerInv'
  <2> SUFFICES ASSUME TimerInv, [Next]_vars PROVE TimerInv'
    OBVIOUS
  <2>1. CASE UNCHANGED vars
    <3>1. PICK l, s : l = rt_timer_list /\ s = started
      OBVIOUS
    <3>2. ListOK(rt_timer_list, started)'
      BY <2>1, <3>1, FrameOK DEF vars, TimerInv, TypeOK
    <3>3. /\ TypeOK' /\ DetachedIsUnlinked' /\ CheckFacts'
          /\ CallbackSetsOneshot \/ ActiveFacts'
      BY <2>1 DEF vars, TimerInv, TypeOK, DetachedIsUnlinked, CheckFacts, ActiveFacts
    <3> QED
      BY <3>2, <3>3 DEF TimerInv
  <2>2. CASE Call
    <3>1. ASSUME NEW t \in Timer, rt_timer_start(t) PROVE TimerInv'
      BY <3>1, StartStep
    <3> QED
      BY <2>2, <3>1, RemovalSteps, FieldSteps DEF Call
  <2>3. CASE rt_tick_increase
    BY <2>3, TickStep
  <2>4. CASE Check
    BY <2>4, FireStep, ReturnStep, DoneStep DEF Check
  <2> QED
    BY <2>1, <2>2, <2>3, <2>4 DEF Next
<1> QED
  BY <1>1, TimerStarts, PTL DEF Spec

(* The list and the flags of the timers agree whatever threads and callbacks   *)
(* do, as long as no callback makes its own timer one-shot.                    *)
THEOREM TimersConsistentAlways ==
    ASSUME ~CallbackSetsOneshot PROVE Spec => []TimersConsistent
<1>1. TimerInv => TimersConsistent
  <2> SUFFICES ASSUME TimerInv PROVE TimersConsistent
    OBVIOUS
  <2>1. ActiveIsListed
    BY DEF TimerInv, ActiveFacts, CheckFacts, ActiveIsListed
  <2> QED
    BY <2>1 DEF TimerInv, TimersConsistent
<1> QED
  BY <1>1, TimerInvariance, PTL

(* When rt_timer_check has returned no timer that is due is left in the list.  *)
THEOREM NeverLateAlways == Spec => []NeverLate
<1>1. TimerInv => NeverLate
  <2> SUFFICES ASSUME TimerInv, ~checking, NEW t \in ToSet(rt_timer_list) PROVE due[t] > 0
    BY DEF NeverLate
  <2>1. Off[t] \in -1 .. Half - 1 /\ due[t] = IF Off[t] >= 1 THEN Off[t] ELSE 1
    BY DEF TimerInv, ListOK, DueFollows, Earliest
  <2> QED
    BY <2>1, TickRange
<1> QED
  BY <1>1, TimerInvariance, PTL

(* rt_timer_check calls no timer before the tick it was started for.          *)
THEOREM NeverEarlyAlways == Spec => NeverEarly
<1>1. TimerInv /\ [Next]_vars => [\A t \in Timer : CheckFire /\ firing' = t => due[t] = 0]_vars
  <2> SUFFICES ASSUME TimerInv, NEW t \in Timer, CheckFire, firing' = t PROVE due[t] = 0
    OBVIOUS
  <2>1. t = Head(rt_timer_list) /\ rt_timer_list # <<>> /\ Expired /\ checking
    BY DEF CheckFire, Expired
  <2>2. /\ t \in ToSet(rt_timer_list) /\ Off[t] \in -1 .. Half - 1 /\ Off[t] <= 0
    BY <2>1, HeadExpired
  <2>3. due[t] = IF Off[t] >= 0 THEN Off[t] ELSE 0
    BY <2>1, <2>2 DEF TimerInv, ListOK, DueFollows, Earliest
  <2> QED
    BY <2>2, <2>3, TickRange
<1> QED
  BY <1>1, TimerInvariance, PTL DEF Spec, NeverEarly

(* The list is in the order in which its timers fire, and of two that time out *)
(* at one tick the one that was started first comes first, across the wrap of  *)
(* the tick counter.                                                          *)
THEOREM FiringOrderAlways == Spec => []FiringOrder
<1>1. TimerInv => FiringOrder
  <2> SUFFICES ASSUME TimerInv PROVE FiringOrder
    OBVIOUS
  <2>1. ListOK(rt_timer_list, started)
    BY DEF TimerInv
  <2>2. ListInOrder
    <3> SUFFICES ASSUME NEW i \in 1 .. Len(rt_timer_list), NEW j \in 1 .. Len(rt_timer_list), i < j
                 PROVE  due[rt_timer_list[i]] <= due[rt_timer_list[j]]
      BY DEF ListInOrder
    <3> DEFINE a == rt_timer_list[i]
               b == rt_timer_list[j]
    <3>1. a \in ToSet(rt_timer_list) /\ b \in ToSet(rt_timer_list)
      BY <2>1, ToSetIsRange DEF ListOK
    <3>2. Off[a] <= Off[b]
      BY <2>1 DEF ListOK, SortedBy
    <3> HIDE DEF a, b
    <3>3. /\ Off[a] \in -1 .. Half - 1 /\ Off[b] \in -1 .. Half - 1
          /\ due[a] = IF Off[a] >= Earliest THEN Off[a] ELSE Earliest
          /\ due[b] = IF Off[b] >= Earliest THEN Off[b] ELSE Earliest
      BY <2>1, <3>1 DEF ListOK, DueFollows
    <3>4. Earliest \in 0 .. 1
      BY DEF Earliest
    <3> QED
      BY <3>2, <3>3, <3>4, TickRange DEF a, b
  <2>3. EarlyStartedFirst
    BY <2>1 DEF ListOK, TiesBy, Before, EarlyStartedFirst
  <2> QED
    BY <2>2, <2>3 DEF FiringOrder
<1> QED
  BY <1>1, TimerInvariance, PTL
=============================================================================
