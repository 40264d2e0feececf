----------------------------- MODULE SchedProofs -----------------------------
(***************************************************************************)
(* The theorems about Sched.tla, for any finite set of threads, any         *)
(* priorities, time slices and lock nesting, and one controlling thread.   *)
(***************************************************************************)
EXTENDS Sched, KernelProofs, TLAPS

-----------------------------------------------------------------------------
(* The table while threads are being moved *)

\* Thread t is on no list.
Unlinked(s, t) ==
    /\ \A p \in Priority : t \notin ToSet(s.ready[p])
    /\ \A l \in WaitList : t \notin ToSet(s.wait[l])

\* The threads of S are on no list, the others where their states say.
Links(s, S) ==
    /\ s \in KernelState /\ ListsAreSets(s)
    /\ LinkedByStat(s, Thread \ S)
    /\ \A t \in S : Unlinked(s, t)

\* The READY threads on the lists, and the bits they need.
Queued(s, S) == {t \in Thread \ S : s.stat[t] = "ready"}
Bits(s, S) == {s.prio[t] : t \in Queued(s, S)}

\* Every needed bit is set.  Between the unlinking and the insertion of a READY
\* thread, rt_thread_resume leaves the bit of an empty list set.
Table(s, S) == Links(s, S) /\ Bits(s, S) \subseteq s.group
Stale(s, S) == s.group \ Bits(s, S)

(* The bits the READY threads need are those of the lists with a thread.     *)
LEMMA BitsAreFull ==
    ASSUME NEW s, NEW S, Links(s, S)
    PROVE  /\ Bits(s, S) = {p \in Priority : s.ready[p] # <<>>}
           /\ \A p \in Priority, t \in Thread :
                  t \in ToSet(s.ready[p]) => t \in Queued(s, S) /\ s.prio[t] = p
           /\ \A t \in Queued(s, S) : s.prio[t] \in Priority /\ t \in ToSet(s.ready[s.prio[t]])
<1>1. ASSUME NEW p \in Priority, NEW t \in Thread, t \in ToSet(s.ready[p])
      PROVE  t \in Queued(s, S) /\ s.prio[t] = p
  <2>1. t \notin S
    BY <1>1 DEF Links, Unlinked
  <2>2. p \in Listed(s, t)
    BY <1>1 DEF Listed
  <2> QED
    BY <2>1, <2>2 DEF Links, LinkedByStat, Queued
<1>2. ASSUME NEW t \in Queued(s, S)
      PROVE  s.prio[t] \in Priority /\ t \in ToSet(s.ready[s.prio[t]])
  <2>1. t \in Thread \ S /\ s.stat[t] = "ready"
    BY DEF Queued
  <2>2. Listed(s, t) = {s.prio[t]}
    BY <2>1 DEF Links, LinkedByStat
  <2> QED
    BY <2>2 DEF Listed
<1>3. ASSUME NEW p \in Priority
      PROVE  s.ready[p] \in Seq(Thread) /\ (s.ready[p] # <<>> <=> ToSet(s.ready[p]) # {})
                /\ ToSet(s.ready[p]) \subseteq Thread
  <2>1. s.ready[p] \in Seq(Thread)
    BY DEF Links, KernelState
  <2>2. ToSet(s.ready[p]) \subseteq Thread
    BY <2>1, ToSetIsRange
  <2> QED
    BY <2>1, <2>2, EmptyList
<1>4. Bits(s, S) = {p \in Priority : s.ready[p] # <<>>}
  <2>1. ASSUME NEW p, p \in Bits(s, S) PROVE p \in Priority /\ s.ready[p] # <<>>
    <3>1. PICK t \in Queued(s, S) : p = s.prio[t]
      BY <2>1 DEF Bits
    <3> QED
      BY <1>2, <1>3, <3>1
  <2>2. ASSUME NEW p \in Priority, s.ready[p] # <<>> PROVE p \in Bits(s, S)
    <3>1. PICK t \in Thread : t \in ToSet(s.ready[p])
      BY <1>3, <2>2
    <3> QED
      BY <1>1, <3>1 DEF Bits
  <2> QED
    BY <2>1, <2>2
<1> QED
  BY <1>1, <1>2, <1>4

(* Edits of fields that no list depends on, and of threads on no list.        *)
LEMMA LinksFrame ==
    ASSUME NEW s, NEW S, Links(s, S), NEW r \in KernelState,
           r.ready = s.ready, r.wait = s.wait,
           \A x \in Thread \ S : r.stat[x] = s.stat[x] /\ r.prio[x] = s.prio[x]
    PROVE  Links(r, S) /\ Bits(r, S) = Bits(s, S)
<1>1. ListsAreSets(r)
  BY DEF Links, ListsAreSets
<1>2. LinkedByStat(r, Thread \ S)
  BY DEF Links, LinkedByStat, Listed
<1>3. \A t \in S : Unlinked(r, t)
  BY DEF Links, Unlinked
<1>4. Queued(r, S) = Queued(s, S)
  BY DEF Queued
<1>5. Bits(r, S) = Bits(s, S)
  BY <1>4 DEF Bits, Queued
<1> QED
  BY <1>1, <1>2, <1>3, <1>5 DEF Links

(* A thread on no list that is not READY is where its state says.             *)
LEMMA LinksRest ==
    ASSUME NEW s, NEW S, NEW Q, NEW x \in Thread, Links(s, S), Q = S \ {x},
           s.stat[x] # "ready"
    PROVE  Links(s, Q) /\ Bits(s, Q) = Bits(s, S)
<1>1. CASE x \notin S
  <2>1. Q = S
    BY <1>1
  <2> QED
    BY <2>1
<1>2. CASE x \in S
  <2>1. Listed(s, x) = {} /\ \A l \in WaitList : x \notin ToSet(s.wait[l])
    BY <1>2 DEF Links, Unlinked, Listed
  <2>2. \A t \in Thread \ Q : t = x \/ t \in Thread \ S
    OBVIOUS
  <2>3. LinkedByStat(s, Thread \ Q)
    BY <2>1, <2>2 DEF Links, LinkedByStat
  <2>4. Queued(s, Q) = Queued(s, S)
    BY <1>2 DEF Queued
  <2> QED
    BY <2>3, <2>4 DEF Links, Bits
<1> QED
  BY <1>1, <1>2

(* A thread on no list may be taken for one that is being moved.              *)
LEMMA LinksLeave ==
    ASSUME NEW s, NEW S, NEW Q, NEW x \in Thread, Links(s, S), Q = S \union {x},
           s.stat[x] # "ready", \A l \in WaitList : x \notin ToSet(s.wait[l])
    PROVE  Links(s, Q) /\ Bits(s, Q) = Bits(s, S)
<1>1. \A p \in Priority : x \notin ToSet(s.ready[p])
  BY BitsAreFull DEF Queued
<1>2. Unlinked(s, x)
  BY <1>1 DEF Unlinked
<1>3. Queued(s, Q) = Queued(s, S)
  BY DEF Queued
<1>4. LinkedByStat(s, Thread \ Q)
  BY DEF Links, LinkedByStat
<1> QED
  BY <1>2, <1>3, <1>4 DEF Links, Bits

(* rt_list_remove.  The bit of a READY thread may become stale.               *)
LEMMA UnlinkTable ==
    ASSUME NEW s, NEW S, NEW Q, NEW x \in Thread \ S, Table(s, S), Q = S \union {x},
           NEW r, r = Unlink(s, x)
    PROVE  /\ Table(r, Q) /\ SameButLists(r, s) /\ WaitDrops(r, s, x)
           /\ r.group = s.group
           /\ s.stat[x] = "ready" => Stale(r, Q) \subseteq Stale(s, S) \union {s.prio[x]}
           /\ s.stat[x] # "ready" => Stale(r, Q) = Stale(s, S)
<1>1. /\ r \in KernelState /\ ListsAreSets(r)
      /\ \A p \in Priority : ToSet(r.ready[p]) = ToSet(s.ready[p]) \ {x}
      /\ \A l \in WaitList : ToSet(r.wait[l]) = ToSet(s.wait[l]) \ {x}
      /\ r.group = s.group /\ SameButLists(r, s)
  <2>1. s \in KernelState /\ ListsAreSets(s) /\ x \in Thread
    BY DEF Table, Links
  <2>2. /\ Unlink(s, x) \in KernelState /\ ListsAreSets(Unlink(s, x))
        /\ \A p \in Priority : ToSet(Unlink(s, x).ready[p]) = ToSet(s.ready[p]) \ {x}
        /\ \A l \in WaitList : ToSet(Unlink(s, x).wait[l]) = ToSet(s.wait[l]) \ {x}
        /\ Unlink(s, x).group = s.group /\ SameButLists(Unlink(s, x), s)
    BY ONLY <2>1, UnlinkEffect
  <2> QED
    BY ONLY <2>2, r = Unlink(s, x)
<1>2. Links(r, Q)
  <2>1. ASSUME NEW t \in Thread \ Q
        PROVE  Listed(r, t) = Listed(s, t)
               /\ \A l \in WaitList : t \in ToSet(r.wait[l]) <=> t \in ToSet(s.wait[l])
    BY <1>1 DEF Listed
  <2>2. LinkedByStat(r, Thread \ Q)
    BY <1>1, <2>1 DEF Table, Links, LinkedByStat, SameButLists
  <2>3. \A t \in Q : Unlinked(r, t)
    BY <1>1 DEF Table, Links, Unlinked
  <2> QED
    BY <1>1, <2>2, <2>3 DEF Links
<1>3. Queued(r, Q) = Queued(s, S) \ {x}
  BY <1>1 DEF Queued, SameButLists
<1>4. /\ Bits(r, Q) \subseteq Bits(s, S)
      /\ Bits(s, S) \subseteq Bits(r, Q) \union {s.prio[x]}
      /\ s.stat[x] # "ready" => Bits(r, Q) = Bits(s, S)
  <2>1. s.stat[x] # "ready" => Queued(s, S) \ {x} = Queued(s, S)
    BY DEF Queued
  <2> QED
    BY <1>1, <1>3, <2>1 DEF Bits, SameButLists
<1> QED
  BY <1>1, <1>2, <1>4 DEF Table, Stale, WaitDrops

(* rt_schedule_remove_thread leaves no stale bit behind, whatever the state.   *)
LEMMA RemoveTable ==
    ASSUME NEW s, NEW S, NEW Q, NEW x \in Thread \ S, Table(s, S), Q = S \union {x},
           NEW r, r = rt_schedule_remove_thread(s, x)
    PROVE  /\ Table(r, Q) /\ SameButLists(r, s) /\ WaitDrops(r, s, x)
           /\ Stale(r, Q) \subseteq Stale(s, S)
<1>1. PICK u : u = Unlink(s, x)
  OBVIOUS
<1>2. PICK q : q = s.prio[x]
  OBVIOUS
<1>3. /\ Table(u, Q) /\ SameButLists(u, s) /\ WaitDrops(u, s, x)
      /\ u.group = s.group
      /\ Stale(u, Q) \subseteq Stale(s, S) \union {q}
  BY <1>1, <1>2, UnlinkTable
<1>4. q \in Priority /\ u \in KernelState
  BY <1>2, <1>3 DEF Table, Links, KernelState
<1>5. r = IF u.ready[q] = <<>> THEN [u EXCEPT !.group = @ \ {q}] ELSE u
  BY <1>1, <1>2 DEF rt_schedule_remove_thread
<1>6. Links(u, Q)
  BY <1>3 DEF Table
<1>7. q \in Bits(u, Q) <=> u.ready[q] # <<>>
  BY <1>4, <1>6, BitsAreFull
<1>8. CASE u.ready[q] # <<>>
  BY <1>3, <1>5, <1>7, <1>8 DEF Stale
<1>9. CASE u.ready[q] = <<>>
  <2>1. r = [u EXCEPT !.group = u.group \ {q}]
    BY <1>5, <1>9
  <2>2. /\ r \in KernelState /\ SameButLists(r, u) /\ r.ready = u.ready
        /\ r.wait = u.wait /\ r.group = u.group \ {q}
    BY <1>4, <2>1 DEF KernelState, SameButLists
  <2>3. Links(r, Q) /\ Bits(r, Q) = Bits(u, Q)
    BY ONLY <1>6, <2>2, LinksFrame DEF SameButLists
  <2>4. Table(r, Q)
    BY <1>3, <1>7, <1>9, <2>2, <2>3 DEF Table
  <2>5. SameButLists(r, s) /\ WaitDrops(r, s, x)
    BY <1>3, <2>2 DEF SameButLists, WaitDrops
  <2>6. Stale(r, Q) \subseteq Stale(s, S)
    BY <1>3, <2>2, <2>3 DEF Stale
  <2> QED
    BY <2>4, <2>5, <2>6
<1> QED
  BY <1>8, <1>9

\* The fields of a state after x has become READY.
Readied(r, s, x) ==
    /\ r.stat = [s.stat EXCEPT ![x] = "ready"] /\ r.prio = s.prio
    /\ r.cur = s.cur /\ r.nest = s.nest /\ r.err = s.err
    /\ r.timer = s.timer /\ r.wait = s.wait

(* rt_schedule_insert_thread sets the bit the thread needs.                    *)
LEMMA InsertTable ==
    ASSUME NEW s, NEW S, NEW Q, NEW x, x \in S, S \subseteq Thread, Table(s, S), Q = S \ {x},
           NEW r, r = rt_schedule_insert_thread(s, x)
    PROVE  /\ Table(r, Q) /\ Readied(r, s, x)
           /\ Stale(r, Q) \subseteq Stale(s, S) \ {s.prio[x]}
<1>1. PICK q : q = s.prio[x]
  OBVIOUS
<1>2. s \in KernelState /\ q \in Priority /\ x \in Thread
  BY <1>1 DEF Table, Links, KernelState
<1>3. /\ s.ready[q] \in Seq(Thread) /\ IsInjective(s.ready[q])
      /\ x \notin ToSet(s.ready[q])
  BY <1>2 DEF Table, Links, KernelState, ListsAreSets, Unlinked
<1>4. PICK w : w = Append(s.ready[q], x)
  OBVIOUS
<1>5. w \in Seq(Thread) /\ IsInjective(w) /\ ToSet(w) = ToSet(s.ready[q]) \union {x}
  BY ONLY <1>2, <1>3, <1>4, AppendInserts
<1>6. /\ r.stat = [s.stat EXCEPT ![x] = "ready"]
      /\ r.ready = [s.ready EXCEPT ![q] = w]
      /\ r.group = s.group \union {q}
      /\ r.wait = s.wait /\ r.prio = s.prio /\ r.cur = s.cur
      /\ r.nest = s.nest /\ r.err = s.err /\ r.timer = s.timer
      /\ r = [s EXCEPT !.stat = r.stat, !.ready = r.ready, !.group = r.group]
  BY <1>1, <1>2, <1>4 DEF rt_schedule_insert_thread, KernelState
<1>7. r \in KernelState
  <2>1. r.ready \in [Priority -> Seq(Thread)]
    BY <1>2, <1>5, <1>6 DEF KernelState
  <2>2. r.stat \in [Thread -> Stat] /\ r.group \in SUBSET Priority
    BY <1>2, <1>6 DEF KernelState, Stat
  <2> QED
    BY ONLY <1>2, <1>6, <2>1, <2>2 DEF KernelState
<1>8. \A p \in Priority : r.ready[p] = IF p = q THEN w ELSE s.ready[p]
  BY <1>2, <1>6 DEF KernelState
<1>9. \A t \in Thread : r.stat[t] = IF t = x THEN "ready" ELSE s.stat[t]
  BY <1>2, <1>6 DEF KernelState
<1>10. ListsAreSets(r)
  BY <1>5, <1>6, <1>8 DEF Table, Links, ListsAreSets
<1>11. ASSUME NEW t \in Thread \ S PROVE Listed(r, t) = Listed(s, t)
  BY <1>5, <1>8 DEF Listed
<1>12. Listed(r, x) = {q} /\ \A l \in WaitList : x \notin ToSet(r.wait[l])
  <2>1. \A p \in Priority : x \in ToSet(r.ready[p]) <=> p = q
    BY <1>2, <1>5, <1>8 DEF Table, Links, Unlinked
  <2> QED
    BY <1>2, <1>6, <2>1 DEF Listed, Table, Links, Unlinked
<1>13. LinkedByStat(r, Thread \ Q)
  <2>1. \A t \in Thread \ Q : t = x \/ (t \in Thread \ S /\ t # x)
    OBVIOUS
  <2>2. r.prio[x] = q /\ r.stat[x] = "ready"
    BY <1>1, <1>2, <1>6, <1>9
  <2>3. LinkedByStat(s, Thread \ S)
    BY DEF Table, Links
  <2> QED
    BY <1>6, <1>9, <1>11, <1>12, <2>1, <2>2, <2>3 DEF LinkedByStat
<1>14. \A t \in Q : Unlinked(r, t)
  <2>1. \A p \in Priority : ToSet(r.ready[p]) \subseteq ToSet(s.ready[p]) \union {x}
    BY <1>5, <1>8
  <2> QED
    BY <1>6, <2>1 DEF Table, Links, Unlinked
<1>15. Queued(r, Q) = Queued(s, S) \union {x}
  BY <1>2, <1>9 DEF Queued
<1>16. Bits(r, Q) = Bits(s, S) \union {q}
  BY <1>1, <1>6, <1>15 DEF Bits
<1> QED
  BY <1>1, <1>6, <1>7, <1>10, <1>13, <1>14, <1>16 DEF Table, Links, Stale, Readied

\* The list of the threads the idle thread is to free, with x in front.
Buried(s, x) ==
    [s EXCEPT !.wait["rt_thread_defunct"] = IF x \in Static THEN @ ELSE <<x>> \o @]

\* The threads on that list.
Dead(s) == ToSet(s.wait["rt_thread_defunct"])

(* A thread on no list that is not READY goes to the defunct list.             *)
LEMMA BuryTable ==
    ASSUME NEW s, NEW S, NEW Q, NEW x, x \in S, S \subseteq Thread, Table(s, S), Q = S \ {x},
           s.stat[x] # "ready", NEW r, r = Buried(s, x)
    PROVE  /\ Table(r, Q) /\ SameButLists(r, s)
           /\ Dead(r) = IF x \in Static THEN Dead(s) ELSE Dead(s) \union {x}
           /\ Stale(r, Q) = Stale(s, S)
<1>1. PICK d : d = "rt_thread_defunct"
  OBVIOUS
<1>2. d \in WaitList /\ WaitList = {d}
  BY <1>1, SchedAssumption
<1>3. s \in KernelState /\ x \in Thread
  BY DEF Table, Links
<1>4. PICK w : w = IF x \in Static THEN s.wait[d] ELSE <<x>> \o s.wait[d]
  OBVIOUS
<1>5. s.wait[d] \in Seq(Thread) /\ IsInjective(s.wait[d]) /\ x \notin ToSet(s.wait[d])
  BY <1>2 DEF Table, Links, KernelState, ListsAreSets, Unlinked
<1>6. /\ w \in Seq(Thread) /\ IsInjective(w)
      /\ ToSet(w) = IF x \in Static THEN ToSet(s.wait[d]) ELSE ToSet(s.wait[d]) \union {x}
  <2>1. <<x>> \o s.wait[d] = InsertAt(s.wait[d], 1, x)
    BY <1>3, <1>5 DEF InsertAt
  <2>2. 1 \in 1 .. Len(s.wait[d]) + 1
    BY <1>5
  <2>3. PICK i : i = InsertAt(s.wait[d], 1, x)
    OBVIOUS
  <2>4. i \in Seq(Thread) /\ IsInjective(i) /\ ToSet(i) = ToSet(s.wait[d]) \union {x}
    BY ONLY <1>3, <1>5, <2>2, <2>3, InsertAtInserts
  <2> QED
    BY <1>4, <1>5, <2>1, <2>3, <2>4
<1>7. /\ r = [s EXCEPT !.wait = r.wait] /\ r.wait = [s.wait EXCEPT ![d] = w]
  BY <1>1, <1>3, <1>4 DEF Buried, KernelState
<1>8. r.wait \in [WaitList -> Seq(Thread)] /\ r.wait[d] = w
  BY <1>2, <1>3, <1>6, <1>7 DEF KernelState
<1>9. /\ r \in KernelState /\ r.ready = s.ready /\ r.group = s.group /\ SameButLists(r, s)
  BY <1>3, <1>7, <1>8 DEF KernelState, SameButLists
<1>10. ListsAreSets(r)
  BY <1>2, <1>6, <1>8, <1>9 DEF Table, Links, ListsAreSets
<1>11. ASSUME NEW t \in Thread, t # x
       PROVE  t \in ToSet(r.wait[d]) <=> t \in ToSet(s.wait[d])
  BY <1>6, <1>8, <1>11
<1>12. Listed(r, x) = {}
  BY <1>9 DEF Listed, Table, Links, Unlinked
<1>13. LinkedByStat(r, Thread \ Q)
  <2>1. \A t \in Thread \ Q : t = x \/ (t \in Thread \ S /\ t # x)
    OBVIOUS
  <2>2. LinkedByStat(s, Thread \ S) /\ \A t \in Thread : Listed(r, t) = Listed(s, t)
    BY <1>9 DEF Table, Links, Listed
  <2> QED
    BY <1>2, <1>9, <1>11, <1>12, <2>1, <2>2 DEF LinkedByStat, SameButLists
<1>14. \A t \in Q : Unlinked(r, t)
  BY <1>2, <1>9, <1>11 DEF Table, Links, Unlinked
<1>15. Queued(r, Q) = Queued(s, S)
  BY <1>9 DEF Queued, SameButLists
<1>16. Bits(r, Q) = Bits(s, S)
  BY <1>9, <1>15 DEF Bits, SameButLists
<1> QED
  BY <1>1, <1>6, <1>8, <1>9, <1>10, <1>13, <1>14, <1>16 DEF Table, Links, Stale, Dead

(* rt_thread_yield reorders one ready list.                                    *)
LEMMA RequeueTable ==
    ASSUME NEW s, NEW S, Table(s, S), Yields(s), s.cur \notin S, NEW r, r = Requeue(s)
    PROVE  /\ Table(r, S) /\ SameButLists(r, s) /\ r.wait = s.wait
           /\ Stale(r, S) = Stale(s, S)
<1>0. s \in KernelState
  BY DEF Table, Links
<1>1. PICK c, q : c = s.cur /\ q = s.prio[c]
  OBVIOUS
<1>2. c \in Thread \ S /\ q \in Priority /\ s.stat[c] = "ready"
  BY <1>0, <1>1 DEF KernelState, Yields
<1>3. s.ready[q] \in Seq(Thread) /\ IsInjective(s.ready[q])
  BY <1>0, <1>2 DEF KernelState, ListsAreSets, Table, Links
<1>4. c \in ToSet(s.ready[q])
  BY <1>1, <1>2, BitsAreFull DEF Queued, Table
<1>5. PICK rest : rest = RemoveFirst(s.ready[q], c)
  OBVIOUS
<1>6. rest \in Seq(Thread) /\ IsInjective(rest) /\ ToSet(rest) = ToSet(s.ready[q]) \ {c}
  BY <1>3, <1>5, RemoveFirstRemoves
<1>7. PICK new : new = Append(rest, c)
  OBVIOUS
<1>8. new \in Seq(Thread) /\ IsInjective(new) /\ ToSet(new) = ToSet(s.ready[q])
  <2>1. c \in Thread /\ c \notin ToSet(rest)
    BY <1>2, <1>6
  <2>2. new \in Seq(Thread) /\ IsInjective(new) /\ ToSet(new) = ToSet(rest) \union {c}
    BY ONLY <1>6, <1>7, <2>1, AppendInserts
  <2> QED
    BY <1>4, <1>6, <2>2
<1>9. r = [s EXCEPT !.ready = r.ready] /\ r.ready = [s.ready EXCEPT ![q] = new]
  BY <1>0, <1>1, <1>5, <1>7 DEF Requeue, KernelState
<1>10. r.ready \in [Priority -> Seq(Thread)]
  BY <1>0, <1>8, <1>9 DEF KernelState
<1>11. /\ r \in KernelState /\ r.wait = s.wait /\ r.group = s.group /\ SameButLists(r, s)
  BY <1>0, <1>9, <1>10 DEF KernelState, SameButLists
<1>12. \A p \in Priority : r.ready[p] = IF p = q THEN new ELSE s.ready[p]
  BY <1>0, <1>2, <1>9 DEF KernelState
<1>13. \A p \in Priority : ToSet(r.ready[p]) = ToSet(s.ready[p])
  BY <1>8, <1>12
<1>14. ListsAreSets(r)
  BY <1>8, <1>11, <1>12 DEF Table, Links, ListsAreSets
<1>15. ASSUME NEW t \in Thread PROVE Listed(r, t) = Listed(s, t)
  BY <1>13 DEF Listed
<1>16. LinkedByStat(r, Thread \ S)
  BY <1>11, <1>15 DEF Table, Links, LinkedByStat, SameButLists
<1>17. \A t \in S : Unlinked(r, t)
  BY <1>11, <1>13 DEF Table, Links, Unlinked
<1>18. Bits(r, S) = Bits(s, S)
  BY <1>11 DEF Bits, Queued, SameButLists
<1> QED
  BY <1>11, <1>14, <1>16, <1>17, <1>18 DEF Table, Links, Stale

\* The running thread is READY and none of the queued ones is more urgent.
Urgent(s, S) ==
    /\ s.cur \in Queued(s, S)
    /\ \A t \in Queued(s, S) : s.prio[s.cur] <= s.prio[t]

\* Every stale bit is less urgent than a queued thread.
Covered(s, S) == \A p \in Stale(s, S) : \E t \in Queued(s, S) : s.prio[t] <= p

(* __rt_ffs finds the list of a thread although stale bits are set.            *)
LEMMA HighestFound ==
    ASSUME NEW s, NEW S, Table(s, S), Idle \in Queued(s, S), Covered(s, S)
    PROVE  /\ s.group # {} /\ HighestReady(s) \in Priority
           /\ s.ready[HighestReady(s)] # <<>>
           /\ \A t \in Queued(s, S) : HighestReady(s) <= s.prio[t]
<1>1. s \in KernelState /\ Links(s, S) /\ Bits(s, S) \subseteq s.group
  BY DEF Table, Links
<1>2. s.group \in SUBSET Nat /\ s.group \subseteq Priority /\ s.prio \in [Thread -> Priority]
  BY <1>1, KernelAssumption DEF KernelState
<1>3. \A t \in Queued(s, S) : s.prio[t] \in s.group
  BY <1>1 DEF Bits
<1>4. s.group # {}
  BY <1>3
<1>5. PICK m : m = HighestReady(s)
  OBVIOUS
<1>6. m \in s.group /\ \A p \in s.group : m <= p
  BY <1>2, <1>4, <1>5, MinIsLeast DEF HighestReady
<1>7. m \in Bits(s, S)
  <2> SUFFICES ASSUME m \in Stale(s, S) PROVE FALSE
    BY <1>6 DEF Stale
  <2>1. PICK t \in Queued(s, S) : s.prio[t] <= m
    BY DEF Covered
  <2>2. s.prio[t] \in s.group /\ m <= s.prio[t]
    BY <1>3, <1>6
  <2>3. m = s.prio[t]
    BY <1>2, <1>6, <2>1, <2>2
  <2> QED
    BY <2>3 DEF Stale, Bits
<1>8. m \in Priority /\ s.ready[m] # <<>>
  BY <1>1, <1>7, BitsAreFull
<1> QED
  BY <1>3, <1>4, <1>5, <1>6, <1>8

(* rt_schedule switches to a most urgent thread, and keeps everything else.     *)
LEMMA ScheduleTable ==
    ASSUME NEW s, NEW S, Table(s, S), Idle \in Queued(s, S),
           s.nest = 0 => Covered(s, S), NEW r, r = rt_schedule(s)
    PROVE  /\ Table(r, S) /\ Stale(r, S) = Stale(s, S)
           /\ r.stat = s.stat /\ r.prio = s.prio /\ r.nest = s.nest
           /\ r.err = s.err /\ r.timer = s.timer /\ r.wait = s.wait
           /\ s.nest = 0 => Urgent(r, S)
           /\ s.nest # 0 => r.cur = s.cur
<1>0. s \in KernelState /\ Links(s, S)
  BY DEF Table, Links
<1>1. CASE s.nest # 0
  BY <1>1 DEF rt_schedule
<1>2. CASE s.nest = 0
  <2>1. PICK m : m = HighestReady(s)
    OBVIOUS
  <2>2. /\ m \in Priority /\ s.ready[m] # <<>>
        /\ \A t \in Queued(s, S) : m <= s.prio[t]
    BY <1>2, <2>1, HighestFound
  <2>3. s.ready[m] \in Seq(Thread)
    BY <1>0, <2>2 DEF KernelState
  <2>4. PICK c : c = Head(s.ready[m])
    OBVIOUS
  <2>5. c \in Thread /\ c \in ToSet(s.ready[m])
    BY <2>2, <2>3, <2>4, HeadIsElement
  <2>6. c \in Queued(s, S) /\ s.prio[c] = m
    BY <1>0, <2>2, <2>5, BitsAreFull
  <2>7. r = [s EXCEPT !.cur = c]
    BY <1>2, <2>1, <2>4 DEF rt_schedule
  <2>8. /\ r \in KernelState /\ r.cur = c /\ r.stat = s.stat /\ r.prio = s.prio
        /\ r.nest = s.nest /\ r.err = s.err /\ r.timer = s.timer /\ r.wait = s.wait
        /\ r.ready = s.ready /\ r.group = s.group
    BY ONLY <1>0, <2>5, <2>7 DEF KernelState
  <2>9. Links(r, S) /\ Bits(r, S) = Bits(s, S)
    BY ONLY <1>0, <2>8, LinksFrame
  <2>10. Queued(r, S) = Queued(s, S)
    BY <2>8 DEF Queued
  <2> QED
    BY <1>2, <2>2, <2>6, <2>8, <2>9, <2>10 DEF Table, Stale, Urgent
<1> QED
  BY <1>1, <1>2

-----------------------------------------------------------------------------
(* The thread calls as edits of the table *)

\* The fields every one of these edits leaves alone.
SameRun(r, s) == r.prio = s.prio /\ r.cur = s.cur /\ r.nest = s.nest

\* Thread x is now in state st, with its timer stopped.
Turned(r, s, x, st) ==
    /\ SameRun(r, s)
    /\ \A y \in Thread : /\ r.stat[y] = IF y = x THEN st ELSE s.stat[y]
                         /\ r.timer[y] <=> (y # x /\ s.timer[y])

(* Two updates, point by point.                                                *)
LEMMA PointUpdate ==
    ASSUME NEW x \in Thread, NEW st, NEW f, NEW g, NEW h \in [Thread -> BOOLEAN],
           NEW i, DOMAIN f = Thread, g = [f EXCEPT ![x] = st], i = [h EXCEPT ![x] = FALSE]
    PROVE  /\ \A y \in Thread : g[y] = IF y = x THEN st ELSE f[y]
           /\ \A y \in Thread : i[y] <=> (y # x /\ h[y])
<1>1. \A y \in Thread : g[y] = IF y = x THEN st ELSE f[y]
  OBVIOUS
<1>2. ASSUME NEW y \in Thread PROVE i[y] <=> (y # x /\ h[y])
  <2>1. CASE y = x
    <3>1. i[y] = FALSE
      BY <2>1
    <3> QED
      BY <2>1, <3>1
  <2>2. CASE y # x
    <3>1. i[y] = h[y]
      BY <2>2
    <3> QED
      BY <2>2, <3>1
  <2> QED
    BY <2>1, <2>2
<1> QED
  BY <1>1, <1>2

(* rt_thread_suspend after its check, whatever the state is by then.           *)
LEMMA SuspendTable ==
    ASSUME NEW s, NEW S, NEW x \in Thread \ S, Table(s, S), NEW r, r = Suspend(s, x)
    PROVE  /\ Table(r, S) /\ Turned(r, s, x, "suspend") /\ Dead(r) = Dead(s) \ {x}
           /\ Stale(r, S) \subseteq Stale(s, S)
<1>1. PICK u, Q : u = rt_schedule_remove_thread(s, x) /\ Q = S \union {x}
  OBVIOUS
<1>2. /\ Table(u, Q) /\ SameButLists(u, s) /\ WaitDrops(u, s, x)
      /\ Stale(u, Q) \subseteq Stale(s, S)
  BY <1>1, RemoveTable
<1>3. u \in KernelState /\ Links(u, Q)
  BY <1>2 DEF Table, Links
<1>4. r = [u EXCEPT !.stat[x] = "suspend", !.timer[x] = FALSE]
  BY <1>1 DEF Suspend
<1>5. /\ r.stat = [u.stat EXCEPT ![x] = "suspend"]
      /\ r.timer = [u.timer EXCEPT ![x] = FALSE]
      /\ r.prio = u.prio /\ r.cur = u.cur /\ r.nest = u.nest
      /\ r.ready = u.ready /\ r.wait = u.wait /\ r.group = u.group
      /\ r = [u EXCEPT !.stat = r.stat, !.timer = r.timer]
  BY <1>3, <1>4 DEF KernelState
<1>6. r.stat \in [Thread -> Stat] /\ r.timer \in [Thread -> BOOLEAN]
  BY <1>3, <1>5 DEF KernelState, Stat
<1>7. r \in KernelState
  BY ONLY <1>3, <1>5, <1>6 DEF KernelState
<1>8. \A y \in Thread \ Q : r.stat[y] = u.stat[y] /\ r.prio[y] = u.prio[y]
  BY <1>1, <1>3, <1>5 DEF KernelState
<1>9. Links(r, Q) /\ Bits(r, Q) = Bits(u, Q)
  BY ONLY <1>3, <1>5, <1>7, <1>8, LinksFrame
<1>10. r.stat[x] # "ready" /\ S = Q \ {x}
  BY <1>1, <1>3, <1>5 DEF KernelState
<1>11. Links(r, S) /\ Bits(r, S) = Bits(r, Q)
  BY <1>9, <1>10, LinksRest
<1>12. Table(r, S) /\ Stale(r, S) \subseteq Stale(s, S)
  BY <1>2, <1>5, <1>9, <1>11 DEF Table, Stale
<1>13. Dead(r) = Dead(s) \ {x}
  BY <1>2, <1>5, SchedAssumption DEF WaitDrops, Dead
<1>14. Turned(r, s, x, "suspend")
  <2>1. u.timer \in [Thread -> BOOLEAN] /\ DOMAIN u.stat = Thread
    BY <1>3 DEF KernelState
  <2>2. /\ \A y \in Thread : r.stat[y] = IF y = x THEN "suspend" ELSE u.stat[y]
        /\ \A y \in Thread : r.timer[y] <=> (y # x /\ u.timer[y])
    BY ONLY <1>5, <2>1, x \in Thread \ S, PointUpdate
  <2> QED
    BY <1>2, <1>5, <2>2 DEF SameButLists, SameRun, Turned
<1> QED
  BY <1>12, <1>13, <1>14

(* The first section of rt_thread_resume.                                      *)
LEMMA DetachTable ==
    ASSUME NEW s, NEW S, NEW Q, NEW x \in Thread \ S, Table(s, S), Q = S \union {x},
           NEW r, r = Detach(s, x)
    PROVE  /\ Table(r, Q) /\ Turned(r, s, x, s.stat[x]) /\ Dead(r) = Dead(s) \ {x}
           /\ s.stat[x] = "ready" => Stale(r, Q) \subseteq Stale(s, S) \union {s.prio[x]}
           /\ s.stat[x] # "ready" => Stale(r, Q) = Stale(s, S)
<1>1. PICK u : u = Unlink(s, x)
  OBVIOUS
<1>2. /\ Table(u, Q) /\ SameButLists(u, s) /\ WaitDrops(u, s, x)
      /\ s.stat[x] = "ready" => Stale(u, Q) \subseteq Stale(s, S) \union {s.prio[x]}
      /\ s.stat[x] # "ready" => Stale(u, Q) = Stale(s, S)
  BY ONLY <1>1, x \in Thread \ S, Table(s, S), Q = S \union {x}, UnlinkTable
<1>3. u \in KernelState /\ Links(u, Q)
  BY <1>2 DEF Table, Links
<1>4. r = [u EXCEPT !.timer[x] = FALSE]
  BY <1>1 DEF Detach
<1>5. /\ r.timer = [u.timer EXCEPT ![x] = FALSE] /\ r.stat = u.stat
      /\ r.prio = u.prio /\ r.cur = u.cur /\ r.nest = u.nest
      /\ r.ready = u.ready /\ r.wait = u.wait /\ r.group = u.group
      /\ r = [u EXCEPT !.timer = r.timer]
  BY <1>3, <1>4 DEF KernelState
<1>6. r.timer \in [Thread -> BOOLEAN]
  BY <1>3, <1>5 DEF KernelState
<1>7. r \in KernelState
  BY ONLY <1>3, <1>5, <1>6 DEF KernelState
<1>8. Links(r, Q) /\ Bits(r, Q) = Bits(u, Q)
  BY ONLY <1>3, <1>5, <1>7, LinksFrame
<1>9. Dead(r) = Dead(s) \ {x}
  BY <1>2, <1>5, SchedAssumption DEF WaitDrops, Dead
<1>10. Turned(r, s, x, s.stat[x])
  <2>1. u.timer \in [Thread -> BOOLEAN] /\ DOMAIN u.stat = Thread
        /\ u.stat = [u.stat EXCEPT ![x] = u.stat[x]]
    BY <1>3 DEF KernelState
  <2>2. \A y \in Thread : r.timer[y] <=> (y # x /\ u.timer[y])
    BY ONLY <1>5, <2>1, x \in Thread \ S, PointUpdate
  <2> QED
    BY <1>2, <1>5, <2>2 DEF SameButLists, SameRun, Turned
<1> QED
  BY <1>2, <1>5, <1>8, <1>9, <1>10 DEF Table, Stale

(* A suspended thread whose timer has expired, before rt_schedule.              *)
LEMMA ExpireTable ==
    ASSUME NEW s, NEW S, NEW x \in Thread \ S, S \subseteq Thread, Table(s, S),
           s.stat[x] # "ready",
           NEW r, r = rt_schedule_insert_thread(Woken(s, x, "ETIMEOUT"), x)
    PROVE  /\ Table(r, S) /\ Turned(r, s, x, "ready") /\ Dead(r) = Dead(s) \ {x}
           /\ Stale(r, S) \subseteq Stale(s, S)
<1>1. PICK u, Q, d : u = Unlink(s, x) /\ Q = S \union {x} /\ d = Woken(s, x, "ETIMEOUT")
  OBVIOUS
<1>2. /\ Table(u, Q) /\ SameButLists(u, s) /\ WaitDrops(u, s, x)
      /\ Stale(u, Q) = Stale(s, S)
  BY <1>1, UnlinkTable
<1>3. u \in KernelState /\ Links(u, Q)
  BY <1>2 DEF Table, Links
<1>4. d = [u EXCEPT !.timer[x] = FALSE, !.err[x] = "ETIMEOUT"]
  BY <1>1 DEF Woken
<1>5. /\ d.timer = [u.timer EXCEPT ![x] = FALSE] /\ d.stat = u.stat
      /\ d.err = [u.err EXCEPT ![x] = "ETIMEOUT"]
      /\ d.prio = u.prio /\ d.cur = u.cur /\ d.nest = u.nest
      /\ d.ready = u.ready /\ d.wait = u.wait /\ d.group = u.group
      /\ d = [u EXCEPT !.timer = d.timer, !.err = d.err]
  BY <1>3, <1>4 DEF KernelState
<1>6. d.timer \in [Thread -> BOOLEAN] /\ d.err \in [Thread -> Error]
  BY <1>3, <1>5 DEF KernelState, Error
<1>7. d \in KernelState
  BY ONLY <1>3, <1>5, <1>6 DEF KernelState
<1>8. Links(d, Q) /\ Bits(d, Q) = Bits(u, Q)
  BY ONLY <1>3, <1>5, <1>7, LinksFrame
<1>9. Table(d, Q) /\ Stale(d, Q) = Stale(s, S)
  BY <1>2, <1>5, <1>8 DEF Table, Stale
<1>10. x \in Q /\ S = Q \ {x} /\ Q \subseteq Thread /\ r = rt_schedule_insert_thread(d, x)
  BY <1>1
<1>11. /\ Table(r, S) /\ Readied(r, d, x)
       /\ Stale(r, S) \subseteq Stale(d, Q) \ {d.prio[x]}
  BY ONLY <1>9, <1>10, InsertTable
<1>12. Dead(r) = Dead(s) \ {x}
  BY <1>2, <1>5, <1>11, SchedAssumption DEF WaitDrops, Readied, Dead
<1>13. Turned(r, s, x, "ready")
  <2>1. u.timer \in [Thread -> BOOLEAN] /\ DOMAIN d.stat = Thread
    BY <1>3, <1>5 DEF KernelState
  <2>2. r.stat = [d.stat EXCEPT ![x] = "ready"] /\ r.timer = [u.timer EXCEPT ![x] = FALSE]
    BY <1>5, <1>11 DEF Readied
  <2>3. /\ \A y \in Thread : r.stat[y] = IF y = x THEN "ready" ELSE d.stat[y]
        /\ \A y \in Thread : r.timer[y] <=> (y # x /\ u.timer[y])
    BY ONLY <2>1, <2>2, x \in Thread \ S, PointUpdate
  <2> QED
    BY <1>2, <1>5, <1>11, <2>3 DEF SameButLists, SameRun, Readied, Turned
<1> QED
  BY <1>9, <1>11, <1>12, <1>13

\* A thread that is on no list closed: the end of rt_thread_delete, _detach, _exit.
Closed(s, x) == [s EXCEPT !.stat[x] = "close", !.timer[x] = FALSE]

(* A closed thread is left to the idle thread, unless its object is static.     *)
LEMMA CloseTable ==
    ASSUME NEW s, NEW S, NEW Q, NEW x, x \in S, S \subseteq Thread, Table(s, S), Q = S \ {x},
           NEW r, r = Buried(Closed(s, x), x)
    PROVE  /\ Table(r, Q) /\ Turned(r, s, x, "close") /\ Stale(r, Q) = Stale(s, S)
           /\ Dead(r) = IF x \in Static THEN Dead(s) ELSE Dead(s) \union {x}
<1>1. PICK u : u = Closed(s, x)
  OBVIOUS
<1>2. s \in KernelState /\ Links(s, S) /\ x \in Thread
  BY DEF Table, Links
<1>3. /\ u.stat = [s.stat EXCEPT ![x] = "close"]
      /\ u.timer = [s.timer EXCEPT ![x] = FALSE]
      /\ u.prio = s.prio /\ u.cur = s.cur /\ u.nest = s.nest
      /\ u.ready = s.ready /\ u.wait = s.wait /\ u.group = s.group
      /\ u = [s EXCEPT !.stat = u.stat, !.timer = u.timer]
  BY <1>1, <1>2 DEF KernelState, Closed
<1>4. u.stat \in [Thread -> Stat] /\ u.timer \in [Thread -> BOOLEAN]
  BY <1>2, <1>3 DEF KernelState, Stat
<1>5. u \in KernelState
  BY ONLY <1>2, <1>3, <1>4 DEF KernelState
<1>6. \A y \in Thread \ S : u.stat[y] = s.stat[y] /\ u.prio[y] = s.prio[y]
  BY <1>2, <1>3 DEF KernelState
<1>7. Links(u, S) /\ Bits(u, S) = Bits(s, S)
  BY ONLY <1>2, <1>3, <1>5, <1>6, LinksFrame
<1>8. Table(u, S) /\ Stale(u, S) = Stale(s, S) /\ Dead(u) = Dead(s) /\ u.stat[x] # "ready"
  BY <1>2, <1>3, <1>7 DEF Table, Stale, Dead, KernelState
<1>9. r = Buried(u, x)
  BY <1>1
<1>10. /\ Table(r, Q) /\ SameButLists(r, u)
       /\ Dead(r) = IF x \in Static THEN Dead(u) ELSE Dead(u) \union {x}
       /\ Stale(r, Q) = Stale(u, S)
  BY <1>8, <1>9, BuryTable
<1>11. Turned(r, s, x, "close")
  <2>1. s.timer \in [Thread -> BOOLEAN] /\ DOMAIN s.stat = Thread
    BY <1>2 DEF KernelState
  <2>2. /\ \A y \in Thread : u.stat[y] = IF y = x THEN "close" ELSE s.stat[y]
        /\ \A y \in Thread : u.timer[y] <=> (y # x /\ s.timer[y])
    BY ONLY <1>2, <1>3, <2>1, PointUpdate
  <2> QED
    BY <1>3, <1>10, <2>2 DEF SameButLists, SameRun, Turned
<1> QED
  BY <1>8, <1>10, <1>11

(* A change of the state and priority of a thread that is on no list.           *)
LEMMA EditTable ==
    ASSUME NEW s, NEW S, NEW x \in Thread \ S, Table(s, S), s.stat[x] # "ready",
           NEW r \in KernelState, r.stat[x] # "ready",
           r.ready = s.ready, r.wait = s.wait, r.group = s.group,
           \A y \in Thread \ {x} : r.stat[y] = s.stat[y] /\ r.prio[y] = s.prio[y]
    PROVE  Table(r, S) /\ Stale(r, S) = Stale(s, S)
<1>1. ListsAreSets(r)
  BY DEF Table, Links, ListsAreSets
<1>2. LinkedByStat(r, Thread \ S)
  <2>1. ASSUME NEW t \in Thread \ S
        PROVE  /\ Listed(r, t) = Listed(s, t)
               /\ r.stat[t] = "ready" <=> s.stat[t] = "ready"
               /\ s.stat[t] = "ready" => r.prio[t] = s.prio[t]
    BY DEF Listed
  <2> QED
    BY <2>1 DEF Table, Links, LinkedByStat
<1>3. \A t \in S : Unlinked(r, t)
  BY DEF Table, Links, Unlinked
<1>4. Queued(r, S) = Queued(s, S) /\ \A t \in Queued(s, S) : r.prio[t] = s.prio[t]
  BY DEF Queued
<1>5. Bits(r, S) = Bits(s, S)
  BY <1>4 DEF Bits
<1> QED
  BY <1>1, <1>2, <1>3, <1>5 DEF Table, Links, Stale

(* Edits of errors, timers, the lock or the running thread.                     *)
LEMMA PlainTable ==
    ASSUME NEW s, NEW S, Table(s, S), NEW r \in KernelState,
           r.ready = s.ready, r.wait = s.wait, r.group = s.group,
           r.stat = s.stat, r.prio = s.prio
    PROVE  Table(r, S) /\ Stale(r, S) = Stale(s, S)
<1>1. Links(r, S) /\ Bits(r, S) = Bits(s, S)
  BY LinksFrame DEF Table
<1> QED
  BY <1>1 DEF Table, Stale

-----------------------------------------------------------------------------
(* The inductive invariant, for a controller c *)

\* Points at which a call has no other thread in its hands, and points between
\* the unlinking of a thread and its next place.
Plain == {"run", "schedule", "sleep", "wake"}
Moving == {"insert", "startup", "delete", "close"}
Moved(c) == IF pc[c] \in Moving THEN {arg[c]} ELSE {}

\* Only the controller is ever inside a call about another thread.
Others(c) == \A t \in Thread \ {c} : arg[t] = t /\ pc[t] \in Plain

\* A running timer belongs to a SUSPENDed thread that nobody is moving, and the
\* threads to be freed are the closed ones from the heap.
Threads(s, M) ==
    \A t \in Thread :
        /\ s.timer[t] => s.stat[t] = "suspend" /\ t \notin M
        /\ t \in Dead(s) <=> s.stat[t] = "close" /\ t \notin Static

\* The running thread is READY, or about to switch; nobody suspends itself with
\* the scheduler locked.
Runner(c) ==
    /\ k.cur \notin Moved(c) /\ Idle \in Queued(k, Moved(c))
    /\ \/ k.stat[k.cur] = "ready"
       \/ k.stat[k.cur] = "suspend" /\ pc[k.cur] \in {"schedule", "sleep"} /\ k.nest = 0
    /\ pc[k.cur] = "sleep" => k.nest = 0
    /\ pc[k.cur] = "suspend" /\ arg[k.cur] = k.cur => k.nest = 0
    /\ k.nest = 0 /\ ~owed /\ pc[k.cur] \notin {"schedule", "sleep"}
          => Urgent(k, Moved(c))

\* What a call of the controller finds when it goes on.
Found(s, c) ==
    /\ pc[c] \notin Plain => s.stat[c] = "ready"
    /\ pc[c] \in {"suspend", "resume"} => s.stat[arg[c]] \in {"ready", "suspend"}
    /\ pc[c] \in Moving => s.stat[arg[c]] \in {"init", "ready", "suspend"}

\* A thread that became READY before rt_thread_resume unlinks it is not more
\* urgent than the controller, or the controller would not run.  So the bit that
\* may be stale until rt_schedule_insert_thread is never the first one found.
Resumes(c) ==
    /\ pc[c] = "resume" /\ k.cur = c /\ k.nest = 0 /\ k.stat[arg[c]] = "ready"
          => k.prio[c] <= k.prio[arg[c]]
    /\ \A p \in Stale(k, Moved(c)) :
           /\ pc[c] = "insert" /\ p = k.prio[arg[c]]
           /\ k.prio[c] <= p \/ (k.cur = c /\ k.nest # 0)

Target(c) ==
    /\ pc[c] \notin Plain => arg[c] # Idle
    /\ pc[c] \in Moving \union {"resume"} => arg[c] # c

SchedInv(c) ==
    /\ TypeOK /\ Table(k, Moved(c)) /\ Threads(k, Moved(c))
    /\ Others(c) /\ Runner(c) /\ Found(k, c) /\ Resumes(c) /\ Target(c)

\* A step that leaves the controller's call about another thread alone.
SameCall(c) ==
    /\ pc' \in [Thread -> PC] /\ arg' \in [Thread -> Thread] /\ Others(c)'
    /\ \/ pc'[c] = pc[c] /\ arg'[c] = arg[c]
       \/ pc[c] \in Plain /\ pc'[c] \in Plain

(* rt_schedule may be called at any moment.                                     *)
LEMMA AlwaysCovered ==
    ASSUME NEW c \in Thread, SchedInv(c), k.nest = 0
    PROVE  Covered(k, Moved(c))
<1> SUFFICES ASSUME NEW p \in Stale(k, Moved(c))
             PROVE  \E t \in Queued(k, Moved(c)) : k.prio[t] <= p
  BY DEF Covered
<1>1. pc[c] = "insert" /\ k.prio[c] <= p
  BY DEF SchedInv, Resumes
<1>2. k.stat[c] = "ready" /\ arg[c] # c
  BY <1>1 DEF SchedInv, Found, Target, Plain, Moving
<1>3. c \in Queued(k, Moved(c))
  BY <1>2 DEF Queued, Moved
<1> QED
  BY <1>1, <1>3

(* The call of the controller is where it was.                                  *)
LEMMA SameMoved ==
    ASSUME NEW c \in Thread, SameCall(c)
    PROVE  /\ Moved(c)' = Moved(c)
           /\ pc'[c] \in Plain \/ (pc'[c] = pc[c] /\ arg'[c] = arg[c])
BY DEF SameCall, Moved, Plain, Moving

(* A step of a running thread that is in no call about another one, and does    *)
(* not switch.                                                                  *)
LEMMA RunningKeeps ==
    ASSUME NEW c \in Thread, SchedInv(c), SameCall(c),
           remaining_tick' \in [Thread -> 1 .. init_tick], owed' \in BOOLEAN,
           pc[k.cur] \in Plain, k'.cur = k.cur, k'.prio = k.prio,
           Table(k', Moved(c)), Stale(k', Moved(c)) \subseteq Stale(k, Moved(c)),
           Threads(k', Moved(c)), Found(k', c), Runner(c)'
    PROVE  SchedInv(c)'
<1>1. PICK M : M = Moved(c) /\ M = Moved(c)'
  BY SameMoved
<1>2. pc'[c] \in Plain \/ (pc'[c] = pc[c] /\ arg'[c] = arg[c])
  BY SameMoved
<1>3. TypeOK' /\ Others(c)'
  BY DEF TypeOK, SameCall, Table, Links
<1>4. Table(k', M) /\ Threads(k', M)
  BY <1>1
<1>5. Found(k, c)'
  BY <1>2 DEF Found, Plain, Moving
<1>6. Target(c)'
  BY <1>2 DEF SchedInv, Target, Plain, Moving
<1>7. Resumes(c)'
  <2>1. CASE pc[c] \in Plain
    <3>1. pc'[c] \in Plain
      BY <1>2, <2>1
    <3>2. Stale(k, M) = {}
      BY <1>1, <2>1 DEF SchedInv, Resumes, Plain
    <3> QED
      BY <1>1, <3>1, <3>2 DEF Resumes, Plain
  <2>2. CASE pc[c] \notin Plain
    <3>1. k.cur # c
      BY <2>2
    <3>2. \A p \in Stale(k, M) : pc[c] = "insert" /\ p = k.prio[arg[c]] /\ k.prio[c] <= p
      BY <1>1, <3>1 DEF SchedInv, Resumes
    <3>3. \A p \in Stale(k', M) : pc'[c] = "insert" /\ p = k'.prio[arg'[c]] /\ k'.prio[c] <= p
      BY <1>1, <2>2, <3>2 DEF SameCall
    <3> QED
      BY <1>1, <3>1, <3>3 DEF Resumes
  <2> QED
    BY <2>1, <2>2
<1> QED
  BY <1>1, <1>3, <1>4, <1>5, <1>6, <1>7 DEF SchedInv

(* A step that ends in rt_schedule.                                             *)
LEMMA SwitchKeeps ==
    ASSUME NEW c \in Thread, SchedInv(c), SameCall(c), NEW s, k' = rt_schedule(s),
           remaining_tick' \in [Thread -> 1 .. init_tick], owed' \in BOOLEAN,
           SameRun(s, k), Table(s, Moved(c)), Stale(s, Moved(c)) \subseteq Stale(k, Moved(c)),
           Threads(s, Moved(c)), Found(s, c), s.stat[Idle] = "ready",
           k.nest # 0 => /\ s.stat[k.cur] = "ready" /\ pc'[k.cur] # "sleep"
                         /\ ~(pc'[k.cur] = "suspend" /\ arg'[k.cur] = k.cur)
    PROVE  SchedInv(c)'
<1>1. PICK M : M = Moved(c) /\ M = Moved(c)'
  BY SameMoved
<1>2. pc'[c] \in Plain \/ (pc'[c] = pc[c] /\ arg'[c] = arg[c])
  BY SameMoved
<1>3. Idle \in Queued(s, M)
  BY <1>1 DEF SchedInv, Runner, Queued
<1>4. s.nest = 0 => Covered(s, M)
  <2> SUFFICES ASSUME k.nest = 0, NEW p \in Stale(s, M)
               PROVE  \E t \in Queued(s, M) : s.prio[t] <= p
    BY DEF Covered, SameRun
  <2>1. pc[c] = "insert" /\ k.prio[c] <= p
    BY <1>1 DEF SchedInv, Resumes
  <2>2. s.stat[c] = "ready" /\ arg[c] # c
    BY <2>1 DEF SchedInv, Found, Target, Plain, Moving
  <2>3. c \in Queued(s, M)
    BY <1>1, <2>2 DEF Queued, Moved
  <2> QED
    BY <2>1, <2>3 DEF SameRun
<1>5. PICK r : r = k'
  OBVIOUS
<1>6. /\ Table(r, M) /\ Stale(r, M) = Stale(s, M)
      /\ r.stat = s.stat /\ r.prio = s.prio /\ r.nest = s.nest
      /\ r.timer = s.timer /\ r.wait = s.wait
      /\ s.nest = 0 => Urgent(r, M)
      /\ s.nest # 0 => r.cur = s.cur
  BY <1>1, <1>3, <1>4, <1>5, ScheduleTable
<1>7. r.prio = k.prio /\ r.nest = k.nest /\ (k.nest # 0 => r.cur = k.cur)
  BY <1>6 DEF SameRun
<1>8. TypeOK' /\ Others(c)'
  BY <1>5, <1>6 DEF TypeOK, SameCall, Table, Links
<1>9. Threads(r, M)
  BY <1>1, <1>6 DEF Threads, Dead
<1>10. Found(k, c)'
  BY <1>2, <1>5, <1>6 DEF Found, Plain, Moving
<1>11. Target(c)'
  BY <1>2 DEF SchedInv, Target, Plain, Moving
<1>12. Runner(c)'
  <2>1. Idle \in Queued(r, M)
    BY <1>3, <1>6 DEF Queued
  <2>2. CASE k.nest = 0
    <3>1. Urgent(r, M) /\ r.nest = 0
      BY <1>6, <1>7, <2>2
    <3>2. r.cur \notin M /\ r.stat[r.cur] = "ready"
      BY <3>1 DEF Urgent, Queued
    <3> QED
      BY <1>1, <1>5, <2>1, <3>1, <3>2 DEF Runner
  <2>3. CASE k.nest # 0
    <3>1. r.cur = k.cur /\ r.nest # 0 /\ r.stat[r.cur] = "ready"
      BY <1>6, <1>7, <2>3
    <3>2. r.cur \notin M
      BY <1>1, <3>1 DEF SchedInv, Runner
    <3> QED
      BY <1>1, <1>5, <2>1, <2>3, <3>1, <3>2 DEF Runner
  <2> QED
    BY <2>2, <2>3
<1>13. Resumes(c)'
  <2>1. CASE pc'[c] \in Plain
    <3>1. pc[c] \in Plain
      BY <2>1 DEF SameCall
    <3>2. Stale(k, M) = {}
      BY <1>1, <3>1 DEF SchedInv, Resumes, Plain
    <3> QED
      BY <1>1, <1>5, <1>6, <2>1, <3>2 DEF Resumes, Plain
  <2>2. CASE pc'[c] = pc[c] /\ arg'[c] = arg[c]
    <3>1. ASSUME pc[c] = "resume", r.cur = c, r.nest = 0, r.stat[arg[c]] = "ready"
          PROVE  r.prio[c] <= r.prio[arg[c]]
      <4>1. Urgent(r, M) /\ M = {}
        BY <1>1, <1>6, <3>1 DEF Moved, Moving
      <4>2. arg[c] \in Queued(r, M)
        BY <3>1, <4>1 DEF Queued, SchedInv, TypeOK
      <4> QED
        BY <3>1, <4>1, <4>2 DEF Urgent
    <3>2. ASSUME NEW p \in Stale(r, M)
          PROVE  /\ pc[c] = "insert" /\ p = r.prio[arg[c]]
                 /\ r.prio[c] <= p \/ (r.cur = c /\ r.nest # 0)
      <4>1. p \in Stale(k, M)
        BY <1>1, <1>6
      <4>2. /\ pc[c] = "insert" /\ p = k.prio[arg[c]]
            /\ k.prio[c] <= p \/ (k.cur = c /\ k.nest # 0)
        BY <1>1, <4>1 DEF SchedInv, Resumes
      <4> QED
        BY <1>7, <4>2
    <3> QED
      BY <1>1, <1>5, <2>2, <3>1, <3>2 DEF Resumes
  <2> QED
    BY <1>2, <2>1, <2>2
<1> QED
  BY <1>1, <1>5, <1>6, <1>8, <1>9, <1>10, <1>11, <1>12, <1>13 DEF SchedInv

-----------------------------------------------------------------------------
(* The steps that are not about another thread *)

(* A thread goes from one point of a call about itself to another.              *)
LEMMA GotoPlain ==
    ASSUME NEW c \in Thread, SchedInv(c), NEW t \in Thread, NEW x \in Plain,
           pc[t] \in Plain, Goto(t, x, t)
    PROVE  SameCall(c) /\ pc'[t] = x /\ arg'[t] = t
<1>1. pc \in [Thread -> PC] /\ arg \in [Thread -> Thread] /\ x \in PC
  BY DEF SchedInv, TypeOK, Plain, PC
<1>2. /\ pc' \in [Thread -> PC] /\ arg' \in [Thread -> Thread]
      /\ \A u \in Thread : pc'[u] = IF u = t THEN x ELSE pc[u]
      /\ \A u \in Thread : arg'[u] = IF u = t THEN t ELSE arg[u]
  BY <1>1 DEF Goto
<1>3. Others(c)'
  BY <1>2 DEF SchedInv, Others
<1> QED
  BY <1>2, <1>3 DEF SameCall

(* So does a step that moves nobody.                                            *)
LEMMA StayPlain ==
    ASSUME NEW c \in Thread, SchedInv(c), UNCHANGED <<pc, arg>>
    PROVE  SameCall(c)
BY DEF SchedInv, SameCall, TypeOK, Others

(* What the running thread knows when it is outside calls about others.         *)
LEMMA RunnerFacts ==
    ASSUME NEW c \in Thread, SchedInv(c), NEW t, k.cur = t, NEW M, M = Moved(c)
    PROVE  /\ t \in Thread /\ t \notin M /\ k \in KernelState /\ Table(k, M) /\ Threads(k, M)
           /\ M \subseteq Thread /\ Idle \notin M /\ k.stat[Idle] = "ready"
           /\ k.nest \in Nat /\ Idle \in Thread
           /\ pc[t] \notin {"schedule", "sleep"} => k.stat[t] = "ready"
           /\ k.nest # 0 => k.stat[t] = "ready"
           /\ remaining_tick \in [Thread -> 1 .. init_tick] /\ owed \in BOOLEAN
           /\ pc \in [Thread -> PC] /\ arg \in [Thread -> Thread]
<1>1. /\ k \in KernelState /\ pc \in [Thread -> PC] /\ arg \in [Thread -> Thread]
      /\ remaining_tick \in [Thread -> 1 .. init_tick] /\ owed \in BOOLEAN
  BY DEF SchedInv, TypeOK
<1>2. k.cur \in Thread /\ k.nest \in Nat
  BY <1>1 DEF KernelState
<1>3. M \subseteq Thread
  BY <1>1 DEF Moved
<1>4. Idle \notin M /\ k.stat[Idle] = "ready" /\ t \notin M
  BY DEF SchedInv, Runner, Queued
<1> QED
  BY <1>1, <1>2, <1>3, <1>4, KernelAssumption DEF SchedInv, Runner

(* The rt_schedule at the end of a call, and the one inside rt_thread_sleep.  *)
LEMMA ScheduleStepKeeps ==
    ASSUME NEW c \in Thread, SchedInv(c), NEW t \in Thread,
           ScheduleStep(t) \/ SleepSchedule(t)
    PROVE  SchedInv(c)'
<1>1. k.cur = t /\ k' = rt_schedule(k) /\ remaining_tick' = remaining_tick
      /\ owed' = (owed /\ k.nest # 0)
      /\ pc[t] \in {"schedule", "sleep"}
  BY DEF ScheduleStep, SleepSchedule, At
<1>2. PICK M : M = Moved(c)
  OBVIOUS
<1>3. /\ Table(k, M) /\ Threads(k, M) /\ k.stat[Idle] = "ready"
      /\ k.nest # 0 => k.stat[t] = "ready"
      /\ remaining_tick \in [Thread -> 1 .. init_tick] /\ owed \in BOOLEAN
  BY <1>1, <1>2, RunnerFacts
<1>4. PICK x \in {"run", "wake"} : Goto(t, x, t)
  BY DEF ScheduleStep, SleepSchedule
<1>5. SameCall(c) /\ pc'[t] = x
  <2>1. pc[t] \in Plain /\ x \in Plain
    BY <1>1 DEF Plain
  <2> QED
    BY <1>4, <2>1, GotoPlain
<1>6. SameRun(k, k) /\ Found(k, c)
  BY DEF SameRun, SchedInv
<1>7. owed' \in BOOLEAN
  BY <1>1, <1>3
<1>8. pc'[k.cur] \notin {"sleep", "suspend"}
  BY <1>1, <1>5
<1> QED
  BY <1>1, <1>2, <1>3, <1>5, <1>6, <1>7, <1>8, SwitchKeeps

(* A step that keeps the states the controller relies on.                       *)
LEMMA FoundKept ==
    ASSUME NEW c \in Thread, SchedInv(c), NEW s,
           pc[c] \notin Plain => s.stat[c] = "ready",
           pc[c] \notin Plain =>
               \/ s.stat[arg[c]] = k.stat[arg[c]]
               \/ arg[c] \notin Moved(c) /\ s.stat[arg[c]] \in {"ready", "suspend"}
    PROVE  Found(s, c)
BY DEF SchedInv, Found, Moved, Plain, Moving

(* The expiry of a thread timer wakes a SUSPENDed thread, never one being moved.*)
LEMMA TimeoutKeeps ==
    ASSUME NEW c \in Thread, SchedInv(c), NEW u \in Thread, Timeout(u)
    PROVE  SchedInv(c)'
<1>1. PICK M, t : M = Moved(c) /\ t = k.cur
  OBVIOUS
<1>2. /\ t \in Thread /\ t \notin M /\ k \in KernelState /\ Table(k, M) /\ Threads(k, M)
      /\ M \subseteq Thread /\ k.stat[Idle] = "ready" /\ Idle \in Thread
      /\ k.nest # 0 => k.stat[t] = "ready"
      /\ remaining_tick \in [Thread -> 1 .. init_tick]
  BY <1>1, RunnerFacts
<1>3. k.stat[u] = "suspend" /\ u \in Thread \ M
  BY <1>2 DEF Timeout, Threads
<1>4. PICK s : s = rt_schedule_insert_thread(Woken(k, u, "ETIMEOUT"), u)
  OBVIOUS
<1>5. k' = rt_schedule(s) /\ owed' = (k.nest # 0) /\ UNCHANGED <<remaining_tick, pc, arg>>
  BY <1>4 DEF Timeout, rt_thread_timeout, Woken
<1>6. /\ Table(s, M) /\ Turned(s, k, u, "ready") /\ Dead(s) = Dead(k) \ {u}
      /\ Stale(s, M) \subseteq Stale(k, M)
  BY <1>2, <1>3, <1>4, ExpireTable
<1>7. SameRun(s, k) /\ \A y \in Thread : s.stat[y] = IF y = u THEN "ready" ELSE k.stat[y]
  BY <1>6 DEF Turned
<1>8. Threads(s, M)
  BY <1>2, <1>3, <1>6 DEF Threads, Turned
<1>9. Found(s, c)
  <2>1. pc[c] \notin Plain => s.stat[c] = "ready"
    BY <1>7 DEF SchedInv, Found
  <2>2. arg[c] \in Thread
    BY DEF SchedInv, TypeOK
  <2> QED
    BY <1>1, <1>3, <1>7, <2>1, <2>2, FoundKept
<1>10. s.stat[Idle] = "ready" /\ (k.nest # 0 => s.stat[k.cur] = "ready")
  BY <1>1, <1>2, <1>7
<1>11. k.nest # 0 => pc'[k.cur] # "sleep" /\ ~(pc'[k.cur] = "suspend" /\ arg'[k.cur] = k.cur)
  BY <1>5 DEF SchedInv, Runner
<1>12. SameCall(c)
  BY <1>5, StayPlain
<1> QED
  BY <1>1, <1>2, <1>5, <1>6, <1>7, <1>8, <1>9, <1>10, <1>11, <1>12, SwitchKeeps

(* The tick, with the yield at the end of a time slice.                       *)
LEMMA TickKeeps ==
    ASSUME NEW c \in Thread, SchedInv(c), rt_tick_increase
    PROVE  SchedInv(c)'
<1>1. PICK M, t : M = Moved(c) /\ t = k.cur
  OBVIOUS
<1>2. /\ t \in Thread /\ t \notin M /\ k \in KernelState /\ Table(k, M) /\ Threads(k, M)
      /\ k.stat[Idle] = "ready"
      /\ k.nest # 0 => k.stat[t] = "ready"
      /\ remaining_tick \in [Thread -> 1 .. init_tick] /\ owed \in BOOLEAN
  BY <1>1, RunnerFacts
<1>3. remaining_tick' \in [Thread -> 1 .. init_tick]
  <2>1. remaining_tick[t] \in 1 .. init_tick /\ init_tick \in Nat \ {0}
    BY <1>2, SchedAssumption
  <2>2. (IF remaining_tick[t] = 1 THEN init_tick ELSE remaining_tick[t] - 1) \in 1 .. init_tick
    BY <2>1
  <2> QED
    BY <1>1, <1>2, <2>2 DEF rt_tick_increase
<1>4. SameCall(c) /\ UNCHANGED <<pc, arg>>
  BY StayPlain DEF rt_tick_increase
<1>5. owed' \in BOOLEAN
  BY <1>2 DEF rt_tick_increase
<1>6. CASE remaining_tick[t] = 1 /\ Yields(k)
  <2>1. PICK s : s = Requeue(k)
    OBVIOUS
  <2>2. k' = rt_schedule(s)
    BY <1>1, <1>6, <2>1 DEF rt_tick_increase
  <2>3. /\ Table(s, M) /\ SameButLists(s, k) /\ s.wait = k.wait /\ Stale(s, M) = Stale(k, M)
    BY <1>1, <1>2, <1>6, <2>1, RequeueTable
  <2>4. SameRun(s, k) /\ s.stat = k.stat /\ s.timer = k.timer
    BY <2>3 DEF SameRun, SameButLists
  <2>5. Threads(s, M)
    BY <1>2, <2>3, <2>4 DEF Threads, Dead
  <2>6. Found(s, c)
    BY <2>4 DEF SchedInv, Found
  <2>7. k.nest # 0 => pc'[k.cur] # "sleep" /\ ~(pc'[k.cur] = "suspend" /\ arg'[k.cur] = k.cur)
    BY <1>4 DEF SchedInv, Runner
  <2>8. s.stat[Idle] = "ready" /\ (k.nest # 0 => s.stat[k.cur] = "ready")
    BY <1>1, <1>2, <2>4
  <2> QED
    BY <1>1, <1>3, <1>4, <1>5, <2>2, <2>3, <2>4, <2>5, <2>6, <2>7, <2>8, SwitchKeeps
<1>7. CASE ~(remaining_tick[t] = 1 /\ Yields(k))
  <2>1. k' = k /\ owed' = owed
    <3>1. k' = k
      BY <1>1, <1>7 DEF rt_tick_increase
    <3>2. owed' = owed
      BY <1>1, <1>2, <1>7, Zenon DEF rt_tick_increase
    <3> QED
      BY <3>1, <3>2
  <2>2. Moved(c)' = Moved(c) /\ TypeOK'
    BY <1>3, <1>4, <2>1 DEF Moved, TypeOK, SchedInv
  <2> QED
    BY <1>4, <2>1, <2>2 DEF SchedInv, Others, Runner, Found, Resumes, Target
<1> QED
  BY <1>6, <1>7

(* rt_thread_exit buries the running thread and switches away from it.        *)
LEMMA ExitKeeps ==
    ASSUME NEW c \in Thread, SchedInv(c), Controller = {c}, NEW t \in Thread, rt_thread_exit(t)
    PROVE  SchedInv(c)'
<1>1. PICK M, Q : M = Moved(c) /\ Q = M \union {t}
  OBVIOUS
<1>2. k.cur = t /\ pc[t] = "run" /\ t # Idle /\ t # c /\ k.nest = 0
  BY DEF rt_thread_exit, At
<1>3. /\ t \notin M /\ k \in KernelState /\ Table(k, M) /\ Threads(k, M)
      /\ M \subseteq Thread /\ k.stat[Idle] = "ready" /\ Idle \in Thread
      /\ remaining_tick \in [Thread -> 1 .. init_tick]
      /\ k.stat[t] = "ready"
  BY <1>1, <1>2, RunnerFacts
<1>4. pc[c] \notin Plain => arg[c] # t
  BY <1>2 DEF rt_thread_exit, Exclusive, Plain
<1>5. PICK u, s : u = rt_schedule_remove_thread(k, t) /\ s = Buried(Closed(u, t), t)
  OBVIOUS
<1>6. /\ Table(u, Q) /\ SameButLists(u, k) /\ WaitDrops(u, k, t)
      /\ Stale(u, Q) \subseteq Stale(k, M)
  BY <1>1, <1>3, <1>5, RemoveTable
<1>7. /\ Table(s, M) /\ Turned(s, u, t, "close") /\ Stale(s, M) = Stale(u, Q)
      /\ Dead(s) = IF t \in Static THEN Dead(u) ELSE Dead(u) \union {t}
  <2>1. t \in Q /\ Q \subseteq Thread /\ M = Q \ {t}
    BY <1>1, <1>3
  <2> QED
    BY ONLY <1>5, <1>6, <2>1, CloseTable
<1>8. k' = rt_schedule(s) /\ owed' = FALSE /\ UNCHANGED <<remaining_tick, pc, arg>>
  <2>1. u \in KernelState
    BY <1>6 DEF Table, Links
  <2>2. s = [u EXCEPT !.stat[t] = "close", !.timer[t] = FALSE,
                      !.wait["rt_thread_defunct"] = IF t \in Static THEN @ ELSE <<t>> \o @]
    BY <1>5, <2>1 DEF Buried, Closed, KernelState
  <2> QED
    BY <1>5, <2>2 DEF rt_thread_exit
<1>9. /\ SameRun(s, k) /\ Turned(s, k, t, "close")
  BY <1>6, <1>7 DEF Turned, SameRun, SameButLists
<1>10. Dead(u) = Dead(k) \ {t}
  BY <1>6, SchedAssumption DEF WaitDrops, Dead
<1>11. t \notin Dead(k)
  BY <1>3 DEF Threads
<1>12. Threads(s, M)
  BY <1>3, <1>7, <1>9, <1>10, <1>11 DEF Threads, Turned
<1>13. Found(s, c)
  <2>1. arg[c] \in Thread
    BY DEF SchedInv, TypeOK
  <2>2. pc[c] \notin Plain => k.stat[c] = "ready"
    BY DEF SchedInv, Found
  <2>3. pc[c] \notin Plain => s.stat[c] = "ready" /\ s.stat[arg[c]] = k.stat[arg[c]]
    BY <1>2, <1>4, <1>9, <2>1, <2>2 DEF Turned
  <2> QED
    BY <2>3, FoundKept
<1>14. s.stat[Idle] = "ready"
  BY <1>2, <1>3, <1>9 DEF Turned
<1>15. SameCall(c)
  BY <1>8, StayPlain
<1>16. Stale(s, M) \subseteq Stale(k, M)
  BY <1>6, <1>7
<1> QED
  BY <1>1, <1>2, <1>3, <1>7, <1>8, <1>9, <1>12, <1>13, <1>14, <1>15, <1>16, SwitchKeeps

(* rt_thread_yield.                                                           *)
LEMMA YieldKeeps ==
    ASSUME NEW c \in Thread, SchedInv(c), NEW t \in Thread, rt_thread_yield(t)
    PROVE  SchedInv(c)'
<1>1. PICK M : M = Moved(c)
  OBVIOUS
<1>2. /\ k.cur = t /\ pc[t] = "run" /\ Yields(k) /\ k' = Requeue(k) /\ Goto(t, "schedule", t)
      /\ UNCHANGED <<remaining_tick, owed>>
  BY DEF rt_thread_yield, At
<1>3. /\ t \notin M /\ k \in KernelState /\ Table(k, M) /\ Threads(k, M)
      /\ k.stat[Idle] = "ready" /\ Idle \notin M /\ Idle \in Thread
      /\ remaining_tick \in [Thread -> 1 .. init_tick] /\ owed \in BOOLEAN
      /\ k.stat[t] = "ready"
  BY <1>1, <1>2, RunnerFacts
<1>4. pc[k.cur] \in Plain /\ "schedule" \in Plain
  BY <1>2 DEF Plain
<1>5. SameCall(c) /\ pc'[t] = "schedule"
  BY <1>2, <1>4, GotoPlain
<1>6. PICK s : s = k'
  OBVIOUS
<1>7. /\ Table(s, M) /\ SameButLists(s, k) /\ s.wait = k.wait /\ Stale(s, M) = Stale(k, M)
  BY <1>2, <1>3, <1>6, RequeueTable
<1>8. s.stat = k.stat /\ s.timer = k.timer /\ s.cur = k.cur /\ s.prio = k.prio /\ s.nest = k.nest
  BY <1>7 DEF SameButLists
<1>9. Threads(s, M) /\ Found(s, c)
  BY <1>3, <1>7, <1>8 DEF Threads, Dead, SchedInv, Found
<1>10. Moved(c)' = M
  BY <1>1, <1>5, SameMoved
<1>11. Runner(c)'
  BY <1>2, <1>3, <1>5, <1>6, <1>8, <1>10 DEF Runner, Queued
<1> QED
  BY <1>1, <1>2, <1>3, <1>4, <1>5, <1>6, <1>7, <1>8, <1>9, <1>11, RunningKeeps

(* rt_thread_sleep up to its rt_schedule.                                     *)
LEMMA SleepKeeps ==
    ASSUME NEW c \in Thread, SchedInv(c), NEW t \in Thread, rt_thread_sleep(t)
    PROVE  SchedInv(c)'
<1>1. PICK M : M = Moved(c)
  OBVIOUS
<1>2. /\ k.cur = t /\ pc[t] = "run" /\ t # Idle /\ k.nest = 0 /\ Goto(t, "sleep", t)
      /\ k' = StartTimer(rt_thread_suspend(k, t), t) /\ UNCHANGED <<remaining_tick, owed>>
  BY DEF rt_thread_sleep, At
<1>3. /\ t \notin M /\ k \in KernelState /\ Table(k, M) /\ Threads(k, M)
      /\ k.stat[Idle] = "ready" /\ Idle \notin M /\ Idle \in Thread
      /\ remaining_tick \in [Thread -> 1 .. init_tick] /\ owed \in BOOLEAN
      /\ k.stat[t] = "ready"
  BY <1>1, <1>2, RunnerFacts
<1>4. pc[k.cur] \in Plain /\ "sleep" \in Plain
  BY <1>2 DEF Plain
<1>5. SameCall(c) /\ pc'[t] = "sleep"
  BY <1>2, <1>4, GotoPlain
<1>6. PICK s, r : s = Suspend(k, t) /\ r = k'
  OBVIOUS
<1>7. /\ Table(s, M) /\ Turned(s, k, t, "suspend") /\ Dead(s) = Dead(k) \ {t}
      /\ Stale(s, M) \subseteq Stale(k, M)
  BY <1>3, <1>6, SuspendTable
<1>8. s \in KernelState
  BY <1>7 DEF Table, Links
<1>9. r = [s EXCEPT !.timer = [s.timer EXCEPT ![t] = TRUE]]
  BY <1>2, <1>3, <1>6, <1>8 DEF StartTimer, rt_thread_suspend, KernelState
<1>10. [s.timer EXCEPT ![t] = TRUE] \in [Thread -> BOOLEAN]
  BY <1>8 DEF KernelState
<1>11. r \in KernelState
  BY ONLY <1>8, <1>9, <1>10 DEF KernelState
<1>12. /\ r.ready = s.ready /\ r.wait = s.wait /\ r.group = s.group /\ r.stat = s.stat
       /\ r.prio = s.prio /\ r.cur = s.cur /\ r.nest = s.nest
       /\ r.timer = [s.timer EXCEPT ![t] = TRUE]
  BY ONLY <1>8, <1>9 DEF KernelState
<1>13. Table(r, M) /\ Stale(r, M) = Stale(s, M)
  BY <1>7, <1>11, <1>12, PlainTable
<1>14. \A y \in Thread : y # t => (r.timer[y] <=> s.timer[y])
  BY <1>8, <1>12 DEF KernelState
<1>15. r.stat[t] = "suspend" /\ \A y \in Thread : y # t => r.stat[y] = k.stat[y]
  BY <1>7, <1>12 DEF Turned
<1>16. Threads(r, M)
  <2>1. t \notin Dead(k)
    BY <1>3 DEF Threads
  <2>2. Dead(r) = Dead(k)
    BY <1>7, <1>12, <2>1 DEF Dead
  <2>3. \A y \in Thread : y # t => (r.timer[y] => k.timer[y])
    BY <1>7, <1>14 DEF Turned
  <2> QED
    BY <1>3, <1>15, <2>1, <2>2, <2>3 DEF Threads
<1>17. Found(r, c)
  <2>1. arg[c] \in Thread
    BY DEF SchedInv, TypeOK
  <2>2. pc[c] \notin Plain => c # t /\ k.stat[c] = "ready"
    BY <1>2, <1>4 DEF SchedInv, Found
  <2>3. r.stat[arg[c]] = k.stat[arg[c]] \/ (arg[c] \notin M /\ r.stat[arg[c]] = "suspend")
    BY <1>3, <1>15, <2>1
  <2> QED
    BY <1>1, <1>15, <2>2, <2>3, FoundKept
<1>18. Moved(c)' = M
  BY <1>1, <1>5, SameMoved
<1>19. r.cur = t /\ r.nest = 0 /\ r.prio = k.prio
  BY <1>2, <1>7, <1>12 DEF Turned, SameRun
<1>20. Runner(c)'
  BY <1>2, <1>3, <1>5, <1>6, <1>15, <1>18, <1>19 DEF Runner, Queued
<1> QED
  BY <1>1, <1>2, <1>3, <1>4, <1>5, <1>6, <1>7, <1>13, <1>16, <1>17, <1>19, <1>20, RunningKeeps

(* The return of rt_thread_sleep.                                             *)
LEMMA SleepReturnKeeps ==
    ASSUME NEW c \in Thread, SchedInv(c), NEW t \in Thread, SleepReturn(t)
    PROVE  SchedInv(c)'
<1>1. PICK M, r : M = Moved(c) /\ r = k'
  OBVIOUS
<1>2. /\ k.cur = t /\ pc[t] = "wake" /\ Goto(t, "run", t) /\ UNCHANGED <<remaining_tick, owed>>
      /\ r = [k EXCEPT !.err[t] = IF @ = "ETIMEOUT" THEN "EOK" ELSE @]
  BY <1>1 DEF SleepReturn, At
<1>3. /\ t \notin M /\ k \in KernelState /\ Table(k, M) /\ Threads(k, M)
      /\ k.stat[Idle] = "ready" /\ Idle \notin M /\ Idle \in Thread
      /\ remaining_tick \in [Thread -> 1 .. init_tick] /\ owed \in BOOLEAN
      /\ k.stat[t] = "ready"
  BY <1>1, <1>2, RunnerFacts
<1>4. pc[k.cur] \in Plain /\ "run" \in Plain
  BY <1>2 DEF Plain
<1>5. SameCall(c) /\ pc'[t] = "run"
  BY <1>2, <1>4, GotoPlain
<1>6. /\ r.ready = k.ready /\ r.wait = k.wait /\ r.group = k.group /\ r.stat = k.stat
      /\ r.prio = k.prio /\ r.cur = k.cur /\ r.nest = k.nest /\ r.timer = k.timer
      /\ r = [k EXCEPT !.err = r.err]
      /\ r.err = [k.err EXCEPT ![t] = IF @ = "ETIMEOUT" THEN "EOK" ELSE @]
  BY <1>2, <1>3 DEF KernelState
<1>7. r.err \in [Thread -> Error]
  BY <1>3, <1>6 DEF KernelState, Error
<1>8. r \in KernelState
  BY ONLY <1>3, <1>6, <1>7 DEF KernelState
<1>9. Table(r, M) /\ Stale(r, M) = Stale(k, M)
  BY <1>3, <1>6, <1>8, PlainTable
<1>10. Threads(r, M) /\ Found(r, c)
  BY <1>3, <1>6 DEF Threads, Dead, SchedInv, Found
<1>11. Moved(c)' = M
  BY <1>1, <1>5, SameMoved
<1>12. Urgent(r, M) <=> Urgent(k, M)
  BY <1>6 DEF Urgent, Queued
<1>13. Runner(c)'
  BY <1>1, <1>2, <1>3, <1>5, <1>6, <1>11, <1>12 DEF Runner, Queued, SchedInv
<1> QED
  BY <1>1, <1>2, <1>3, <1>4, <1>5, <1>6, <1>9, <1>10, <1>13, RunningKeeps

(* rt_enter_critical and rt_exit_critical.                                    *)
LEMMA CriticalKeeps ==
    ASSUME NEW c \in Thread, SchedInv(c), NEW t \in Thread,
           rt_enter_critical(t) \/ rt_exit_critical(t)
    PROVE  SchedInv(c)'
<1>1. PICK M, r : M = Moved(c) /\ r = k'
  OBVIOUS
<1>2. PICK n : /\ k.cur = t /\ pc[t] = "run" /\ UNCHANGED <<remaining_tick, owed>>
               /\ r = [k EXCEPT !.nest = n] /\ n = r.nest
               /\ \/ n = k.nest + 1 /\ UNCHANGED <<pc, arg>>
                  \/ n = (IF k.nest <= 1 THEN 0 ELSE k.nest - 1)
                     /\ IF k.nest <= 1 THEN Goto(t, "schedule", t) ELSE UNCHANGED <<pc, arg>>
  <2>1. k \in KernelState
    BY DEF SchedInv, TypeOK
  <2> QED
    BY <1>1, <2>1 DEF rt_enter_critical, rt_exit_critical, At, KernelState
<1>3. /\ t \notin M /\ k \in KernelState /\ Table(k, M) /\ Threads(k, M)
      /\ k.stat[Idle] = "ready" /\ Idle \notin M /\ Idle \in Thread /\ k.nest \in Nat
      /\ remaining_tick \in [Thread -> 1 .. init_tick] /\ owed \in BOOLEAN
      /\ k.stat[t] = "ready"
  BY <1>1, <1>2, RunnerFacts
<1>4. pc[k.cur] \in Plain /\ "schedule" \in Plain
  BY <1>2 DEF Plain
<1>5. SameCall(c) /\ (pc'[t] = "schedule" \/ (pc'[t] = "run" /\ n # 0))
  <2>1. CASE Goto(t, "schedule", t)
    BY <1>2, <1>4, <2>1, GotoPlain
  <2>2. CASE UNCHANGED <<pc, arg>> /\ n # 0
    BY <1>2, <2>2, StayPlain
  <2> QED
    BY <1>2, <1>3, <2>1, <2>2
<1>6. /\ r.ready = k.ready /\ r.wait = k.wait /\ r.group = k.group /\ r.stat = k.stat
      /\ r.prio = k.prio /\ r.cur = k.cur /\ r.timer = k.timer
  BY <1>2, <1>3 DEF KernelState
<1>7. n \in Nat
  BY <1>2, <1>3
<1>8. r \in KernelState
  BY ONLY <1>2, <1>3, <1>7 DEF KernelState
<1>9. Table(r, M) /\ Stale(r, M) = Stale(k, M)
  BY <1>3, <1>6, <1>8, PlainTable
<1>10. Threads(r, M) /\ Found(r, c)
  BY <1>3, <1>6 DEF Threads, Dead, SchedInv, Found
<1>11. Moved(c)' = M
  BY <1>1, <1>5, SameMoved
<1>12. Runner(c)'
  BY <1>1, <1>2, <1>3, <1>5, <1>6, <1>11 DEF Runner, Queued
<1> QED
  BY <1>1, <1>2, <1>3, <1>4, <1>5, <1>6, <1>9, <1>10, <1>12, RunningKeeps

(* rt_thread_idle_excute frees a closed thread, which is on no other list.    *)
LEMMA IdleKeeps ==
    ASSUME NEW c \in Thread, SchedInv(c), rt_thread_idle_excute
    PROVE  SchedInv(c)'
<1>1. PICK M, r, x, u : M = Moved(c) /\ r = k' /\ x = Head(defunct) /\ u = Unlink(k, x)
  OBVIOUS
<1>2. /\ k.cur = Idle /\ pc[Idle] = "run" /\ UNCHANGED <<remaining_tick, pc, arg, owed>>
      /\ defunct # <<>> /\ r = [u EXCEPT !.stat[x] = "none"]
  BY <1>1 DEF rt_thread_idle_excute, At
<1>3. /\ k \in KernelState /\ Table(k, M) /\ Threads(k, M)
      /\ k.stat[Idle] = "ready" /\ Idle \notin M /\ Idle \in Thread
      /\ remaining_tick \in [Thread -> 1 .. init_tick] /\ owed \in BOOLEAN
  BY <1>1, <1>2, RunnerFacts
<1>4. x \in Thread /\ x \in Dead(k)
  <2>1. defunct \in Seq(Thread)
    BY <1>3, SchedAssumption DEF defunct, KernelState
  <2> QED
    BY <1>1, <1>2, <2>1, HeadIsElement DEF Dead, defunct
<1>5. k.stat[x] = "close" /\ x \notin M
  BY <1>3, <1>4, SchedAssumption DEF Threads, Table, Links, Unlinked, Dead
<1>6. PICK Q : Q = M \union {x}
  OBVIOUS
<1>7. /\ Table(u, Q) /\ SameButLists(u, k) /\ WaitDrops(u, k, x) /\ u.group = k.group
      /\ k.stat[x] # "ready" => Stale(u, Q) = Stale(k, M)
  <2>1. x \in Thread \ M /\ Table(k, M) /\ u = Unlink(k, x)
    BY <1>1, <1>3, <1>4, <1>5
  <2> QED
    BY ONLY <1>6, <2>1, UnlinkTable
<1>8. u \in KernelState /\ Links(u, Q)
  BY <1>7 DEF Table, Links
<1>9. /\ r.ready = u.ready /\ r.wait = u.wait /\ r.group = u.group
      /\ r.prio = u.prio /\ r.cur = u.cur /\ r.nest = u.nest /\ r.timer = u.timer
      /\ r = [u EXCEPT !.stat = r.stat] /\ r.stat = [u.stat EXCEPT ![x] = "none"]
  BY <1>2, <1>8 DEF KernelState
<1>10. r.stat \in [Thread -> Stat]
  BY <1>8, <1>9 DEF KernelState, Stat
<1>11. r \in KernelState
  BY ONLY <1>8, <1>9, <1>10 DEF KernelState
<1>12. \A y \in Thread : r.stat[y] = IF y = x THEN "none" ELSE k.stat[y]
  BY <1>7, <1>8, <1>9 DEF SameButLists, KernelState
<1>13. Links(r, Q) /\ Bits(r, Q) = Bits(u, Q)
  <2>1. \A y \in Thread \ Q : r.stat[y] = u.stat[y] /\ r.prio[y] = u.prio[y]
    BY <1>6, <1>8, <1>9 DEF KernelState
  <2> QED
    BY ONLY <1>8, <1>9, <1>11, <2>1, LinksFrame
<1>14. Links(r, M) /\ Bits(r, M) = Bits(r, Q)
  <2>1. M = Q \ {x} /\ r.stat[x] # "ready"
    BY <1>4, <1>5, <1>6, <1>12
  <2> QED
    BY <1>4, <1>13, <2>1, LinksRest
<1>15. Table(r, M) /\ Stale(r, M) = Stale(k, M)
  BY <1>5, <1>7, <1>9, <1>13, <1>14 DEF Table, Stale
<1>16. r.timer = k.timer /\ r.cur = k.cur /\ r.nest = k.nest /\ r.prio = k.prio
  BY <1>7, <1>9 DEF SameButLists
<1>17. Threads(r, M)
  <2>1. Dead(r) = Dead(k) \ {x}
    BY <1>7, <1>9, SchedAssumption DEF WaitDrops, Dead
  <2> QED
    BY <1>3, <1>5, <1>12, <1>16, <2>1 DEF Threads
<1>18. Found(r, c)
  <2>1. arg[c] \in Thread
    BY DEF SchedInv, TypeOK
  <2>2. pc[c] \notin Plain => k.stat[c] = "ready" /\ k.stat[arg[c]] # "close"
    <3>1. pc[c] \in Plain \/ pc[c] \in Moving \/ pc[c] \in {"suspend", "resume"}
      BY DEF SchedInv, TypeOK, PC, Plain, Moving
    <3> QED
      BY <3>1 DEF SchedInv, Found
  <2> QED
    BY <1>5, <1>12, <2>1, <2>2, FoundKept
<1>19. SameCall(c) /\ Moved(c)' = M
  BY <1>1, <1>2, StayPlain DEF Moved
<1>20. Urgent(k, M) => Urgent(r, M)
  <2>1. Queued(r, M) = Queued(k, M)
    BY <1>5, <1>12 DEF Queued
  <2> QED
    BY <1>16, <2>1 DEF Urgent
<1>21. Runner(c)'
  BY <1>1, <1>2, <1>3, <1>5, <1>12, <1>16, <1>19, <1>20 DEF Runner, Queued, SchedInv
<1>22. pc[k.cur] \in Plain
  BY <1>2 DEF Plain
<1> QED
  BY <1>1, <1>2, <1>3, <1>15, <1>16, <1>17, <1>18, <1>19, <1>21, <1>22, RunningKeeps

-----------------------------------------------------------------------------
(* The calls of the controller *)

(* What the controller knows when it runs.                                      *)
LEMMA ControllerFacts ==
    ASSUME NEW c \in Thread, SchedInv(c), k.cur = c, pc[c] \notin {"schedule", "sleep"},
           NEW M, M = Moved(c)
    PROVE  /\ c \notin M /\ k \in KernelState /\ Table(k, M) /\ Threads(k, M)
           /\ Idle \notin M /\ k.stat[Idle] = "ready" /\ Idle \in Thread
           /\ k.stat[c] = "ready" /\ M \subseteq Thread
           /\ remaining_tick \in [Thread -> 1 .. init_tick] /\ owed \in BOOLEAN
           /\ pc \in [Thread -> PC] /\ arg \in [Thread -> Thread]
           /\ pc[c] # "insert" => Stale(k, M) = {}
           /\ k.nest = 0 /\ ~owed => Urgent(k, M)
<1>1. pc[c] # "insert" => Stale(k, M) = {}
  BY DEF SchedInv, Resumes
<1>2. k.nest = 0 /\ ~owed => Urgent(k, M)
  BY DEF SchedInv, Runner
<1> QED
  BY <1>1, <1>2, RunnerFacts

\* The controller enters point x of a call about u.
Enters(c, x, u) ==
    /\ pc' \in [Thread -> PC] /\ arg' \in [Thread -> Thread]
    /\ pc'[c] = x /\ arg'[c] = u /\ Others(c)'

(* A Goto of the controller leaves the other threads where they are.          *)
LEMMA ControllerGoto ==
    ASSUME NEW c \in Thread, SchedInv(c), NEW x \in PC, NEW u \in Thread, Goto(c, x, u)
    PROVE  Enters(c, x, u)
<1>1. pc \in [Thread -> PC] /\ arg \in [Thread -> Thread]
  BY DEF SchedInv, TypeOK
<1>2. /\ pc' \in [Thread -> PC] /\ arg' \in [Thread -> Thread]
      /\ \A t \in Thread : pc'[t] = IF t = c THEN x ELSE pc[t]
      /\ \A t \in Thread : arg'[t] = IF t = c THEN u ELSE arg[t]
  BY <1>1 DEF Goto
<1>3. Others(c)'
  BY <1>2 DEF SchedInv, Others
<1> QED
  BY <1>2, <1>3 DEF Enters

(* A section of the controller's call that leaves no stale bit, or the one of    *)
(* the thread it is about.                                                       *)
LEMMA SectionKeeps ==
    ASSUME NEW c \in Thread, SchedInv(c), k.cur = c, pc[c] \notin {"schedule", "sleep"},
           NEW x \in PC, NEW u \in Thread, Enters(c, x, u),
           NEW N, N = Moved(c)', NEW r, r = k',
           remaining_tick' \in [Thread -> 1 .. init_tick], owed' \in BOOLEAN,
           Table(r, N), Threads(r, N), r.cur = c, r.nest = k.nest,
           r.stat[Idle] = "ready", Idle \notin N, c \notin N,
           r.stat[c] = "ready" \/ (r.stat[c] = "suspend" /\ x = "schedule" /\ r.nest = 0),
           x # "sleep", x = "suspend" /\ u = c => r.nest = 0,
           r.nest = 0 /\ ~owed' /\ x # "schedule" => Urgent(r, N),
           x \notin Plain => r.stat[c] = "ready" /\ u # Idle,
           x \in {"suspend", "resume"} => r.stat[u] \in {"ready", "suspend"},
           x \in Moving => r.stat[u] \in {"init", "ready", "suspend"},
           x \in Moving \union {"resume"} => u # c,
           x = "resume" => r.stat[u] # "ready",
           \A p \in Stale(r, N) : /\ x = "insert" /\ p = r.prio[u]
                                  /\ r.prio[c] <= p \/ r.nest # 0
    PROVE  SchedInv(c)'
<1>1. TypeOK' /\ Others(c)' /\ pc'[c] = x /\ arg'[c] = u
  BY DEF TypeOK, Enters, Table, Links
<1>2. Idle \in Queued(r, N)
  BY KernelAssumption DEF Queued
<1>3. Runner(c)'
  BY <1>1, <1>2 DEF Runner
<1>4. Found(k, c)'
  BY <1>1 DEF Found
<1>5. Resumes(c)'
  BY <1>1 DEF Resumes
<1>6. Target(c)'
  BY <1>1 DEF Target
<1> QED
  BY <1>1, <1>3, <1>4, <1>5, <1>6 DEF SchedInv

(* The checks of rt_thread_resume and rt_thread_suspend.                      *)
LEMMA CheckKeeps ==
    ASSUME NEW c \in Thread, SchedInv(c), Controller = {c}, NEW t \in Thread, NEW u \in Thread,
           ResumeCheck(t, u) \/ SuspendCheck(t, u)
    PROVE  SchedInv(c)'
<1>1. PICK x \in {"resume", "suspend"} :
          /\ k.cur = c /\ pc[c] = "run" /\ Goto(c, x, u) /\ UNCHANGED <<k, remaining_tick, owed>>
          /\ x = "resume" => u # c /\ k.stat[u] = "suspend"
          /\ x = "suspend" => k.stat[u] = "ready" /\ u # Idle /\ (u = c => k.nest = 0)
  BY DEF ResumeCheck, SuspendCheck, At
<1>2. PICK M : M = Moved(c)
  OBVIOUS
<1>3. /\ c \notin M /\ k \in KernelState /\ Table(k, M) /\ Threads(k, M)
      /\ Idle \notin M /\ k.stat[Idle] = "ready"
      /\ k.stat[c] = "ready"
      /\ remaining_tick \in [Thread -> 1 .. init_tick] /\ owed \in BOOLEAN
      /\ pc[c] # "insert" => Stale(k, M) = {}
      /\ k.nest = 0 /\ ~owed => Urgent(k, M)
  BY <1>1, <1>2, ControllerFacts
<1>4. x \in PC
  BY DEF PC
<1>5. Enters(c, x, u)
  BY <1>1, <1>4, ControllerGoto
<1>6. M = {} /\ Moved(c)' = {}
  BY <1>1, <1>2, <1>5 DEF Moved, Moving, Enters
<1>7. k' = k /\ owed' = owed /\ remaining_tick' = remaining_tick /\ u # Idle
  BY <1>1, <1>3
<1>8. x \notin Moving /\ x \notin Plain
  BY DEF Moving, Plain
<1> QED
  BY <1>1, <1>3, <1>4, <1>5, <1>6, <1>7, <1>8, SectionKeeps

(* rt_thread_resume unlinks the thread, which may be READY by now.            *)
LEMMA DetachKeeps ==
    ASSUME NEW c \in Thread, SchedInv(c), NEW t \in Thread, ResumeDetach(t)
    PROVE  SchedInv(c)'
<1>1. t = c
  BY DEF ResumeDetach, At, SchedInv, Others, Plain
<1>2. PICK u \in Thread : u = arg[c]
  BY DEF SchedInv, TypeOK
<1>3. /\ k.cur = c /\ pc[c] = "resume" /\ Goto(c, "insert", u) /\ k' = Detach(k, u)
      /\ UNCHANGED <<remaining_tick, owed>>
  BY <1>1, <1>2 DEF ResumeDetach, At
<1>4. PICK M, r : M = Moved(c) /\ r = k'
  OBVIOUS
<1>5. /\ c \notin M /\ k \in KernelState /\ Table(k, M) /\ Threads(k, M)
      /\ Idle \notin M /\ k.stat[Idle] = "ready" /\ Idle \in Thread
      /\ k.stat[c] = "ready"
      /\ remaining_tick \in [Thread -> 1 .. init_tick] /\ owed \in BOOLEAN
      /\ Stale(k, M) = {}
      /\ k.nest = 0 /\ ~owed => Urgent(k, M)
  BY <1>3, <1>4, ControllerFacts
<1>6. Enters(c, "insert", u) /\ "insert" \in PC
  <2>1. "insert" \in PC
    BY DEF PC
  <2> QED
    BY <1>3, <2>1, ControllerGoto
<1>7. M = {} /\ Moved(c)' = {u}
  BY <1>3, <1>4, <1>6 DEF Moved, Moving, Enters
<1>8. /\ k.stat[u] \in {"ready", "suspend"} /\ u # c /\ u # Idle
      /\ k.nest = 0 /\ k.stat[u] = "ready" => k.prio[c] <= k.prio[u]
  BY <1>2, <1>3 DEF SchedInv, Found, Target, Resumes, Plain, Moving
<1>9. /\ Table(r, {u}) /\ Turned(r, k, u, k.stat[u]) /\ Dead(r) = Dead(k) \ {u}
      /\ k.stat[u] = "ready" => Stale(r, {u}) \subseteq Stale(k, M) \union {k.prio[u]}
      /\ k.stat[u] # "ready" => Stale(r, {u}) = Stale(k, M)
  <2>1. u \in Thread \ M /\ {u} = M \union {u} /\ r = Detach(k, u)
    BY <1>3, <1>4, <1>7
  <2> QED
    BY ONLY <1>5, <2>1, DetachTable
<1>10. \A p \in Stale(r, {u}) : p = k.prio[u] /\ k.stat[u] = "ready"
  BY <1>5, <1>8, <1>9
<1>11. r.prio = k.prio /\ r.cur = k.cur /\ r.nest = k.nest
       /\ \A y \in Thread : r.stat[y] = k.stat[y] /\ (r.timer[y] <=> (y # u /\ k.timer[y]))
  BY <1>9 DEF Turned, SameRun
<1>12. Threads(r, {u})
  <2>1. u \notin Dead(k)
    BY <1>5, <1>8 DEF Threads
  <2> QED
    BY <1>5, <1>9, <1>11, <2>1 DEF Threads
<1>13. Urgent(k, M) => Urgent(r, {u})
  BY <1>3, <1>7, <1>8, <1>11 DEF Urgent, Queued
<1>14. \A p \in Stale(r, {u}) : p = r.prio[u] /\ (r.prio[c] <= p \/ r.nest # 0)
  BY <1>8, <1>10, <1>11
<1>15. "insert" \in Moving /\ "insert" \notin Plain
  BY DEF Moving, Plain
<1>16. r.stat[c] = "ready" /\ r.stat[u] \in {"ready", "suspend"} /\ r.stat[Idle] = "ready"
  BY <1>5, <1>8, <1>11
<1>17. /\ r.cur = c /\ r.nest = k.nest /\ {u} = Moved(c)' /\ c \notin {u} /\ Idle \notin {u}
       /\ remaining_tick' \in [Thread -> 1 .. init_tick] /\ owed' \in BOOLEAN
       /\ r.nest = 0 /\ ~owed' => Urgent(r, {u})
       /\ Table(r, {u}) /\ Threads(r, {u}) /\ u # c /\ u # Idle
       /\ k.cur = c /\ pc[c] = "resume" /\ r = k'
  BY <1>3, <1>4, <1>5, <1>7, <1>8, <1>9, <1>11, <1>12, <1>13
<1> QED
  BY ONLY SchedInv(c), c \in Thread, u \in Thread, <1>6, <1>14, <1>15, <1>16, <1>17, SectionKeeps

(* rt_schedule_insert_thread sets the bit again that Detach may have left stale.*)
LEMMA InsertKeeps ==
    ASSUME NEW c \in Thread, SchedInv(c), NEW t \in Thread, ResumeInsert(t)
    PROVE  SchedInv(c)'
<1>1. t = c
  BY DEF ResumeInsert, At, SchedInv, Others, Plain
<1>2. PICK u \in Thread : u = arg[c]
  BY DEF SchedInv, TypeOK
<1>3. /\ k.cur = c /\ pc[c] \in {"insert", "startup"} /\ k' = rt_schedule_insert_thread(k, u)
      /\ owed' = TRUE /\ UNCHANGED remaining_tick
  BY <1>1, <1>2 DEF ResumeInsert, At
<1>4. PICK x \in {"schedule", "run"} : Goto(c, x, c)
  BY <1>1 DEF ResumeInsert
<1>5. PICK M, r : M = Moved(c) /\ r = k'
  OBVIOUS
<1>6. /\ c \notin M /\ k \in KernelState /\ Table(k, M) /\ Threads(k, M)
      /\ Idle \notin M /\ k.stat[Idle] = "ready" /\ Idle \in Thread
      /\ k.stat[c] = "ready"
      /\ remaining_tick \in [Thread -> 1 .. init_tick]
      /\ pc[c] # "insert" => Stale(k, M) = {}
  BY <1>3, <1>5, ControllerFacts
<1>7. Enters(c, x, c) /\ x \in PC
  <2>1. x \in PC
    BY DEF PC
  <2> QED
    BY <1>4, <2>1, ControllerGoto
<1>8. M = {u} /\ Moved(c)' = {}
  BY <1>2, <1>3, <1>5, <1>7 DEF Moved, Moving, Enters
<1>9. \A p \in Stale(k, M) : p = k.prio[u]
  BY <1>2, <1>5 DEF SchedInv, Resumes
<1>10. /\ Table(r, {}) /\ Readied(r, k, u) /\ Stale(r, {}) \subseteq Stale(k, M) \ {k.prio[u]}
  <2>1. u \in M /\ M \subseteq Thread /\ {} = M \ {u} /\ r = rt_schedule_insert_thread(k, u)
    BY <1>3, <1>5, <1>8
  <2> QED
    BY ONLY <1>6, <2>1, InsertTable
<1>11. Stale(r, {}) = {}
  BY <1>9, <1>10
<1>12. /\ r.prio = k.prio /\ r.cur = k.cur /\ r.nest = k.nest /\ r.timer = k.timer /\ r.wait = k.wait
       /\ \A y \in Thread : r.stat[y] = IF y = u THEN "ready" ELSE k.stat[y]
  BY <1>6, <1>10 DEF Readied, KernelState
<1>13. Threads(r, {})
  <2>1. k.stat[u] # "close"
    BY <1>2, <1>3 DEF SchedInv, Found, Moving
  <2>2. Dead(r) = Dead(k)
    BY <1>12 DEF Dead
  <2> QED
    BY <1>6, <1>8, <1>12, <2>1, <2>2 DEF Threads
<1>14. x \notin Moving /\ x \in Plain /\ x \notin {"sleep", "suspend", "resume"}
  BY DEF Moving, Plain
<1>15. r.stat[c] = "ready" /\ r.stat[Idle] = "ready"
  BY <1>6, <1>12
<1> QED
  BY <1>3, <1>5, <1>6, <1>7, <1>8, <1>10, <1>11, <1>12, <1>13, <1>14, <1>15, SectionKeeps

(* rt_thread_startup up to the first section of its rt_thread_resume.         *)
LEMMA StartupKeeps ==
    ASSUME NEW c \in Thread, SchedInv(c), Controller = {c}, NEW t \in Thread, NEW u \in Thread,
           rt_thread_startup(t, u)
    PROVE  SchedInv(c)'
<1>0. PICK s : s = [k EXCEPT !.prio[u] = init_priority[u], !.stat[u] = "suspend"]
  OBVIOUS
<1>1. PICK M, r : M = Moved(c) /\ r = k'
  OBVIOUS
<1>2. /\ k.cur = c /\ pc[c] = "run" /\ k.stat[u] = "init" /\ Goto(c, "startup", u)
      /\ r = Detach(s, u) /\ UNCHANGED <<remaining_tick, owed>>
  BY <1>0, <1>1 DEF rt_thread_startup, At
<1>3. /\ c \notin M /\ k \in KernelState /\ Table(k, M) /\ Threads(k, M)
      /\ Idle \notin M /\ k.stat[Idle] = "ready" /\ Idle \in Thread
      /\ k.stat[c] = "ready"
      /\ remaining_tick \in [Thread -> 1 .. init_tick] /\ owed \in BOOLEAN
      /\ Stale(k, M) = {}
      /\ k.nest = 0 /\ ~owed => Urgent(k, M)
  BY <1>1, <1>2, ControllerFacts
<1>4. Enters(c, "startup", u) /\ "startup" \in PC
  <2>1. "startup" \in PC
    BY DEF PC
  <2> QED
    BY <1>2, <2>1, ControllerGoto
<1>5. M = {} /\ Moved(c)' = {u} /\ u # c /\ u # Idle
  BY <1>1, <1>2, <1>3, <1>4 DEF Moved, Moving, Enters
<1>6. /\ s.stat = [k.stat EXCEPT ![u] = "suspend"] /\ s.prio = [k.prio EXCEPT ![u] = init_priority[u]]
      /\ s.ready = k.ready /\ s.wait = k.wait /\ s.group = k.group /\ s.timer = k.timer
      /\ s.cur = k.cur /\ s.nest = k.nest /\ s = [k EXCEPT !.prio = s.prio, !.stat = s.stat]
  BY <1>0, <1>3 DEF KernelState
<1>7. s.stat \in [Thread -> Stat] /\ s.prio \in [Thread -> Priority]
  <2>1. init_priority[u] \in Priority /\ "suspend" \in Stat
    BY KernelAssumption DEF Stat
  <2>2. k.stat \in [Thread -> Stat] /\ k.prio \in [Thread -> Priority]
    BY <1>3 DEF KernelState
  <2> QED
    BY ONLY <1>6, <2>1, <2>2
<1>8. s \in KernelState
  BY ONLY <1>3, <1>6, <1>7 DEF KernelState
<1>9. /\ s.stat[u] = "suspend"
      /\ \A y \in Thread \ {u} : s.stat[y] = k.stat[y] /\ s.prio[y] = k.prio[y]
  BY <1>3, <1>6 DEF KernelState
<1>10. Table(s, M) /\ Stale(s, M) = {}
  <2>1. k.stat[u] # "ready" /\ s.stat[u] # "ready" /\ u \in Thread \ M
    BY <1>2, <1>5, <1>9
  <2>2. s.ready = k.ready /\ s.wait = k.wait /\ s.group = k.group /\ Table(k, M)
    BY <1>3, <1>6
  <2>3. Table(s, M) /\ Stale(s, M) = Stale(k, M)
    BY ONLY <1>8, <1>9, <2>1, <2>2, EditTable
  <2> QED
    BY <1>3, <2>3
<1>11. /\ Table(r, {u}) /\ Turned(r, s, u, s.stat[u]) /\ Dead(r) = Dead(s) \ {u}
       /\ s.stat[u] # "ready" => Stale(r, {u}) = Stale(s, M)
  <2>1. u \in Thread \ M /\ {u} = M \union {u}
    BY <1>5
  <2> QED
    BY ONLY <1>2, <1>10, <2>1, DetachTable
<1>12. /\ r.cur = c /\ r.nest = k.nest /\ r.stat[u] = "suspend" /\ ~r.timer[u]
       /\ \A y \in Thread \ {u} : /\ r.stat[y] = k.stat[y] /\ r.prio[y] = k.prio[y]
                                  /\ r.timer[y] <=> k.timer[y]
  BY <1>2, <1>6, <1>9, <1>11 DEF Turned, SameRun
<1>13. Threads(r, {u})
  <2>1. u \notin Dead(k)
    BY <1>2, <1>3 DEF Threads
  <2>2. Dead(r) = Dead(k)
    BY <1>6, <1>11, <2>1 DEF Dead
  <2> QED
    BY <1>3, <1>12, <2>1, <2>2 DEF Threads
<1>14. Urgent(k, M) => Urgent(r, {u})
  BY <1>2, <1>3, <1>5, <1>12 DEF Urgent, Queued
<1>15. /\ {u} = Moved(c)' /\ c \notin {u} /\ Idle \notin {u} /\ Stale(r, {u}) = {}
       /\ remaining_tick' \in [Thread -> 1 .. init_tick] /\ owed' \in BOOLEAN
       /\ r.nest = 0 /\ ~owed' => Urgent(r, {u})
       /\ r.stat[c] = "ready" /\ r.stat[Idle] = "ready"
       /\ Table(r, {u}) /\ u # c /\ u # Idle /\ k.cur = c /\ pc[c] = "run" /\ r = k'
  BY <1>1, <1>2, <1>3, <1>5, <1>9, <1>10, <1>11, <1>12, <1>14
<1>16. "startup" \in Moving /\ "startup" \notin Plain
  BY DEF Moving, Plain
<1> QED
  BY ONLY SchedInv(c), c \in Thread, u \in Thread, <1>4, <1>12, <1>13, <1>15, <1>16, SectionKeeps

(* rt_thread_suspend after its check.                                         *)
LEMMA SuspendKeeps ==
    ASSUME NEW c \in Thread, SchedInv(c), NEW t \in Thread, SuspendDo(t)
    PROVE  SchedInv(c)'
<1>1. t = c
  BY DEF SuspendDo, At, SchedInv, Others, Plain
<1>2. PICK u \in Thread : u = arg[c]
  BY DEF SchedInv, TypeOK
<1>3. PICK M, r : M = Moved(c) /\ r = k'
  OBVIOUS
<1>4. /\ k.cur = c /\ pc[c] = "suspend" /\ r = Suspend(k, u) /\ UNCHANGED <<remaining_tick, owed>>
  BY <1>1, <1>2, <1>3 DEF SuspendDo, At
<1>5. PICK x \in {"schedule", "run"} : Goto(c, x, c) /\ (x = "schedule" <=> u = c)
  BY <1>1, <1>2 DEF SuspendDo
<1>6. /\ c \notin M /\ k \in KernelState /\ Table(k, M) /\ Threads(k, M)
      /\ Idle \notin M /\ k.stat[Idle] = "ready" /\ Idle \in Thread
      /\ k.stat[c] = "ready"
      /\ remaining_tick \in [Thread -> 1 .. init_tick] /\ owed \in BOOLEAN
      /\ Stale(k, M) = {}
      /\ k.nest = 0 /\ ~owed => Urgent(k, M)
  BY <1>3, <1>4, ControllerFacts
<1>7. Enters(c, x, c) /\ x \in PC
  <2>1. x \in PC
    BY DEF PC
  <2> QED
    BY <1>5, <2>1, ControllerGoto
<1>8. x \notin Moving /\ x \in Plain /\ x \notin {"sleep", "suspend", "resume"}
  BY DEF Moving, Plain
<1>9. M = {} /\ Moved(c)' = {}
  BY <1>3, <1>4, <1>7, <1>8 DEF Moved, Moving, Enters
<1>10. k.stat[u] \in {"ready", "suspend"} /\ u # Idle /\ (u = c => k.nest = 0)
  BY <1>2, <1>4 DEF SchedInv, Found, Target, Runner, Plain
<1>11. /\ Table(r, M) /\ Turned(r, k, u, "suspend") /\ Dead(r) = Dead(k) \ {u}
       /\ Stale(r, M) \subseteq Stale(k, M)
  <2>1. u \in Thread \ M
    BY <1>9
  <2> QED
    BY ONLY <1>4, <1>6, <2>1, SuspendTable
<1>12. /\ r.prio = k.prio /\ r.cur = c /\ r.nest = k.nest
       /\ \A y \in Thread : /\ r.stat[y] = IF y = u THEN "suspend" ELSE k.stat[y]
                            /\ r.timer[y] <=> (y # u /\ k.timer[y])
  BY <1>4, <1>11 DEF Turned, SameRun
<1>13. Threads(r, M)
  <2>1. u \notin Dead(k)
    BY <1>6, <1>10 DEF Threads
  <2> QED
    BY <1>6, <1>11, <1>12, <2>1 DEF Threads
<1>14. u # c /\ Urgent(k, M) => Urgent(r, M)
  BY <1>4, <1>12 DEF Urgent, Queued
<1>15. /\ M = Moved(c)' /\ Stale(r, M) = {}
       /\ remaining_tick' \in [Thread -> 1 .. init_tick] /\ owed' \in BOOLEAN
       /\ r.nest = 0 /\ ~owed' /\ x # "schedule" => Urgent(r, M)
       /\ r.stat[c] = "ready" \/ (r.stat[c] = "suspend" /\ x = "schedule" /\ r.nest = 0)
       /\ r.stat[Idle] = "ready"
  BY <1>4, <1>5, <1>6, <1>9, <1>10, <1>11, <1>12, <1>14
<1> QED
  BY <1>3, <1>4, <1>6, <1>7, <1>8, <1>11, <1>12, <1>13, <1>15, SectionKeeps

(* The first section of rt_thread_delete and rt_thread_detach.                *)
LEMMA DeleteKeeps ==
    ASSUME NEW c \in Thread, SchedInv(c), Controller = {c}, ~DeleteTimed,
           NEW t \in Thread, NEW u \in Thread, rt_thread_delete(t, u)
    PROVE  SchedInv(c)'
<1>1. PICK M, r : M = Moved(c) /\ r = k'
  OBVIOUS
<1>2. /\ k.cur = c /\ pc[c] = "run" /\ u # c /\ u # Idle /\ k.stat[u] \notin {"none", "close"}
      /\ ~k.timer[u] /\ Goto(c, "delete", u) /\ UNCHANGED <<remaining_tick, owed>>
      /\ r = IF k.stat[u] = "init" THEN k ELSE rt_schedule_remove_thread(k, u)
  BY <1>1 DEF rt_thread_delete, At
<1>3. /\ c \notin M /\ k \in KernelState /\ Table(k, M) /\ Threads(k, M)
      /\ Idle \notin M /\ k.stat[Idle] = "ready" /\ Idle \in Thread
      /\ k.stat[c] = "ready"
      /\ remaining_tick \in [Thread -> 1 .. init_tick] /\ owed \in BOOLEAN
      /\ Stale(k, M) = {}
      /\ k.nest = 0 /\ ~owed => Urgent(k, M)
  BY <1>1, <1>2, ControllerFacts
<1>4. Enters(c, "delete", u) /\ "delete" \in PC
  <2>1. "delete" \in PC
    BY DEF PC
  <2> QED
    BY <1>2, <2>1, ControllerGoto
<1>5. "delete" \in Moving /\ "delete" \notin Plain
  BY DEF Moving, Plain
<1>6. M = {} /\ Moved(c)' = {u}
  BY <1>1, <1>2, <1>4, <1>5 DEF Moved, Moving, Enters
<1>7. k.stat[u] \in {"init", "ready", "suspend"} /\ u \notin Dead(k)
  <2>1. k.stat[u] \in Stat
    BY <1>3 DEF KernelState
  <2> QED
    BY <1>2, <1>3, <2>1 DEF Stat, Threads
<1>8. Table(r, {u}) /\ SameButLists(r, k) /\ Dead(r) = Dead(k) /\ Stale(r, {u}) = {}
  <2>1. CASE k.stat[u] = "init"
    <3>1. \A l \in WaitList : u \notin ToSet(k.wait[l])
      BY <1>7, SchedAssumption DEF Dead
    <3>2. Links(k, {u}) /\ Bits(k, {u}) = Bits(k, M)
      <4>1. Links(k, M) /\ {u} = M \union {u} /\ k.stat[u] # "ready"
        BY <1>3, <1>6, <2>1 DEF Table
      <4> QED
        BY <3>1, <4>1, LinksLeave
    <3>3. r = k
      BY <1>2, <2>1
    <3> QED
      BY <1>3, <3>2, <3>3 DEF Table, Stale, SameButLists
  <2>2. CASE k.stat[u] # "init"
    <3>1. u \in Thread \ M /\ {u} = M \union {u} /\ r = rt_schedule_remove_thread(k, u)
      BY <1>2, <1>6, <2>2
    <3>2. /\ Table(r, {u}) /\ SameButLists(r, k) /\ WaitDrops(r, k, u)
          /\ Stale(r, {u}) \subseteq Stale(k, M)
      BY ONLY <1>3, <3>1, RemoveTable
    <3>3. Dead(r) = Dead(k) \ {u}
      BY <3>2, SchedAssumption DEF WaitDrops, Dead
    <3> QED
      BY <1>3, <1>7, <3>2, <3>3
  <2> QED
    BY <2>1, <2>2
<1>9. r.stat = k.stat /\ r.prio = k.prio /\ r.cur = c /\ r.nest = k.nest /\ r.timer = k.timer
  BY <1>2, <1>8 DEF SameButLists
<1>10. Threads(r, {u})
  BY <1>2, <1>3, <1>8, <1>9 DEF Threads
<1>11. Urgent(k, M) => Urgent(r, {u})
  BY <1>2, <1>6, <1>9 DEF Urgent, Queued
<1>12. /\ {u} = Moved(c)' /\ c \notin {u} /\ Idle \notin {u}
       /\ remaining_tick' \in [Thread -> 1 .. init_tick] /\ owed' \in BOOLEAN
       /\ r.nest = 0 /\ ~owed' => Urgent(r, {u})
       /\ r.stat[c] = "ready" /\ r.stat[Idle] = "ready" /\ r.cur = c /\ r.nest = k.nest
       /\ r.stat[u] \in {"init", "ready", "suspend"}
       /\ Table(r, {u}) /\ Stale(r, {u}) = {} /\ u # c /\ u # Idle
       /\ k.cur = c /\ pc[c] = "run" /\ r = k'
  BY <1>1, <1>2, <1>3, <1>6, <1>7, <1>8, <1>9, <1>11
<1> QED
  BY ONLY SchedInv(c), c \in Thread, u \in Thread, <1>4, <1>5, <1>10, <1>12, SectionKeeps

(* rt_thread_init of a thread that was freed, or closed and static.           *)
LEMMA InitKeeps ==
    ASSUME NEW c \in Thread, SchedInv(c), Controller = {c}, NEW t \in Thread, NEW u \in Thread,
           rt_thread_init(t, u)
    PROVE  SchedInv(c)'
<1>1. PICK M, r : M = Moved(c) /\ r = k'
  OBVIOUS
<1>2. /\ k.cur = c /\ pc[c] = "run" /\ UNCHANGED <<arg, owed>>
      /\ k.stat[u] = "none" \/ (u \in Static /\ k.stat[u] = "close")
      /\ r = [k EXCEPT !.stat[u] = "init", !.prio[u] = init_priority[u],
                       !.err[u] = "EOK", !.timer[u] = FALSE]
      /\ remaining_tick' = [remaining_tick EXCEPT ![u] = init_tick]
      /\ pc' = [pc EXCEPT ![u] = "run"]
  BY <1>1 DEF rt_thread_init, At
<1>3. /\ c \notin M /\ k \in KernelState /\ Table(k, M) /\ Threads(k, M)
      /\ Idle \notin M /\ k.stat[Idle] = "ready" /\ Idle \in Thread
      /\ k.stat[c] = "ready"
      /\ remaining_tick \in [Thread -> 1 .. init_tick] /\ owed \in BOOLEAN
      /\ pc \in [Thread -> PC] /\ arg \in [Thread -> Thread]
      /\ Stale(k, M) = {}
      /\ k.nest = 0 /\ ~owed => Urgent(k, M)
  BY <1>1, <1>2, ControllerFacts
<1>4. u # c /\ u # Idle /\ k.stat[u] # "ready" /\ u \notin Dead(k)
  BY <1>2, <1>3 DEF Threads
<1>5. PICK v \in Thread : v = arg[c]
  BY <1>3
<1>6. "run" \in PC /\ "run" \in Plain /\ "run" \notin Moving
  BY DEF PC, Plain, Moving
<1>7. Enters(c, "run", v)
  <2>1. pc' \in [Thread -> PC] /\ \A y \in Thread : pc'[y] = IF y = u THEN "run" ELSE pc[y]
    BY <1>2, <1>3, <1>6
  <2>2. Others(c)'
    BY <1>2, <1>6, <2>1 DEF SchedInv, Others
  <2> QED
    BY <1>2, <1>3, <1>4, <1>5, <2>1, <2>2 DEF Enters
<1>8. M = {} /\ Moved(c)' = {}
  BY <1>1, <1>2, <1>6, <1>7 DEF Moved, Enters
<1>9. /\ r.stat = [k.stat EXCEPT ![u] = "init"] /\ r.prio = [k.prio EXCEPT ![u] = init_priority[u]]
      /\ r.err = [k.err EXCEPT ![u] = "EOK"] /\ r.timer = [k.timer EXCEPT ![u] = FALSE]
      /\ r.ready = k.ready /\ r.wait = k.wait /\ r.group = k.group
      /\ r.cur = k.cur /\ r.nest = k.nest
      /\ r = [k EXCEPT !.stat = r.stat, !.prio = r.prio, !.err = r.err, !.timer = r.timer]
  BY <1>2, <1>3 DEF KernelState
<1>10. /\ r.stat \in [Thread -> Stat] /\ r.prio \in [Thread -> Priority]
       /\ r.err \in [Thread -> Error] /\ r.timer \in [Thread -> BOOLEAN]
  <2>1. init_priority[u] \in Priority /\ "init" \in Stat /\ "EOK" \in Error
    BY KernelAssumption DEF Stat, Error
  <2>2. /\ k.stat \in [Thread -> Stat] /\ k.prio \in [Thread -> Priority]
        /\ k.err \in [Thread -> Error] /\ k.timer \in [Thread -> BOOLEAN]
    BY <1>3 DEF KernelState
  <2> QED
    BY ONLY <1>9, <2>1, <2>2
<1>11. r \in KernelState
  BY ONLY <1>3, <1>9, <1>10 DEF KernelState
<1>12. /\ \A y \in Thread : r.stat[y] = IF y = u THEN "init" ELSE k.stat[y]
       /\ \A y \in Thread \ {u} : r.prio[y] = k.prio[y]
       /\ \A y \in Thread : r.timer[y] <=> (y # u /\ k.timer[y])
  <2>1. k.timer \in [Thread -> BOOLEAN] /\ DOMAIN k.stat = Thread /\ DOMAIN k.prio = Thread
    BY <1>3 DEF KernelState
  <2>2. /\ \A y \in Thread : r.stat[y] = IF y = u THEN "init" ELSE k.stat[y]
        /\ \A y \in Thread : r.timer[y] <=> (y # u /\ k.timer[y])
    BY ONLY <1>9, <2>1, u \in Thread, PointUpdate
  <2> QED
    BY <1>9, <2>1, <2>2
<1>13. Table(r, M) /\ Stale(r, M) = {}
  <2>1. /\ k.stat[u] # "ready" /\ r.stat[u] # "ready" /\ u \in Thread \ M /\ Table(k, M)
        /\ \A y \in Thread \ {u} : r.stat[y] = k.stat[y] /\ r.prio[y] = k.prio[y]
        /\ r.ready = k.ready /\ r.wait = k.wait /\ r.group = k.group
    BY <1>3, <1>4, <1>8, <1>9, <1>12
  <2>2. Table(r, M) /\ Stale(r, M) = Stale(k, M)
    BY ONLY <1>11, <2>1, EditTable
  <2> QED
    BY <1>3, <2>2
<1>14. Threads(r, M)
  <2>1. Dead(r) = Dead(k)
    BY <1>9 DEF Dead
  <2> QED
    BY <1>3, <1>4, <1>12, <2>1 DEF Threads
<1>15. Urgent(k, M) => Urgent(r, M)
  BY <1>2, <1>4, <1>9, <1>12 DEF Urgent, Queued
<1>16. remaining_tick' \in [Thread -> 1 .. init_tick]
  BY <1>2, <1>3, SchedAssumption
<1>17. /\ M = Moved(c)' /\ r = k' /\ k.cur = c /\ pc[c] = "run" /\ owed' \in BOOLEAN
       /\ r.cur = c /\ r.nest = k.nest /\ r.stat[c] = "ready" /\ r.stat[Idle] = "ready"
       /\ r.nest = 0 /\ ~owed' => Urgent(r, M)
       /\ c \notin M /\ Idle \notin M
  BY <1>1, <1>2, <1>3, <1>4, <1>8, <1>9, <1>12, <1>15
<1> QED
  BY ONLY SchedInv(c), c \in Thread, v \in Thread, <1>6, <1>7, <1>13, <1>14, <1>16, <1>17,
          SectionKeeps

(* A new priority: a READY thread moves to the list of that priority.           *)
LEMMA PriorityTable ==
    ASSUME NEW s, NEW S, S \subseteq Thread, NEW x \in Thread \ S, Table(s, S),
           NEW p \in Priority, NEW r, r = ChangePriority(s, x, p)
    PROVE  /\ Table(r, S) /\ Stale(r, S) \subseteq Stale(s, S)
           /\ r.stat = s.stat /\ r.timer = s.timer /\ r.cur = s.cur /\ r.nest = s.nest
           /\ Dead(r) = Dead(s)
<1>0. s \in KernelState
  BY DEF Table, Links
<1>1. CASE s.stat[x] = "ready"
  <2>1. PICK u, Q, w : /\ u = rt_schedule_remove_thread(s, x) /\ Q = S \union {x}
                       /\ w = [u EXCEPT !.prio[x] = p]
    OBVIOUS
  <2>2. /\ Table(u, Q) /\ SameButLists(u, s) /\ WaitDrops(u, s, x)
        /\ Stale(u, Q) \subseteq Stale(s, S)
    BY <2>1, RemoveTable
  <2>3. u \in KernelState /\ Links(u, Q)
    BY <2>2 DEF Table, Links
  <2>4. /\ w.prio = [u.prio EXCEPT ![x] = p] /\ w.stat = u.stat /\ w.timer = u.timer
        /\ w.ready = u.ready /\ w.wait = u.wait /\ w.group = u.group
        /\ w.cur = u.cur /\ w.nest = u.nest /\ w = [u EXCEPT !.prio = w.prio]
    BY <2>1, <2>3 DEF KernelState
  <2>5. w.prio \in [Thread -> Priority]
    BY <2>3, <2>4 DEF KernelState
  <2>6. w \in KernelState
    BY ONLY <2>3, <2>4, <2>5 DEF KernelState
  <2>7. Links(w, Q) /\ Bits(w, Q) = Bits(u, Q)
    <3>1. \A y \in Thread \ Q : w.stat[y] = u.stat[y] /\ w.prio[y] = u.prio[y]
      BY <2>1, <2>3, <2>4 DEF KernelState
    <3> QED
      BY ONLY <2>3, <2>4, <2>6, <3>1, LinksFrame
  <2>8. Table(w, Q) /\ Stale(w, Q) = Stale(u, Q)
    BY <2>2, <2>4, <2>7 DEF Table, Stale
  <2>9. /\ x \in Q /\ Q \subseteq Thread /\ S = Q \ {x} /\ r = rt_schedule_insert_thread(w, x)
    BY <1>1, <2>1 DEF ChangePriority
  <2>10. /\ Table(r, S) /\ Readied(r, w, x)
         /\ Stale(r, S) \subseteq Stale(w, Q) \ {w.prio[x]}
    BY ONLY <2>8, <2>9, InsertTable
  <2>11. x \notin Dead(s)
    BY <1>1, SchedAssumption DEF Dead, Table, Links, LinkedByStat
  <2>12. Dead(r) = Dead(s)
    <3>1. Dead(u) = Dead(s) \ {x}
      BY <2>2, SchedAssumption DEF WaitDrops, Dead
    <3>2. Dead(r) = Dead(u)
      BY <2>4, <2>10 DEF Readied, Dead
    <3> QED
      BY <2>11, <3>1, <3>2
  <2>13. r.stat = s.stat
    BY <1>0, <1>1, <2>2, <2>4, <2>10 DEF Readied, SameButLists, KernelState
  <2> QED
    BY <2>2, <2>4, <2>8, <2>10, <2>12, <2>13 DEF Readied, SameButLists
<1>2. CASE s.stat[x] # "ready"
  <2>1. r = [s EXCEPT !.prio[x] = p]
    BY <1>2 DEF ChangePriority
  <2>2. /\ r.prio = [s.prio EXCEPT ![x] = p] /\ r.stat = s.stat /\ r.timer = s.timer
        /\ r.ready = s.ready /\ r.wait = s.wait /\ r.group = s.group
        /\ r.cur = s.cur /\ r.nest = s.nest /\ r = [s EXCEPT !.prio = r.prio]
    BY <1>0, <2>1 DEF KernelState
  <2>3. r.prio \in [Thread -> Priority]
    BY <1>0, <2>2 DEF KernelState
  <2>4. r \in KernelState
    BY ONLY <1>0, <2>2, <2>3 DEF KernelState
  <2>5. \A y \in Thread \ {x} : r.stat[y] = s.stat[y] /\ r.prio[y] = s.prio[y]
    BY <1>0, <2>2 DEF KernelState
  <2>6. Table(r, S) /\ Stale(r, S) = Stale(s, S)
    <3>1. /\ r.stat[x] # "ready" /\ s.stat[x] # "ready" /\ x \in Thread \ S /\ Table(s, S)
          /\ r.ready = s.ready /\ r.wait = s.wait /\ r.group = s.group
      BY <1>2, <2>2
    <3> QED
      BY ONLY <2>4, <2>5, <3>1, EditTable
  <2> QED
    BY <2>2, <2>6 DEF Dead
<1> QED
  BY <1>1, <1>2

(* rt_thread_control with RT_THREAD_CTRL_CHANGE_PRIORITY.                     *)
LEMMA ControlKeeps ==
    ASSUME NEW c \in Thread, SchedInv(c), Controller = {c}, NEW t \in Thread, NEW u \in Thread,
           NEW p \in Priority, rt_thread_control(t, u, p)
    PROVE  SchedInv(c)'
<1>1. PICK M, r : M = Moved(c) /\ r = k'
  OBVIOUS
<1>2. /\ k.cur = c /\ pc[c] = "run" /\ r = ChangePriority(k, u, p) /\ owed' = TRUE
      /\ UNCHANGED <<remaining_tick, pc, arg>>
  BY <1>1 DEF rt_thread_control, At
<1>3. /\ c \notin M /\ k \in KernelState /\ Table(k, M) /\ Threads(k, M)
      /\ Idle \notin M /\ k.stat[Idle] = "ready" /\ k.stat[c] = "ready"
      /\ remaining_tick \in [Thread -> 1 .. init_tick]
      /\ pc \in [Thread -> PC] /\ arg \in [Thread -> Thread]
      /\ Stale(k, M) = {}
  BY <1>1, <1>2, ControllerFacts
<1>4. PICK v \in Thread : v = arg[c]
  BY <1>3
<1>5. "run" \in PC /\ "run" \in Plain /\ "run" \notin Moving
  BY DEF PC, Plain, Moving
<1>6. Enters(c, "run", v)
  BY <1>2, <1>3, <1>4 DEF Enters, SchedInv, Others
<1>7. M = {} /\ Moved(c)' = {}
  BY <1>1, <1>2, <1>5, <1>6 DEF Moved, Enters
<1>8. /\ Table(r, M) /\ Stale(r, M) \subseteq Stale(k, M)
      /\ r.stat = k.stat /\ r.timer = k.timer /\ r.cur = k.cur /\ r.nest = k.nest
      /\ Dead(r) = Dead(k)
  <2>1. M \subseteq Thread /\ u \in Thread \ M
    BY <1>7
  <2> QED
    BY ONLY <1>2, <1>3, <2>1, p \in Priority, PriorityTable
<1>9. Threads(r, M)
  BY <1>3, <1>8 DEF Threads
<1>10. /\ M = Moved(c)' /\ r = k' /\ k.cur = c /\ pc[c] = "run" /\ owed' = TRUE
       /\ remaining_tick' \in [Thread -> 1 .. init_tick] /\ Stale(r, M) = {}
       /\ r.cur = c /\ r.nest = k.nest /\ r.stat[c] = "ready" /\ r.stat[Idle] = "ready"
       /\ c \notin M /\ Idle \notin M
  BY <1>1, <1>2, <1>3, <1>7, <1>8
<1> QED
  BY ONLY SchedInv(c), c \in Thread, v \in Thread, <1>5, <1>6, <1>8, <1>9, <1>10, SectionKeeps

(* rt_thread_delete stops the thread timer.                                   *)
LEMMA DeleteTimerKeeps ==
    ASSUME NEW c \in Thread, SchedInv(c), NEW t \in Thread, DeleteTimer(t)
    PROVE  SchedInv(c)'
<1>1. t = c
  BY DEF DeleteTimer, At, SchedInv, Others, Plain
<1>2. PICK u \in Thread : u = arg[c]
  BY DEF SchedInv, TypeOK
<1>3. PICK M, r : M = Moved(c) /\ r = k'
  OBVIOUS
<1>4. /\ k.cur = c /\ pc[c] = "delete" /\ r = [k EXCEPT !.timer[u] = FALSE]
      /\ Goto(c, "close", u) /\ UNCHANGED <<remaining_tick, owed>>
  BY <1>1, <1>2, <1>3 DEF DeleteTimer, At
<1>5. /\ c \notin M /\ k \in KernelState /\ Table(k, M) /\ Threads(k, M)
      /\ Idle \notin M /\ k.stat[Idle] = "ready" /\ k.stat[c] = "ready"
      /\ remaining_tick \in [Thread -> 1 .. init_tick] /\ owed \in BOOLEAN
      /\ Stale(k, M) = {}
      /\ k.nest = 0 /\ ~owed => Urgent(k, M)
  BY <1>3, <1>4, ControllerFacts
<1>6. "close" \in PC /\ "close" \in Moving /\ "close" \notin Plain
  BY DEF PC, Moving, Plain
<1>7. Enters(c, "close", u)
  BY <1>4, <1>6, ControllerGoto
<1>8. M = {u} /\ Moved(c)' = {u}
  BY <1>2, <1>3, <1>4, <1>6, <1>7 DEF Moved, Moving, Enters
<1>9. k.stat[u] \in {"init", "ready", "suspend"} /\ u # c /\ u # Idle
  BY <1>2, <1>4 DEF SchedInv, Found, Target, Plain, Moving
<1>10. /\ r.timer = [k.timer EXCEPT ![u] = FALSE] /\ r.stat = k.stat /\ r.prio = k.prio
       /\ r.ready = k.ready /\ r.wait = k.wait /\ r.group = k.group
       /\ r.cur = k.cur /\ r.nest = k.nest /\ r = [k EXCEPT !.timer = r.timer]
  BY <1>4, <1>5 DEF KernelState
<1>11. /\ r.timer \in [Thread -> BOOLEAN]
       /\ \A y \in Thread : r.timer[y] <=> (y # u /\ k.timer[y])
  <2>1. k.timer \in [Thread -> BOOLEAN] /\ DOMAIN k.stat = Thread
        /\ k.stat = [k.stat EXCEPT ![u] = k.stat[u]]
    BY <1>5 DEF KernelState
  <2>2. \A y \in Thread : r.timer[y] <=> (y # u /\ k.timer[y])
    BY ONLY <1>10, <2>1, u \in Thread, PointUpdate
  <2> QED
    BY <1>10, <2>1, <2>2
<1>12. r \in KernelState
  BY ONLY <1>5, <1>10, <1>11 DEF KernelState
<1>13. Table(r, M) /\ Stale(r, M) = Stale(k, M)
  BY <1>5, <1>10, <1>12, PlainTable
<1>14. Threads(r, M)
  BY <1>5, <1>10, <1>11 DEF Threads, Dead
<1>15. Urgent(k, M) => Urgent(r, M)
  BY <1>10 DEF Urgent, Queued
<1>16. /\ M = Moved(c)' /\ r = k' /\ k.cur = c /\ pc[c] = "delete" /\ owed' \in BOOLEAN
       /\ remaining_tick' \in [Thread -> 1 .. init_tick] /\ Stale(r, M) = {}
       /\ r.cur = c /\ r.nest = k.nest /\ r.stat[c] = "ready" /\ r.stat[Idle] = "ready"
       /\ r.stat[u] \in {"init", "ready", "suspend"} /\ u # c /\ u # Idle
       /\ r.nest = 0 /\ ~owed' => Urgent(r, M)
       /\ c \notin M /\ Idle \notin M
  BY <1>3, <1>4, <1>5, <1>8, <1>9, <1>10, <1>13, <1>15
<1> QED
  BY ONLY SchedInv(c), c \in Thread, u \in Thread, <1>6, <1>7, <1>13, <1>14, <1>16, SectionKeeps

(* The last section of rt_thread_delete.                                      *)
LEMMA DeleteCloseKeeps ==
    ASSUME NEW c \in Thread, SchedInv(c), NEW t \in Thread, DeleteClose(t)
    PROVE  SchedInv(c)'
<1>1. t = c
  BY DEF DeleteClose, At, SchedInv, Others, Plain
<1>2. PICK u \in Thread : u = arg[c]
  BY DEF SchedInv, TypeOK
<1>3. PICK M, r : M = Moved(c) /\ r = k'
  OBVIOUS
<1>4. /\ k.cur = c /\ pc[c] = "close" /\ Goto(c, "run", c) /\ UNCHANGED <<remaining_tick, owed>>
      /\ r = [k EXCEPT !.stat[u] = "close",
                       !.wait["rt_thread_defunct"] = IF u \in Static THEN @ ELSE <<u>> \o @]
  BY <1>1, <1>2, <1>3 DEF DeleteClose, At
<1>5. /\ c \notin M /\ k \in KernelState /\ Table(k, M) /\ Threads(k, M)
      /\ Idle \notin M /\ k.stat[Idle] = "ready" /\ k.stat[c] = "ready" /\ Idle \in Thread
      /\ remaining_tick \in [Thread -> 1 .. init_tick] /\ owed \in BOOLEAN
      /\ Stale(k, M) = {}
      /\ k.nest = 0 /\ ~owed => Urgent(k, M)
  BY <1>3, <1>4, ControllerFacts
<1>6. "run" \in PC /\ "run" \notin Moving /\ "run" \in Plain
  BY DEF PC, Moving, Plain
<1>7. Enters(c, "run", c)
  BY <1>4, <1>6, ControllerGoto
<1>8. M = {u} /\ Moved(c)' = {}
  BY <1>2, <1>3, <1>4, <1>6, <1>7 DEF Moved, Moving, Enters
<1>9. u # c /\ u # Idle /\ ~k.timer[u]
  <2>1. ~k.timer[u]
    BY <1>5, <1>8 DEF Threads
  <2> QED
    BY <1>2, <1>4, <2>1 DEF SchedInv, Target, Plain, Moving
<1>10. r = Buried(Closed(k, u), u)
  <2>1. k.timer = [k.timer EXCEPT ![u] = FALSE]
    BY <1>5, <1>9, Zenon DEF KernelState
  <2>2. Closed(k, u) = [k EXCEPT !.stat[u] = "close"]
    BY <1>5, <2>1 DEF Closed, KernelState
  <2> QED
    BY <1>4, <1>5, <2>2 DEF Buried, KernelState
<1>11. /\ Table(r, {}) /\ Turned(r, k, u, "close") /\ Stale(r, {}) = Stale(k, M)
       /\ Dead(r) = IF u \in Static THEN Dead(k) ELSE Dead(k) \union {u}
  <2>1. u \in M /\ M \subseteq Thread /\ {} = M \ {u} /\ Table(k, M)
    BY <1>5, <1>8
  <2> QED
    BY ONLY <1>10, <2>1, CloseTable
<1>12. /\ r.prio = k.prio /\ r.cur = k.cur /\ r.nest = k.nest
       /\ \A y \in Thread : /\ r.stat[y] = IF y = u THEN "close" ELSE k.stat[y]
                            /\ r.timer[y] <=> (y # u /\ k.timer[y])
  BY <1>11 DEF Turned, SameRun
<1>13. Threads(r, {})
  <2>1. u \notin Dead(k)
    BY <1>5, <1>8, SchedAssumption DEF Dead, Table, Links, Unlinked
  <2> QED
    BY <1>5, <1>11, <1>12, <2>1 DEF Threads
<1>14. Urgent(k, M) => Urgent(r, {})
  BY <1>8, <1>12 DEF Urgent, Queued
<1>15. /\ {} = Moved(c)' /\ r = k' /\ k.cur = c /\ pc[c] = "close" /\ owed' \in BOOLEAN
       /\ remaining_tick' \in [Thread -> 1 .. init_tick] /\ Stale(r, {}) = {}
       /\ r.cur = c /\ r.nest = k.nest /\ r.stat[c] = "ready" /\ r.stat[Idle] = "ready"
       /\ r.nest = 0 /\ ~owed' => Urgent(r, {})
  BY <1>3, <1>4, <1>5, <1>8, <1>9, <1>11, <1>12, <1>14
<1> QED
  BY ONLY SchedInv(c), c \in Thread, <1>6, <1>7, <1>11, <1>13, <1>15, SectionKeeps

-----------------------------------------------------------------------------
(* The invariance proof *)

(* The system starts with the threads in Started queued, the most urgent one     *)
(* running, and nothing in between.                                              *)
LEMMA StartedTable ==
    ASSUME NEW r, r = KernelInit(Started)
    PROVE  /\ Table(r, {}) /\ Stale(r, {}) = {} /\ Urgent(r, {})
           /\ r.stat[Idle] = "ready" /\ r.nest = 0 /\ Dead(r) = {}
           /\ \A t \in Thread : r.stat[t] \in {"ready", "none"} /\ ~r.timer[t]
<1> DEFINE At0(p) == {t \in Started : init_priority[t] = p}
           table == TableOf(Started)
           bits == {p \in Priority : table[p] # <<>>}
<1>0. Started \subseteq Thread /\ Idle \in Started /\ Idle \in Thread
  BY SchedAssumption
<1>1. ASSUME NEW p \in Priority
      PROVE  /\ table[p] \in Seq(Thread) /\ IsInjective(table[p])
             /\ ToSet(table[p]) = At0(p)
  <2>1. IsFiniteSet(At0(p))
    <3>1. At0(p) \subseteq Thread
      BY <1>0
    <3> QED
      BY <3>1, KernelAssumption, FS_Subset
  <2>2. /\ SetToSeq(At0(p)) \in Seq(At0(p)) /\ IsInjective(SetToSeq(At0(p)))
        /\ ToSet(SetToSeq(At0(p))) = At0(p)
    BY <2>1, SetToSeqLists
  <2>3. SetToSeq(At0(p)) \in Seq(Thread)
    <3>1. At0(p) \subseteq Thread
      BY <1>0
    <3> HIDE DEF At0
    <3> QED
      BY <2>2, <3>1
  <2>4. table[p] = SetToSeq(At0(p))
    BY DEF TableOf
  <2> QED
    BY <2>2, <2>3, <2>4
<1>2. table \in [Priority -> Seq(Thread)]
  <2>1. table = [p \in Priority |-> table[p]]
    BY DEF TableOf
  <2> HIDE DEF table
  <2> QED
    BY <1>1, <2>1
<1> DEFINE c == Head(table[Min(bits)])
<1>3. /\ r.stat = [t \in Thread |-> IF t \in Started THEN "ready" ELSE "none"]
      /\ r.prio = init_priority /\ r.ready = table /\ r.group = bits
      /\ r.cur = c /\ r.nest = 0
      /\ r.err = [t \in Thread |-> "EOK"]
      /\ r.timer = [t \in Thread |-> FALSE]
      /\ r.wait = [l \in WaitList |-> <<>>]
      /\ r = [stat |-> r.stat, prio |-> r.prio, ready |-> r.ready,
              group |-> r.group, cur |-> r.cur, nest |-> r.nest,
              err |-> r.err, timer |-> r.timer, wait |-> r.wait]
  BY DEF KernelInit
<1> HIDE DEF table
<1>4. bits \in SUBSET Nat /\ \A t \in Started : init_priority[t] \in bits
  <2>1. ASSUME NEW t \in Started PROVE init_priority[t] \in bits
    <3>1. init_priority[t] \in Priority
      BY <1>0, KernelAssumption
    <3>2. t \in ToSet(table[init_priority[t]])
      BY <1>1, <3>1
    <3> QED
      BY <1>2, <3>1, <3>2, EmptyList
  <2> QED
    BY <2>1, KernelAssumption
<1>5. PICK m : m = Min(bits)
  OBVIOUS
<1>6. m \in bits /\ \A p \in bits : m <= p
  BY <1>0, <1>4, <1>5, MinIsLeast
<1>7. c \in Started /\ init_priority[c] = m
  <2>1. table[m] \in Seq(Thread) /\ table[m] # <<>>
    BY <1>2, <1>6
  <2>2. c \in ToSet(table[m])
    BY <1>5, <2>1, HeadIsElement
  <2> QED
    BY <1>1, <1>6, <2>2
<1> HIDE DEF c, bits
<1>8. /\ r.stat \in [Thread -> Stat] /\ r.err \in [Thread -> Error]
      /\ r.timer \in [Thread -> BOOLEAN] /\ r.wait \in [WaitList -> Seq(Thread)]
      /\ \A t \in Thread : r.stat[t] = (IF t \in Started THEN "ready" ELSE "none") /\ ~r.timer[t]
      /\ \A l \in WaitList : r.wait[l] = <<>>
  BY <1>3 DEF Stat, Error
<1>9. r \in KernelState
  <2>1. bits \in SUBSET Priority
    BY DEF bits
  <2>2. c \in Thread
    BY <1>0, <1>7
  <2>3. /\ r.prio \in [Thread -> Priority] /\ r.ready \in [Priority -> Seq(Thread)]
        /\ r.group \in SUBSET Priority /\ r.cur \in Thread /\ r.nest \in Nat
    BY <1>2, <1>3, <2>1, <2>2, KernelAssumption
  <2>4. r = [stat |-> r.stat, prio |-> r.prio, ready |-> r.ready,
             group |-> r.group, cur |-> r.cur, nest |-> r.nest,
             err |-> r.err, timer |-> r.timer, wait |-> r.wait]
    BY <1>3
  <2> QED
    BY ONLY <1>8, <2>3, <2>4 DEF KernelState
<1>10. \A l \in WaitList : ToSet(r.wait[l]) = {} /\ IsInjective(r.wait[l])
  BY <1>8, EmptyList DEF IsInjective
<1>11. ListsAreSets(r)
  BY <1>1, <1>3, <1>10 DEF ListsAreSets
<1>12. ASSUME NEW t \in Thread
       PROVE  Listed(r, t) = IF t \in Started THEN {init_priority[t]} ELSE {}
  <2>1. init_priority[t] \in Priority
    BY KernelAssumption
  <2> QED
    BY <1>1, <1>3, <2>1 DEF Listed
<1>13. Links(r, {})
  <2>1. LinkedByStat(r, Thread \ {})
    BY <1>3, <1>8, <1>10, <1>12 DEF LinkedByStat
  <2> QED
    BY <1>9, <1>11, <2>1 DEF Links
<1>14. Bits(r, {}) = bits
  BY <1>3, <1>13, BitsAreFull DEF bits
<1>15. Table(r, {}) /\ Stale(r, {}) = {}
  BY <1>3, <1>13, <1>14 DEF Table, Stale
<1>16. Urgent(r, {})
  <2>1. Queued(r, {}) = Started
    BY <1>0, <1>8 DEF Queued
  <2> QED
    BY <1>3, <1>4, <1>6, <1>7, <2>1 DEF Urgent
<1>17. Dead(r) = {}
  BY <1>10, SchedAssumption DEF Dead
<1> QED
  BY <1>0, <1>3, <1>8, <1>15, <1>16, <1>17

(* The initial state satisfies the invariant.                                 *)
LEMMA SchedInit ==
    ASSUME NEW c \in Thread, Init
    PROVE  SchedInv(c)
<1>1. /\ Table(k, {}) /\ Stale(k, {}) = {} /\ Urgent(k, {})
      /\ k.stat[Idle] = "ready" /\ k.nest = 0 /\ Dead(k) = {}
      /\ \A t \in Thread : k.stat[t] \in {"ready", "none"} /\ ~k.timer[t]
  BY StartedTable DEF Init
<1>2. TypeOK
  <2>1. k \in KernelState
    BY <1>1 DEF Table, Links
  <2>2. remaining_tick \in [Thread -> 1 .. init_tick]
    BY SchedAssumption DEF Init
  <2>3. pc \in [Thread -> PC] /\ arg \in [Thread -> Thread] /\ owed \in BOOLEAN
    BY DEF Init, PC
  <2> QED
    BY <2>1, <2>2, <2>3 DEF TypeOK
<1>3. pc[c] = "run" /\ Moved(c) = {} /\ pc[k.cur] = "run" /\ owed = FALSE
  BY <1>2 DEF Init, Moved, Moving, TypeOK, KernelState
<1>4. Threads(k, {})
  BY <1>1 DEF Threads
<1>5. Others(c) /\ Found(k, c) /\ Target(c)
  BY <1>3 DEF Init, Others, Found, Target, Plain, Moving
<1>6. Runner(c)
  BY <1>1, <1>3, KernelAssumption DEF Runner, Queued, Urgent
<1>7. Resumes(c)
  BY <1>1, <1>3 DEF Resumes
<1> QED
  BY <1>1, <1>2, <1>3, <1>4, <1>5, <1>6, <1>7 DEF SchedInv

(* Every step keeps the invariant.                                            *)
LEMMA SchedStep ==
    ASSUME NEW c \in Thread, Controller = {c}, ~DeleteTimed, SchedInv(c), [Next]_vars
    PROVE  SchedInv(c)'
<1>1. CASE UNCHANGED vars
  <2>1. k' = k /\ remaining_tick' = remaining_tick /\ pc' = pc /\ arg' = arg /\ owed' = owed
    BY <1>1 DEF vars
  <2>2. Moved(c)' = Moved(c)
    BY <2>1 DEF Moved
  <2>3. TypeOK' /\ Others(c)' /\ Target(c)'
    BY <2>1 DEF SchedInv, TypeOK, Others, Target
  <2>4. Runner(c)' /\ Found(k, c)' /\ Resumes(c)'
    BY <2>1, <2>2 DEF SchedInv, Runner, Found, Resumes
  <2> QED
    BY <2>1, <2>2, <2>3, <2>4 DEF SchedInv
<1>2. ASSUME NEW t \in Thread, InCall(t) PROVE SchedInv(c)'
  BY <1>2, ScheduleStepKeeps, DetachKeeps, InsertKeeps, SuspendKeeps, DeleteTimerKeeps,
     DeleteCloseKeeps, SleepReturnKeeps DEF InCall
<1>3. ASSUME NEW t \in Thread, NEW u \in Thread, Control(t, u) PROVE SchedInv(c)'
  BY <1>3, InitKeeps, StartupKeeps, CheckKeeps, DeleteKeeps, ControlKeeps DEF Control
<1>4. ASSUME NEW t \in Thread,
             \/ rt_thread_exit(t) \/ rt_thread_yield(t) \/ rt_thread_sleep(t)
             \/ rt_enter_critical(t) \/ rt_exit_critical(t)
      PROVE  SchedInv(c)'
  BY <1>4, ExitKeeps, YieldKeeps, SleepKeeps, CriticalKeeps
<1>5. CASE rt_thread_idle_excute
  BY <1>5, IdleKeeps
<1>6. CASE rt_tick_increase
  BY <1>6, TickKeeps
<1>7. ASSUME NEW u \in Thread, Timeout(u) PROVE SchedInv(c)'
  BY <1>7, TimeoutKeeps
<1> QED
  BY <1>1, <1>2, <1>3, <1>4, <1>5, <1>6, <1>7 DEF Next

(* The invariant holds in every run with one controlling thread that deletes     *)
(* only threads whose timer is stopped.  rt_thread_delete of a sleeping thread    *)
(* breaks it (the run sched_delete), and so do two threads that delete each other. *)
THEOREM SchedInvariance ==
    ASSUME NEW c \in Thread, Controller = {c}, ~DeleteTimed
    PROVE  Spec => []SchedInv(c)
<1>1. Init => SchedInv(c)
  BY SchedInit
<1>2. SchedInv(c) /\ [Next]_vars => SchedInv(c)'
  BY SchedStep
<1> QED
  BY <1>1, <1>2, PTL DEF Spec

-----------------------------------------------------------------------------
(* What the invariant says *)

(* The invariant implies SchedConsistent.                                     *)
LEMMA InvConsistent ==
    ASSUME NEW c \in Thread, SchedInv(c)
    PROVE  SchedConsistent
<1>1. PICK M : M = Moved(c)
  OBVIOUS
<1>2. TypeOK /\ Table(k, M) /\ Links(k, M)
  BY <1>1 DEF SchedInv, Table
<1>3. Settled = Thread \ M
  <2>1. ASSUME NEW d \in Thread, pc[d] \in Moving PROVE d = c
    BY <2>1 DEF SchedInv, Others, Plain, Moving
  <2>2. {arg[d] : d \in {e \in Thread : pc[e] \in Moving}} = M
    BY <1>1, <2>1 DEF Moved
  <2> QED
    BY <2>2 DEF Settled, Moving
<1>4. LinkedByStat(k, Settled) /\ ListsAreSets(k)
  BY <1>2, <1>3 DEF Links
<1>5. ASSUME Settled = Thread PROVE GroupMatchesTable(k)
  <2>1. M = {}
    BY <1>1, <1>2, <1>3, <1>5 DEF TypeOK, Moved
  <2>2. pc[c] \notin Moving
    BY <1>1, <2>1 DEF Moved
  <2>3. Stale(k, M) = {}
    BY <1>1, <2>2 DEF SchedInv, Resumes, Moving
  <2>4. k.group = Bits(k, M)
    BY <1>2, <2>3 DEF Table, Stale
  <2> QED
    BY <1>2, <2>4, BitsAreFull DEF GroupMatchesTable
<1>6. ScheduleFindsThread
  <2> SUFFICES ASSUME k.nest = 0
               PROVE  k.group # {} /\ k.ready[HighestReady(k)] # <<>>
    BY DEF ScheduleFindsThread
  <2>1. Covered(k, M)
    BY <1>1, AlwaysCovered
  <2>2. Idle \in Queued(k, M)
    BY <1>1 DEF SchedInv, Runner
  <2> QED
    BY <1>2, <2>1, <2>2, HighestFound
<1>7. TimeoutAssertion
  BY DEF SchedInv, Threads, TimeoutAssertion
<1> QED
  BY <1>2, <1>4, <1>5, <1>6, <1>7 DEF SchedConsistent, ReadyTableConsistent

(* The invariant implies MostUrgentRuns.                                      *)
LEMMA InvUrgent ==
    ASSUME NEW c \in Thread, SchedInv(c)
    PROVE  MostUrgentRuns
<1> SUFFICES ASSUME k.nest = 0, ~owed, pc[k.cur] \notin {"schedule", "sleep"}
             PROVE  HighestRuns(k)
  BY DEF MostUrgentRuns
<1>1. PICK M : M = Moved(c)
  OBVIOUS
<1>2. Urgent(k, M) /\ Links(k, M)
  BY <1>1 DEF SchedInv, Runner, Table
<1>3. ASSUME NEW t \in Thread, Listed(k, t) # {} PROVE t \in Queued(k, M)
  <2>1. PICK p \in Priority : t \in ToSet(k.ready[p])
    BY <1>3 DEF Listed
  <2> QED
    BY <1>2, <2>1, BitsAreFull
<1> QED
  BY <1>2, <1>3 DEF Urgent, HighestRuns, Queued

(* The invariant implies FreedIsUnreachable.                                  *)
LEMMA InvFreed ==
    ASSUME NEW c \in Thread, SchedInv(c)
    PROVE  FreedIsUnreachable
<1> SUFFICES ASSUME NEW t \in Thread, k.stat[t] = "none"
             PROVE  /\ t # k.cur
                    /\ \A p \in Priority : t \notin ToSet(k.ready[p])
                    /\ t \notin ToSet(defunct)
  BY DEF FreedIsUnreachable
<1>1. t # k.cur
  BY DEF SchedInv, Runner
<1>2. \A p \in Priority : t \notin ToSet(k.ready[p])
  BY BitsAreFull DEF SchedInv, Table, Queued
<1>3. t \notin ToSet(defunct)
  BY DEF SchedInv, Threads, Dead, defunct
<1> QED
  BY <1>1, <1>2, <1>3

(* In every interleaving of thread calls and ticks the lists, the states and the *)
(* bit group of the ready queue agree, and rt_schedule finds a thread on the      *)
(* list of the lowest set bit, also while rt_thread_resume leaves a bit stale.    *)
THEOREM SchedConsistentAlways ==
    ASSUME NEW c \in Thread, Controller = {c}, ~DeleteTimed
    PROVE  Spec => []SchedConsistent
<1>1. SchedInv(c) => SchedConsistent
  BY InvConsistent
<1>2. Spec => []SchedInv(c)
  BY SchedInvariance
<1> QED
  BY <1>1, <1>2, PTL

(* No path of sleep, timeout, exit, yield, startup, tick or rt_exit_critical      *)
(* forgets to switch to a more urgent READY thread.                               *)
THEOREM MostUrgentAlways ==
    ASSUME NEW c \in Thread, Controller = {c}, ~DeleteTimed
    PROVE  Spec => []MostUrgentRuns
<1>1. SchedInv(c) => MostUrgentRuns
  BY InvUrgent
<1>2. Spec => []SchedInv(c)
  BY SchedInvariance
<1> QED
  BY <1>1, <1>2, PTL

(* A thread whose object rt_thread_idle_excute has freed neither runs nor is on   *)
(* a ready list or the defunct list.                                              *)
THEOREM FreedAlwaysUnreachable ==
    ASSUME NEW c \in Thread, Controller = {c}, ~DeleteTimed
    PROVE  Spec => []FreedIsUnreachable
<1>1. SchedInv(c) => FreedIsUnreachable
  BY InvFreed
<1>2. Spec => []SchedInv(c)
  BY SchedInvariance
<1> QED
  BY <1>1, <1>2, PTL

=============================================================================
