------------------------------ MODULE CallsProofs ------------------------------
(***************************************************************************)
(* What the blocking calls of Calls.tla preserve, for any threads, objects *)
(* and queueing discipline: the part of the argument that a semaphore, a   *)
(* completion and the other objects have in common.                        *)
(*                                                                         *)
(* CallsInv speaks of one thread at a time (ThreadOK).  An action moves    *)
(* one or two threads, every other thread looks the same afterwards        *)
(* (Same), and so the proof about an action is about the threads it moves. *)
(***************************************************************************)
EXTENDS Calls, KernelProofs

\* Thread t is on list l.
On(t, l) == t \in ToSet(k.wait[l])

Waiting(t) == InWait(t) /\ k.stat[t] = "suspend"

\* Only a suspended thread has a running timer; a thread waits on a list exactly
\* while it is suspended in a call, on the list of that call, and then has no
\* error yet.
ThreadOK(t) ==
    /\ k.stat[t] \in {"ready", "suspend"}
    /\ k.timer[t] => k.stat[t] = "suspend"
    /\ InWait(t) => t # Idle /\ list[t] \in WaitList
    /\ Waiting(t) => k.err[t] = "EOK"
    /\ \A l \in WaitList : On(t, l) <=> Waiting(t) /\ list[t] = l

\* The scheduler is not locked; the running thread is READY, or has just
\* suspended itself.
Runner ==
    /\ k.nest = 0
    /\ k.stat[k.cur] = "ready" \/ pc[k.cur] = "wait"

Sweeps(t) == pc[t] \in {"test", "resume"}

\* The detaching thread and what it has still to do.  Nobody joins the lists of an
\* object that is being detached.  If its waiters are untimed, nobody leaves them
\* either but by the loop of rt_ipc_list_resume_all.
SweepOK ==
    /\ \A t \in Thread : Sweeps(t) => life = "detaching" /\ sweep # <<>>
    /\ \A t, u \in Thread : Sweeps(t) /\ Sweeps(u) => t = u
    /\ life = "detaching" =>
           \A t \in Thread : \A l \in WaitList : On(t, l) => l \in ToSet(sweep)
    /\ life = "no" => \A t \in Thread : \A l \in WaitList : ~On(t, l)

UntimedOK ==
    /\ ~wild
    /\ life # "yes" => \A t \in Thread : Waiting(t) => ~k.timer[t]
    /\ \A t \in Thread : pc[t] = "resume" => \E u \in Thread : On(u, Head(sweep))

CallsInv ==
    /\ CallsTypeOK /\ pc = [t \in Thread |-> pc[t]]
    /\ KernelConsistent(k)
    /\ Runner
    /\ \A t \in Thread : ThreadOK(t)
    /\ SweepOK
    /\ DetachTimed \/ UntimedOK

-----------------------------------------------------------------------------
\* A step after which thread t looks the same.
Same(t) == SameView(k', k, t) /\ pc'[t] = pc[t] /\ list'[t] = list[t]

\* The kernel state after a step.
KernelOK == k' \in KernelState /\ KernelConsistent(k') /\ k'.nest = 0

\* No thread is given anything, none loses it.
SameCalled == \A l \in WaitList : Called(l)' = Called(l)

\* Nobody joins a list.
NobodyJoins == \A l \in WaitList : ToSet(k'.wait[l]) \subseteq ToSet(k.wait[l])

(* The parts of a kernel state that the calls read.                         *)
LEMMA StateFields ==
    ASSUME NEW s, s \in KernelState
    PROVE  /\ s.stat \in [Thread -> Stat] /\ s.err \in [Thread -> Error]
           /\ s.timer \in [Thread -> BOOLEAN] /\ s.cur \in Thread
           /\ \A l \in WaitList : s.wait[l] \in Seq(Thread) /\ ToSet(s.wait[l]) \subseteq Thread
<1>1. /\ s.stat \in [Thread -> Stat] /\ s.err \in [Thread -> Error]
      /\ s.timer \in [Thread -> BOOLEAN] /\ s.cur \in Thread
      /\ \A l \in WaitList : s.wait[l] \in Seq(Thread)
  BY DEF KernelState
<1>2. ASSUME NEW l \in WaitList PROVE ToSet(s.wait[l]) \subseteq Thread
  BY <1>1, ToSetIsRange
<1> QED
  BY <1>1, <1>2

(* A thread that a step leaves alone stays as it should be.                  *)
LEMMA Unmoved ==
    ASSUME CallsInv, NEW t \in Thread, Same(t)
    PROVE  /\ ThreadOK(t)'
           /\ Waiting(t)' = Waiting(t)
           /\ \A l \in WaitList : On(t, l)' <=> On(t, l)
           /\ \A l \in WaitList : t \in Called(l)' <=> t \in Called(l)
<1>1. ThreadOK(t)
  BY DEF CallsInv
<1>2. InWait(t)' = InWait(t) /\ Waiting(t)' = Waiting(t)
  BY DEF Same, SameView, InWait, Waiting
<1>3. \A l \in WaitList : On(t, l)' <=> On(t, l)
  BY DEF Same, SameView, On
<1>4. ThreadOK(t)'
  BY <1>1, <1>2, <1>3 DEF Same, SameView, ThreadOK
<1>5. \A l \in WaitList : t \in Called(l)' <=> t \in Called(l)
  BY <1>2 DEF Same, SameView, Called
<1> QED
  BY <1>2, <1>3, <1>4, <1>5

(* A step outside of detaching, which moves threads that do not detach.      *)
LEMMA LivingStep ==
    ASSUME CallsInv, life = "yes", UNCHANGED object,
           \A t \in Thread : Sweeps(t)' => Sweeps(t)
    PROVE  SweepOK' /\ (DetachTimed \/ UntimedOK')
<1>1. \A t \in Thread : ~Sweeps(t)
  BY DEF CallsInv, SweepOK
<1>2. \A t \in Thread : ~Sweeps(t)'
  BY <1>1
<1>3. SweepOK'
  BY <1>2 DEF SweepOK, object
<1>4. DetachTimed \/ UntimedOK'
  BY <1>2 DEF CallsInv, UntimedOK, Sweeps, object
<1> QED
  BY <1>3, <1>4

(* A step that moves threads between other points of their calls, and after   *)
(* which nobody is on a list that was not there before.                      *)
LEMMA DrainingStep ==
    ASSUME CallsInv, UNCHANGED <<flag, life, sweep>>,
           \A t \in Thread : Sweeps(t)' => Sweeps(t),
           \A t \in Thread, l \in WaitList : On(t, l)' => On(t, l)
    PROVE  SweepOK'
BY DEF CallsInv, SweepOK

\* Thread t may move like this without notice: it joins no list, starts no timer
\* while it waits, and is neither given anything nor loses it.
Quietly(t) ==
    /\ ThreadOK(t)'
    /\ Sweeps(t)' => Sweeps(t) /\ pc'[t] = pc[t]
    /\ Waiting(t)' => Waiting(t) /\ (k'.timer[t] => k.timer[t])
    /\ \A l \in WaitList : On(t, l)' => On(t, l)
    /\ \A l \in WaitList : t \in Called(l)' <=> t \in Called(l)

Quiet == CallsInv' /\ SameCalled /\ NobodyJoins

(* A step in which every thread stays as it is or moves quietly.  Untimed      *)
(* waiters of an object that is being detached stay on their lists.          *)
LEMMA QuietStep ==
    ASSUME CallsInv, KernelOK, Runner', UNCHANGED object,
           pc' = [t \in Thread |-> pc'[t]],
           list' \in [Thread -> WaitList \union {"none"}],
           \A t \in Thread : Same(t) \/ Quietly(t),
           \/ DetachTimed \/ life = "yes"
           \/ \A t \in Thread, l \in WaitList : On(t, l) => On(t, l)'
    PROVE  Quiet
<1>1. \A t \in Thread : Quietly(t)
  <2> SUFFICES ASSUME NEW t \in Thread, Same(t) PROVE Quietly(t)
    OBVIOUS
  <2>1. /\ ThreadOK(t)' /\ Waiting(t)' = Waiting(t)
        /\ \A l \in WaitList : On(t, l)' <=> On(t, l)
        /\ \A l \in WaitList : t \in Called(l)' <=> t \in Called(l)
    BY Unmoved
  <2>2. Sweeps(t)' = Sweeps(t) /\ k'.timer[t] = k.timer[t] /\ pc'[t] = pc[t]
    BY DEF Same, SameView, Sweeps
  <2> QED
    BY <2>1, <2>2, Zenon DEF Quietly
<1>2. CallsTypeOK'
  BY DEF CallsInv, CallsTypeOK, KernelOK, object
<1>3. SweepOK'
  BY <1>1, DrainingStep DEF Quietly, object
<1>4. DetachTimed \/ UntimedOK'
  <2>1. CASE life = "yes"
    BY <1>1, <2>1, LivingStep DEF Quietly
  <2>2. CASE ~DetachTimed /\ \A t \in Thread, l \in WaitList : On(t, l) => On(t, l)'
    <3>1. UntimedOK
      BY <2>2 DEF CallsInv
    <3>2. ~wild' /\ (life' # "yes" => \A t \in Thread : Waiting(t)' => ~k'.timer[t])
      BY <1>1, <3>1 DEF UntimedOK, Quietly, object
    <3>3. ASSUME NEW t \in Thread, pc'[t] = "resume"
          PROVE  \E u \in Thread : On(u, Head(sweep))'
      <4>1. pc[t] = "resume" /\ Sweeps(t)
        BY <1>1, <3>3 DEF Quietly, Sweeps
      <4>2. PICK u \in Thread : On(u, Head(sweep))
        BY <3>1, <4>1 DEF UntimedOK
      <4>3. Head(sweep) \in WaitList
        BY <4>1 DEF CallsInv, CallsTypeOK, SweepOK
      <4> QED
        BY <2>2, <4>2, <4>3 DEF object, On
    <3> QED
      BY <3>2, <3>3 DEF UntimedOK
  <2> QED
    BY <2>1, <2>2
<1>5. CallsInv'
  BY <1>1, <1>2, <1>3, <1>4 DEF CallsInv, KernelOK, Quietly
<1>6. SameCalled
  <2>1. ASSUME NEW l \in WaitList PROVE Called(l)' = Called(l)
    BY <1>1 DEF Quietly, Called
  <2> QED
    BY <2>1 DEF SameCalled
<1>7. NobodyJoins
  <2>1. \A l \in WaitList : ToSet(k'.wait[l]) \subseteq Thread
    BY StateFields DEF KernelOK
  <2> QED
    BY <1>1, <2>1 DEF NobodyJoins, Quietly, On
<1> QED
  BY <1>5, <1>6, <1>7 DEF Quiet

(* A step that calls rt_schedule and moves no thread.                        *)
LEMMA ScheduleStep ==
    ASSUME CallsInv, NEW s, s \in KernelState, KernelConsistent(s),
           s.stat = k.stat, s.nest = k.nest, s.err = k.err, s.timer = k.timer,
           s.wait = k.wait, k' = rt_schedule(s)
    PROVE  KernelOK /\ k'.stat[k'.cur] = "ready" /\ \A x \in Thread : SameView(k', k, x)
<1>1. /\ k' \in KernelState
      /\ KernelConsistent(k')
      /\ s.nest = 0 => k'.stat[k'.cur] = "ready"
      /\ k'.stat = s.stat /\ k'.prio = s.prio /\ k'.nest = s.nest
      /\ k'.err = s.err /\ k'.timer = s.timer /\ k'.wait = s.wait
  <2>1. PICK r : r = k'
    OBVIOUS
  <2>2. s \in KernelState /\ KernelConsistent(s) /\ r = rt_schedule(s)
    BY <2>1
  <2>3. /\ r \in KernelState
        /\ KernelConsistent(r)
        /\ s.nest = 0 => r.stat[r.cur] = "ready"
        /\ r.stat = s.stat /\ r.prio = s.prio /\ r.nest = s.nest
        /\ r.err = s.err /\ r.timer = s.timer /\ r.wait = s.wait
    BY ONLY <2>2, ScheduleEffect
  <2> QED
    BY <2>1, <2>3
<1>2. k.nest = 0
  BY DEF CallsInv, Runner
<1> QED
  BY <1>1, <1>2 DEF KernelOK, SameView

(* The end of a time slice.                                                 *)
LEMMA SliceEndKeeps ==
    ASSUME CallsInv, SliceEnd, UNCHANGED <<pc, list, object>>
    PROVE  Quiet
<1>1. k \in KernelState /\ KernelConsistent(k) /\ Yields(k)
  BY DEF CallsInv, CallsTypeOK, SliceEnd
<1>2. PICK s : s = Requeue(k)
  OBVIOUS
<1>3. /\ s \in KernelState
      /\ KernelConsistent(s)
      /\ s.stat = k.stat /\ s.prio = k.prio /\ s.cur = k.cur
      /\ s.nest = k.nest /\ s.err = k.err /\ s.timer = k.timer
      /\ s.wait = k.wait
  BY <1>1, <1>2, RequeueEffect
<1>4. k' = rt_schedule(s)
  BY <1>2 DEF SliceEnd
<1>5. KernelOK /\ k'.stat[k'.cur] = "ready" /\ \A x \in Thread : SameView(k', k, x)
  BY <1>3, <1>4, ScheduleStep
<1>6. Runner' /\ \A x \in Thread : Same(x)
  BY <1>5 DEF Runner, Same, KernelOK
<1>7. \A t \in Thread, l \in WaitList : On(t, l) => On(t, l)'
  BY <1>5 DEF SameView, On
<1> QED
  BY <1>5, <1>6, <1>7, QuietStep DEF CallsInv, CallsTypeOK, object

(* A caller reaches its rt_schedule.                                         *)
LEMMA CallSchedules ==
    ASSUME CallsInv, NEW t \in Thread, WaitSchedule(t) \/ LastSchedule(t),
           UNCHANGED object
    PROVE  Quiet
<1>1. k \in KernelState /\ KernelConsistent(k) /\ k' = rt_schedule(k) /\ k.cur = t
  BY DEF CallsInv, CallsTypeOK, WaitSchedule, LastSchedule, At
<1>2. KernelOK /\ k'.stat[k'.cur] = "ready" /\ \A x \in Thread : SameView(k', k, x)
  <2>1. PICK s : s = k
    OBVIOUS
  <2>2. /\ s \in KernelState /\ KernelConsistent(s)
        /\ s.stat = k.stat /\ s.nest = k.nest /\ s.err = k.err
        /\ s.timer = k.timer /\ s.wait = k.wait /\ k' = rt_schedule(s)
    BY <1>1, <2>1
  <2> QED
    BY <2>2, ScheduleStep
<1>3. /\ list' = list
      /\ \/ pc[t] = "wait" /\ pc' = [pc EXCEPT ![t] = "woken"]
         \/ pc[t] = "schedule" /\ pc' = [pc EXCEPT ![t] = "run"]
  BY DEF WaitSchedule, LastSchedule, Goto, At
<1>4. /\ DOMAIN pc = Thread
      /\ pc' = [x \in Thread |-> pc'[x]] /\ \A x \in Thread \ {t} : pc'[x] = pc[x]
      /\ InWait(t)' = InWait(t) /\ ~Sweeps(t)'
  BY <1>3 DEF CallsInv, InWait, Sweeps
<1>5. \A x \in Thread \ {t} : Same(x)
  BY <1>2, <1>3, <1>4 DEF Same
<1>6. Quietly(t)
  <2>1. SameView(k', k, t) /\ ThreadOK(t) /\ list'[t] = list[t]
    BY <1>2, <1>3 DEF CallsInv
  <2>2. Waiting(t)' = Waiting(t) /\ \A l \in WaitList : On(t, l)' <=> On(t, l)
    BY <1>4, <2>1 DEF Waiting, SameView, On
  <2>3. ThreadOK(t)'
    BY <1>4, <2>1, <2>2 DEF ThreadOK, SameView
  <2>4. \A l \in WaitList : t \in Called(l)' <=> t \in Called(l)
    BY <1>4, <2>1 DEF Called, SameView
  <2> QED
    BY <1>4, <2>1, <2>2, <2>3, <2>4 DEF Quietly, SameView
<1>7. Runner'
  BY <1>2 DEF Runner, KernelOK
<1>8. \A x \in Thread, l \in WaitList : On(x, l) => On(x, l)'
  BY <1>2 DEF SameView, On
<1> QED
  BY <1>2, <1>3, <1>4, <1>5, <1>6, <1>7, <1>8, QuietStep DEF CallsInv, CallsTypeOK

(* A thread goes to sleep.                                                  *)
LEMMA SleepKeeps ==
    ASSUME CallsInv, NEW t \in Thread, rt_thread_sleep(t), UNCHANGED <<pc, list, object>>
    PROVE  Quiet
<1>1. /\ k \in KernelState /\ KernelConsistent(k) /\ k.nest = 0
      /\ t # Idle /\ pc[t] = "run" /\ k.stat[t] = "ready"
      /\ k' = rt_schedule(StartTimer(rt_thread_suspend(k, t), t))
  BY CallsAssumption DEF CallsInv, CallsTypeOK, rt_thread_sleep, Runner, At
<1>2. PICK s : s = rt_thread_suspend(k, t)
  OBVIOUS
<1>3. /\ s \in KernelState
      /\ KernelConsistent(s)
      /\ s.stat = [k.stat EXCEPT ![t] = "suspend"]
      /\ s.timer = [k.timer EXCEPT ![t] = FALSE]
      /\ s.prio = k.prio /\ s.cur = k.cur /\ s.nest = k.nest /\ s.err = k.err
      /\ SameWaits(s, k)
  BY <1>1, <1>2, SuspendEffect
<1>4. PICK z : z = StartTimer(s, t)
  OBVIOUS
<1>5. /\ z \in KernelState
      /\ KernelConsistent(z)
      /\ z.timer = [s.timer EXCEPT ![t] = TRUE]
      /\ z.stat = s.stat /\ z.prio = s.prio /\ z.cur = s.cur
      /\ z.nest = s.nest /\ z.err = s.err /\ z.wait = s.wait
  BY <1>3, <1>4, TimerEffect
<1>6. k' = rt_schedule(z)
  BY <1>1, <1>2, <1>4
<1>7. /\ k' \in KernelState
      /\ KernelConsistent(k')
      /\ z.nest = 0 => k'.stat[k'.cur] = "ready"
      /\ k'.stat = z.stat /\ k'.prio = z.prio /\ k'.nest = z.nest
      /\ k'.err = z.err /\ k'.timer = z.timer /\ k'.wait = z.wait
  BY ONLY <1>5, <1>6, ScheduleEffect
<1>8. KernelOK /\ Runner'
  BY <1>1, <1>3, <1>5, <1>7 DEF KernelOK, Runner
<1>9. \A l \in WaitList : ToSet(k'.wait[l]) = ToSet(k.wait[l])
  BY <1>3, <1>5, <1>7 DEF SameWaits
<1>10. /\ k.stat \in [Thread -> Stat] /\ k.err \in [Thread -> Error]
       /\ k.timer \in [Thread -> BOOLEAN]
  BY <1>1, StateFields
<1>11. \A x \in Thread \ {t} : Same(x)
  BY <1>3, <1>5, <1>7, <1>9, <1>10 DEF Same, SameView
<1>12. k'.stat[t] = "suspend" /\ k'.err[t] = k.err[t]
  BY <1>3, <1>5, <1>7, <1>10
<1>13. Quietly(t)
  <2>1. ThreadOK(t) /\ ~InWait(t) /\ ~InWait(t)' /\ ~Sweeps(t)'
    BY <1>1 DEF CallsInv, InWait, Sweeps
  <2>2. \A l \in WaitList : On(t, l)' <=> On(t, l)
    BY <1>9 DEF On
  <2> QED
    BY <1>12, <2>1, <2>2 DEF ThreadOK, Quietly, Waiting, Called
<1>14. \A x \in Thread, l \in WaitList : On(x, l) => On(x, l)'
  BY <1>9 DEF On
<1> QED
  BY <1>8, <1>11, <1>13, <1>14, QuietStep DEF CallsInv, CallsTypeOK

(* The timer of a waiting or sleeping thread expires.                        *)
LEMMA TimeoutKeeps ==
    ASSUME CallsInv, NEW t \in Thread, Timeout(t), UNCHANGED <<pc, list, object>>
    PROVE  Quiet
<1>1. /\ k \in KernelState /\ KernelConsistent(k) /\ k.nest = 0
      /\ k.timer[t] /\ k.stat[t] = "suspend" /\ ThreadOK(t)
  BY DEF CallsInv, CallsTypeOK, Runner, Timeout, ThreadOK
<1>2. PICK e : e = rt_thread_timeout(k, t)
  OBVIOUS
<1>3. /\ e \in KernelState
      /\ KernelConsistent(e)
      /\ k.nest = 0 => e.stat[e.cur] = "ready"
      /\ e.stat = [k.stat EXCEPT ![t] = "ready"]
      /\ e.timer = [k.timer EXCEPT ![t] = FALSE]
      /\ e.err = [k.err EXCEPT ![t] = "ETIMEOUT"]
      /\ e.prio = k.prio /\ e.nest = k.nest
      /\ WaitDrops(e, k, t)
  BY <1>1, <1>2, TimeoutEffect
<1>4. /\ k.stat \in [Thread -> Stat] /\ k.err \in [Thread -> Error]
      /\ k.timer \in [Thread -> BOOLEAN]
  BY <1>1, StateFields
<1>5. PICK c \in Error : c = IF InWait(t) THEN "ETIMEOUT" ELSE k.err[t]
  BY <1>4 DEF Error
<1>6. k' = WithError(e, t, c)
  <2>1. CASE InWait(t)
    <3>1. k' = e
      BY <1>2, <2>1 DEF Timeout
    <3>2. e = [e EXCEPT !.err[t] = "ETIMEOUT"]
      BY <1>3, <1>4 DEF KernelState
    <3> QED
      BY <1>5, <2>1, <3>1, <3>2 DEF WithError
  <2>2. CASE ~InWait(t)
    BY <1>2, <1>5, <2>2 DEF Timeout, WithError
  <2> QED
    BY <2>1, <2>2
<1>7. /\ k' \in KernelState
      /\ KernelConsistent(k')
      /\ k'.err = [e.err EXCEPT ![t] = c]
      /\ k'.stat = e.stat /\ k'.prio = e.prio /\ k'.cur = e.cur
      /\ k'.nest = e.nest /\ k'.timer = e.timer /\ k'.wait = e.wait
  BY ONLY <1>3, <1>6, t \in Thread, c \in Error, ErrorEffect
<1>8. KernelOK /\ Runner'
  BY <1>1, <1>3, <1>7 DEF KernelOK, Runner
<1>9. \A l \in WaitList : ToSet(k'.wait[l]) = ToSet(k.wait[l]) \ {t}
  BY <1>3, <1>7 DEF WaitDrops
<1>10. \A x \in Thread \ {t} : Same(x)
  BY <1>3, <1>4, <1>7, <1>9 DEF Same, SameView
<1>11. k'.stat[t] = "ready" /\ k'.err[t] = c /\ ~k'.timer[t]
  BY <1>3, <1>4, <1>7
<1>12. \A l \in WaitList : ~On(t, l)'
  BY <1>9 DEF On
<1>13. InWait(t)' = InWait(t) /\ Sweeps(t)' = Sweeps(t)
  BY DEF InWait, Sweeps
<1>14. ThreadOK(t)'
  BY <1>1, <1>11, <1>12, <1>13 DEF ThreadOK, Waiting
<1>15. \A l \in WaitList : t \notin Called(l)' /\ t \notin Called(l)
  BY <1>1, <1>5, <1>11, <1>13 DEF Called
<1>16. Quietly(t)
  BY <1>11, <1>12, <1>13, <1>14, <1>15 DEF Quietly, Waiting
<1>17. \/ DetachTimed \/ life = "yes"
       \/ \A x \in Thread, l \in WaitList : On(x, l) => On(x, l)'
  <2> SUFFICES ASSUME ~DetachTimed, life # "yes" PROVE \A l \in WaitList : ~On(t, l)
    BY <1>10 DEF Same, SameView, On
  <2>1. ~Waiting(t)
    BY <1>1 DEF CallsInv, UntimedOK
  <2> QED
    BY <1>1, <2>1 DEF ThreadOK
<1> QED
  BY <1>8, <1>10, <1>16, <1>17, QuietStep DEF CallsInv, CallsTypeOK

(* Sleeping, the end of a slice and the expiry of a timer.                   *)
LEMMA BackgroundKeeps ==
    ASSUME CallsInv, Background PROVE Quiet
BY SleepKeeps, TimeoutKeeps, SliceEndKeeps DEF Background

-----------------------------------------------------------------------------
(* Detaching *)

(* A thread begins to detach the object whose waiters are on the given lists. *)
LEMMA DetachStarts ==
    ASSUME CallsInv, NEW t \in Thread, NEW lists \in Seq(WaitList), lists # <<>>,
           \A x \in Thread, l \in WaitList : On(x, l) => l \in ToSet(lists),
           StartDetach(t, lists)
    PROVE  Quiet
<1>1. /\ k' = k /\ list' = list /\ flag' = flag /\ wild' = wild
      /\ life = "yes" /\ life' = "detaching" /\ sweep' = lists
      /\ pc[t] = "run" /\ pc' = [pc EXCEPT ![t] = "test"] /\ Untimed(lists)
  BY DEF StartDetach, Goto, Enters, At
<1>2. DOMAIN pc = Thread /\ pc' = [x \in Thread |-> pc'[x]]
  BY <1>1 DEF CallsInv
<1>3. \A x \in Thread : pc'[x] = IF x = t THEN "test" ELSE pc[x]
  BY <1>1, <1>2
<1>4. \A x \in Thread : InWait(x)' = InWait(x) /\ Waiting(x)' = Waiting(x)
  BY <1>1, <1>3 DEF InWait, Waiting
<1>5. \A x \in Thread : ThreadOK(x)'
  BY <1>1, <1>4 DEF CallsInv, ThreadOK, On
<1>6. \A x \in Thread : ~Sweeps(x)
  BY <1>1 DEF CallsInv, SweepOK
<1>7. \A x \in Thread : (Sweeps(x)' => x = t) /\ pc'[x] # "resume"
  BY <1>3, <1>6 DEF Sweeps
<1>8. SweepOK'
  BY <1>1, <1>7 DEF SweepOK, On
<1>9. DetachTimed \/ UntimedOK'
  <2> SUFFICES ASSUME ~DetachTimed PROVE UntimedOK'
    OBVIOUS
  <2>1. ~wild'
    BY <1>1 DEF CallsInv, UntimedOK
  <2>2. ASSUME NEW x \in Thread, Waiting(x)' PROVE ~k'.timer[x]
    <3>1. ThreadOK(x) /\ Waiting(x) /\ InWait(x)
      BY <1>4, <2>2 DEF CallsInv, Waiting
    <3>2. list[x] \in WaitList /\ On(x, list[x])
      BY <3>1 DEF ThreadOK
    <3>3. list[x] \in ToSet(lists) /\ x \in ToSet(k.wait[list[x]])
      BY <3>2 DEF On
    <3> QED
      BY <1>1, <3>3 DEF Untimed
  <2> QED
    BY <1>7, <2>1, <2>2 DEF UntimedOK
<1>10. CallsInv'
  BY <1>1, <1>2, <1>3, <1>5, <1>8, <1>9 DEF CallsInv, CallsTypeOK, Runner, At, StartDetach, Enters
<1>11. SameCalled /\ NobodyJoins
  BY <1>1, <1>4 DEF SameCalled, NobodyJoins, Called
<1> QED
  BY <1>10, <1>11 DEF Quiet

(* while (!rt_list_isempty(list)): with the last list empty the object is gone, *)
(* and nobody is on any of its lists.                                        *)
LEMMA SweepTestKeeps ==
    ASSUME CallsInv, NEW t \in Thread, SweepTest(t)
    PROVE  Quiet
<1>1. /\ k' = k /\ flag' = flag /\ wild' = wild /\ list' = list
      /\ k.cur = t /\ pc[t] = "test" /\ life = "detaching" /\ sweep # <<>>
      /\ k.nest = 0 /\ k.stat[t] = "ready"
  BY DEF SweepTest, At, CallsInv, SweepOK, Sweeps, Runner, SweepEnd, Goto
<1>2. PICK h \in WaitList : h = Head(sweep)
  BY <1>1 DEF CallsInv, CallsTypeOK
<1>3. k.wait[h] \in Seq(Thread)
  BY StateFields DEF CallsInv, CallsTypeOK
<1>4. ASSUME NEW c, c \notin {"wait", "woken"},
             pc' = [pc EXCEPT ![t] = c], SweepOK', DetachTimed \/ UntimedOK',
             sweep' \in Seq(WaitList), life' \in {"yes", "detaching", "no"}
      PROVE  Quiet
  <2>1. DOMAIN pc = Thread /\ pc' = [x \in Thread |-> pc'[x]]
    BY <1>4 DEF CallsInv
  <2>2. \A x \in Thread : pc'[x] = IF x = t THEN c ELSE pc[x]
    BY <1>4, <2>1
  <2>3. \A x \in Thread : InWait(x)' = InWait(x) /\ Waiting(x)' = Waiting(x)
    BY <1>1, <1>4, <2>2 DEF InWait, Waiting
  <2>4. \A x \in Thread : ThreadOK(x)'
    BY <1>1, <2>3 DEF CallsInv, ThreadOK, On
  <2>5. CallsInv'
    BY <1>1, <1>4, <2>1, <2>4 DEF CallsInv, CallsTypeOK, Runner
  <2>6. SameCalled /\ NobodyJoins
    BY <1>1, <2>3 DEF SameCalled, NobodyJoins, Called
  <2> QED
    BY <2>5, <2>6 DEF Quiet
<1>5. \A x \in Thread \ {t} : ~Sweeps(x)
  BY <1>1 DEF CallsInv, SweepOK, Sweeps
<1>6. DOMAIN pc = Thread
  BY DEF CallsInv
<1>7. CASE k.wait[h] # <<>>
  <2>1. pc' = [pc EXCEPT ![t] = "resume"] /\ life' = life /\ sweep' = sweep
    BY <1>2, <1>7 DEF SweepTest, Goto
  <2>2. \A x \in Thread : Sweeps(x)' => x = t
    BY <1>5, <1>6, <2>1 DEF Sweeps
  <2>3. SweepOK'
    BY <1>1, <2>1, <2>2 DEF CallsInv, SweepOK, On
  <2>4. \E u \in Thread : On(u, h)
    <3>1. ToSet(k.wait[h]) # {} /\ ToSet(k.wait[h]) \subseteq Thread
      BY <1>3, <1>7, EmptyList, StateFields DEF CallsInv, CallsTypeOK
    <3> QED
      BY <3>1 DEF On
  <2>5. DetachTimed \/ UntimedOK'
    <3> SUFFICES ASSUME ~DetachTimed PROVE UntimedOK'
      OBVIOUS
    <3>1. \A x \in Thread : Waiting(x)' => Waiting(x)
      BY <1>1, <1>6, <2>1 DEF Waiting, InWait
    <3> QED
      BY <1>1, <1>2, <2>1, <2>4, <3>1 DEF CallsInv, UntimedOK, On
  <2> QED
    BY <1>1, <1>4, <2>1, <2>3, <2>5 DEF CallsInv, CallsTypeOK
<1>8. CASE k.wait[h] = <<>>
  <2>1. /\ sweep' = Tail(sweep) /\ sweep' \in Seq(WaitList)
        /\ \A l \in WaitList : l \in ToSet(sweep) => l = h \/ l \in ToSet(sweep')
    <3>1. sweep \in Seq(WaitList) /\ sweep' = Tail(sweep)
      BY <1>2, <1>8 DEF SweepTest, CallsInv, CallsTypeOK
    <3>2. Tail(sweep) \in Seq(WaitList) /\ Len(Tail(sweep)) = Len(sweep) - 1
          /\ \A i \in 2 .. Len(sweep) : Tail(sweep)[i - 1] = sweep[i]
      BY <1>1, <3>1
    <3>3. ASSUME NEW l \in WaitList, l \in ToSet(sweep), l # h
          PROVE  l \in ToSet(Tail(sweep))
      <4>1. PICK i \in 1 .. Len(sweep) : sweep[i] = l
        BY <3>1, <3>3, ToSetIsRange
      <4>2. i # 1
        BY <1>2, <3>1, <3>3, <4>1
      <4>3. i - 1 \in 1 .. Len(Tail(sweep)) /\ Tail(sweep)[i - 1] = l
        BY <3>1, <3>2, <4>1, <4>2
      <4> QED
        BY <3>2, <4>3, ToSetIsRange
    <3> QED
      BY <3>1, <3>2, <3>3
  <2>2. \A x \in Thread : ~On(x, h)
    BY <1>3, <1>8, EmptyList DEF On
  <2>3. \A x \in Thread, l \in WaitList : On(x, l) => l \in ToSet(sweep')
    BY <1>1, <2>1, <2>2 DEF CallsInv, SweepOK
  <2>4. CASE Len(sweep) = 1
    <3>1. life' = "no" /\ pc' = [pc EXCEPT ![t] = "run"]
      BY <1>1, <1>2, <1>8, <2>4 DEF SweepTest, SweepEnd, Goto
    <3>2. \A x \in Thread : ~Sweeps(x)'
      BY <1>5, <1>6, <3>1 DEF Sweeps
    <3>3. ToSet(sweep') = {}
      <4>1. Len(sweep') = 0
        BY <2>1, <2>4 DEF CallsInv, CallsTypeOK
      <4>2. \A i \in 1 .. Len(sweep') : FALSE
        BY <4>1
      <4> QED
        BY <2>1, <4>2, ToSetIsRange
    <3>4. SweepOK'
      BY <1>1, <2>3, <3>1, <3>2, <3>3 DEF SweepOK, On
    <3>5. DetachTimed \/ UntimedOK'
      <4> SUFFICES ASSUME ~DetachTimed PROVE UntimedOK'
        OBVIOUS
      <4>1. \A x \in Thread : Waiting(x)' => Waiting(x)
        BY <1>1, <1>6, <3>1 DEF Waiting, InWait
      <4> QED
        BY <1>1, <3>2, <4>1 DEF CallsInv, UntimedOK, Sweeps
    <3> QED
      BY <1>4, <2>1, <3>1, <3>4, <3>5
  <2>5. CASE Len(sweep) # 1
    <3>1. life' = life /\ pc' = pc /\ pc' = [pc EXCEPT ![t] = "test"]
      BY <1>1, <1>2, <1>6, <1>8, <2>5 DEF SweepTest, CallsInv
    <3>2. sweep' # <<>>
      <4>0. sweep \in Seq(WaitList) /\ sweep # <<>>
        BY <1>1 DEF CallsInv, CallsTypeOK
      <4>1. Len(sweep) \in Nat /\ Len(sweep) # 0 /\ Len(Tail(sweep)) = Len(sweep) - 1
        BY ONLY <4>0
      <4>2. Len(sweep') # 0
        BY <2>1, <2>5, <4>1
      <4> QED
        BY <4>2
    <3>3. SweepOK'
      <4>1. \A x \in Thread : Sweeps(x)' = Sweeps(x)
        BY <3>1 DEF Sweeps
      <4> QED
        BY <1>1, <2>3, <3>1, <3>2, <4>1 DEF CallsInv, SweepOK, On
    <3>4. DetachTimed \/ UntimedOK'
      <4> SUFFICES ASSUME ~DetachTimed PROVE UntimedOK'
        OBVIOUS
      <4>1. \A x \in Thread : pc'[x] # "resume"
        BY <1>1, <1>5, <3>1 DEF Sweeps
      <4>2. \A x \in Thread : Waiting(x)' = Waiting(x)
        BY <1>1, <3>1 DEF Waiting, InWait
      <4> QED
        BY <1>1, <3>1, <4>1, <4>2 DEF CallsInv, UntimedOK
    <3> QED
      BY <1>1, <1>4, <2>1, <3>1, <3>3, <3>4
  <2> QED
    BY <2>4, <2>5
<1> QED
  BY <1>7, <1>8

(* The body of the loop: the first waiter is resumed and told -RT_ERROR.      *)
LEMMA SweepResumeKeeps ==
    ASSUME CallsInv, NEW t \in Thread, SweepResume(t)
    PROVE  Quiet
<1>1. /\ list' = list /\ flag' = flag /\ life' = life /\ sweep' = sweep
      /\ k.cur = t /\ pc[t] = "resume" /\ pc' = [pc EXCEPT ![t] = "test"]
      /\ life = "detaching" /\ sweep # <<>> /\ k.nest = 0 /\ k.stat[t] = "ready"
      /\ k \in KernelState /\ KernelConsistent(k)
  BY DEF SweepResume, At, CallsInv, CallsTypeOK, SweepOK, Sweeps, Runner, Goto
<1>2. PICK h \in WaitList : h = Head(sweep)
  BY <1>1 DEF CallsInv, CallsTypeOK
<1>3. k.wait[h] \in Seq(Thread)
  BY <1>1, StateFields
<1>4. /\ k' = IF k.wait[h] = <<>> THEN k ELSE ResumeWithError(k, Head(k.wait[h]))
      /\ wild' = (k.wait[h] = <<>>)
  BY <1>2 DEF SweepResume
<1>5. /\ DOMAIN pc = Thread /\ pc' = [x \in Thread |-> pc'[x]]
      /\ \A x \in Thread : pc'[x] = IF x = t THEN "test" ELSE pc[x]
  BY <1>1 DEF CallsInv
<1>6. \A x \in Thread : InWait(x)' = InWait(x) /\ Sweeps(x)' = Sweeps(x)
  BY <1>1, <1>5 DEF InWait, Sweeps
<1>7. \A x \in Thread : pc'[x] # "resume"
  BY <1>1, <1>5 DEF CallsInv, SweepOK, Sweeps
<1>8. /\ KernelOK /\ Runner'
      /\ \A x \in Thread : SameView(k', k, x) \/ (Waiting(x) /\ Refused(k', x))
  <2>1. CASE k.wait[h] = <<>>
    <3>1. k' = k
      BY <1>4, <2>1
    <3>2. \A x \in Thread : SameView(k', k, x)
      BY <3>1 DEF SameView
    <3>3. KernelOK /\ Runner'
      BY <1>1, <3>1 DEF KernelOK, Runner
    <3> QED
      BY <3>2, <3>3
  <2>2. CASE k.wait[h] # <<>>
    <3>1. PICK u \in Thread : u = Head(k.wait[h])
      BY <1>3, <2>2
    <3>2. On(u, h)
      BY <1>3, <2>2, <3>1, HeadIsElement DEF On
    <3>3. Waiting(u) /\ k.stat[u] = "suspend"
      BY <3>2 DEF CallsInv, ThreadOK, Waiting
    <3>4. k' = ResumeWithError(k, u)
      BY <1>4, <2>2, <3>1
    <3>5. /\ k' \in KernelState
          /\ KernelConsistent(k')
          /\ k'.prio = k.prio /\ k'.cur = k.cur /\ k'.nest = k.nest
          /\ \A x \in Thread \ {u} : SameView(k', k, x)
          /\ k.stat[u] = "suspend" => Refused(k', u)
      BY ONLY <1>1, <3>4, u \in Thread, ResumeWithErrorEffect
    <3>6. Runner'
      <4>1. t # u
        BY <1>1, <3>3
      <4> QED
        BY <1>1, <3>5, <4>1 DEF Runner, SameView
    <3>7. Refused(k', u) /\ KernelOK
      BY <1>1, <3>3, <3>5 DEF KernelOK
    <3>8. ASSUME NEW x \in Thread PROVE SameView(k', k, x) \/ (Waiting(x) /\ Refused(k', x))
      <4>1. CASE x = u
        BY <3>3, <3>7, <4>1
      <4>2. CASE x # u
        BY <3>5, <4>2
      <4> QED
        BY <4>1, <4>2
    <3> QED
      BY <3>6, <3>7, <3>8
  <2> QED
    BY <2>1, <2>2
<1>9. ASSUME NEW x \in Thread
      PROVE  /\ ThreadOK(x)'
             /\ Waiting(x)' => Waiting(x) /\ k'.timer[x] = k.timer[x]
             /\ \A l \in WaitList : On(x, l)' => On(x, l)
             /\ \A l \in WaitList : x \in Called(l)' <=> x \in Called(l)
  <2>1. ThreadOK(x)
    BY DEF CallsInv
  <2>2. CASE SameView(k', k, x)
    BY <1>1, <1>6, <2>1, <2>2 DEF ThreadOK, SameView, Waiting, On, Called
  <2>3. CASE Waiting(x) /\ Refused(k', x)
    BY <1>1, <1>6, <2>1, <2>3 DEF ThreadOK, Refused, Waiting, On, Called
  <2> QED
    BY <1>8, <2>2, <2>3
<1>10. CallsTypeOK'
  BY <1>1, <1>4, <1>8 DEF CallsInv, CallsTypeOK, KernelOK
<1>11. SweepOK'
  BY <1>1, <1>6, <1>9, DrainingStep
<1>12. DetachTimed \/ UntimedOK'
  <2> SUFFICES ASSUME ~DetachTimed PROVE UntimedOK'
    OBVIOUS
  <2>1. UntimedOK
    BY DEF CallsInv
  <2>2. PICK u \in Thread : On(u, h)
    BY <1>1, <1>2, <2>1 DEF UntimedOK
  <2>3. k.wait[h] # <<>>
    BY <1>3, <2>2, EmptyList DEF On
  <2> QED
    BY <1>1, <1>4, <1>7, <1>9, <2>1, <2>3 DEF UntimedOK
<1>13. CallsInv'
  BY <1>5, <1>8, <1>9, <1>10, <1>11, <1>12 DEF CallsInv, KernelOK
<1>14. SameCalled
  <2>1. ASSUME NEW l \in WaitList PROVE Called(l)' = Called(l)
    BY <1>9 DEF Called
  <2> QED
    BY <2>1 DEF SameCalled
<1>15. NobodyJoins
  <2>1. \A l \in WaitList : ToSet(k'.wait[l]) \subseteq Thread
    BY <1>8, StateFields DEF KernelOK
  <2> QED
    BY <1>9, <2>1 DEF NobodyJoins, On
<1> QED
  BY <1>13, <1>14, <1>15 DEF Quiet

(* What a thread may be in the middle of.                                    *)
LEMMA CallStepsKeep ==
    ASSUME CallsInv, NEW t \in Thread, CallSteps(t) PROVE Quiet
BY CallSchedules, SweepTestKeeps, SweepResumeKeeps DEF CallSteps

-----------------------------------------------------------------------------
(* Calls on the object *)

\* Thread x stays where it is, or is at points at which it neither waits nor
\* detaches.
Stays(x) ==
    \/ pc'[x] = pc[x] /\ list'[x] = list[x]
    \/ ~InWait(x) /\ ~InWait(x)' /\ ~Sweeps(x)'

\* A step of a call on an object that nobody is detaching.
Call ==
    /\ life = "yes" /\ UNCHANGED object
    /\ pc' = [x \in Thread |-> pc'[x]]
    /\ list' \in [Thread -> WaitList \union {"none"}]

(* A thread whose view is the same and that waits on nothing before or after. *)
LEMMA StaysSame ==
    ASSUME CallsInv, NEW x \in Thread, SameView(k', k, x), Stays(x)
    PROVE  /\ ThreadOK(x)' /\ (Sweeps(x)' => Sweeps(x) /\ pc'[x] = pc[x])
           /\ Waiting(x)' = Waiting(x)
           /\ \A l \in WaitList : On(x, l)' <=> On(x, l)
           /\ \A l \in WaitList : x \in Called(l)' <=> x \in Called(l)
<1>1. CASE pc'[x] = pc[x] /\ list'[x] = list[x]
  <2>1. Same(x)
    BY <1>1 DEF Same
  <2>2. Sweeps(x)' = Sweeps(x)
    BY <1>1 DEF Sweeps
  <2> QED
    BY <1>1, <2>1, <2>2, Unmoved
<1>2. CASE ~InWait(x) /\ ~InWait(x)' /\ ~Sweeps(x)'
  <2>1. ThreadOK(x)
    BY DEF CallsInv
  <2>2. \A l \in WaitList : On(x, l)' <=> On(x, l)
    BY DEF SameView, On
  <2>3. ThreadOK(x)' /\ Waiting(x)' = Waiting(x)
    BY <1>2, <2>1, <2>2 DEF ThreadOK, SameView, Waiting
  <2>4. \A l \in WaitList : x \notin Called(l)' /\ x \notin Called(l)
    BY <1>2 DEF Called
  <2> QED
    BY <1>2, <2>2, <2>3, <2>4
<1> QED
  BY <1>1, <1>2 DEF Stays

(* A call that neither waits nor wakes: the kernel state stays, or only the    *)
(* error of a thread that does not wait is set.                              *)
LEMMA PlainCall ==
    ASSUME CallsInv, Call, KernelOK, Runner',
           \A x \in Thread : SameView(k', k, x) /\ Stays(x)
    PROVE  Quiet
<1>1. \A x \in Thread : Quietly(x)
  <2> SUFFICES ASSUME NEW x \in Thread PROVE Quietly(x)
    OBVIOUS
  <2>1. k'.timer[x] = k.timer[x]
    BY DEF SameView
  <2> QED
    BY <2>1, StaysSame DEF Quietly
<1> QED
  BY <1>1, QuietStep DEF Call

\* In kernel state r the waiter h of list l, and nobody else, has been resumed.
WaiterResumed(r, h, l) ==
    /\ Waiting(h) /\ list[h] = l /\ k.err[h] = "EOK"
    /\ r \in KernelState /\ KernelConsistent(r)
    /\ r.cur = k.cur /\ r.nest = k.nest
    /\ r.stat[h] = "ready" /\ ~r.timer[h] /\ r.err[h] = "EOK"
    /\ \A m \in WaitList : ToSet(r.wait[m]) = ToSet(k.wait[m]) \ {h}
    /\ \A x \in Thread \ {h} : SameView(r, k, x)

(* The first waiter of a list is one of its suspended callers; it becomes      *)
(* READY and nothing else changes.                                           *)
LEMMA FirstWaiter ==
    ASSUME CallsInv, NEW l \in WaitList, k.wait[l] # <<>>,
           NEW r, r = rt_ipc_list_resume(k, l)
    PROVE  \E h \in Thread : WaiterResumed(r, h, l)
<1>1. k \in KernelState /\ KernelConsistent(k) /\ k.wait[l] \in Seq(Thread)
  BY StateFields DEF CallsInv, CallsTypeOK
<1>2. PICK h \in Thread : h = Head(k.wait[l])
  BY <1>1
<1>3. On(h, l)
  BY <1>1, <1>2, HeadIsElement DEF On
<1>4. Waiting(h) /\ list[h] = l /\ k.err[h] = "EOK" /\ k.stat[h] = "suspend"
  BY <1>3 DEF CallsInv, ThreadOK, Waiting
<1>5. r = rt_thread_resume(k, h)
  BY <1>2 DEF rt_ipc_list_resume
<1>6. /\ r \in KernelState
      /\ KernelConsistent(r)
      /\ r.stat = [k.stat EXCEPT ![h] = "ready"]
      /\ r.timer = [k.timer EXCEPT ![h] = FALSE]
      /\ r.prio = k.prio /\ r.cur = k.cur /\ r.nest = k.nest /\ r.err = k.err
      /\ WaitDrops(r, k, h)
  BY <1>1, <1>4, <1>5, ResumeEffect
<1>7. k.stat \in [Thread -> Stat] /\ k.timer \in [Thread -> BOOLEAN]
  BY <1>1, StateFields
<1>8. \A m \in WaitList : ToSet(r.wait[m]) = ToSet(k.wait[m]) \ {h}
  BY <1>6 DEF WaitDrops
<1>9. \A x \in Thread \ {h} : SameView(r, k, x)
  BY <1>6, <1>7, <1>8 DEF SameView
<1>10. WaiterResumed(r, h, l)
  BY <1>4, <1>6, <1>7, <1>8, <1>9 DEF WaiterResumed
<1> QED
  BY <1>10

\* Thread h is woken from list l and nobody else is.
Wakes(h, l) ==
    /\ h \in ToSet(k.wait[l]) /\ h \notin Called(l) /\ Called(l)' = Called(l) \union {h}
    /\ \A m \in WaitList : ToSet(k'.wait[m]) = ToSet(k.wait[m]) \ {h}
    /\ \A m \in WaitList \ {l} : Called(m)' = Called(m)

(* A step of a call that wakes the first waiter of a list.                    *)
LEMMA WakingCall ==
    ASSUME CallsInv, Call, KernelOK, Runner', \A x \in Thread : Stays(x),
           NEW l \in WaitList, NEW h \in Thread,
           Waiting(h), list[h] = l, k.err[h] = "EOK",
           k'.stat[h] = "ready", ~k'.timer[h], k'.err[h] = "EOK",
           \A m \in WaitList : ToSet(k'.wait[m]) = ToSet(k.wait[m]) \ {h},
           \A x \in Thread \ {h} : SameView(k', k, x)
    PROVE  CallsInv' /\ Wakes(h, l)
<1>1. ThreadOK(h) /\ InWait(h) /\ k.stat[h] = "suspend"
  BY DEF CallsInv, Waiting
<1>2. pc'[h] = pc[h] /\ list'[h] = l /\ InWait(h)'
  BY <1>1 DEF Stays, InWait
<1>3. \A m \in WaitList : ~On(h, m)'
  BY DEF On
<1>4. ThreadOK(h)'
  BY <1>1, <1>2, <1>3 DEF ThreadOK, Waiting
<1>5. \A x \in Thread \ {h} :
          /\ ThreadOK(x)' /\ (Sweeps(x)' => Sweeps(x))
          /\ \A m \in WaitList : x \in Called(m)' <=> x \in Called(m)
  BY StaysSame
<1>6. \A x \in Thread : Sweeps(x)' => Sweeps(x)
  BY <1>2, <1>5 DEF Sweeps
<1>7. SweepOK' /\ (DetachTimed \/ UntimedOK')
  BY <1>6, LivingStep DEF Call
<1>8. CallsTypeOK'
  BY DEF CallsInv, CallsTypeOK, KernelOK, Call, object
<1>9. CallsInv'
  BY <1>4, <1>5, <1>7, <1>8 DEF CallsInv, KernelOK, Call
<1>10. \A m \in WaitList : h \notin Called(m)
  BY <1>1 DEF Called
<1>11. h \in Called(l)' /\ \A m \in WaitList \ {l} : h \notin Called(m)'
  BY <1>2 DEF Called
<1>12. On(h, l)
  BY <1>1 DEF ThreadOK
<1>13. \A m \in WaitList : Called(m) \subseteq Thread /\ Called(m)' \subseteq Thread
  BY DEF Called
<1>14. Called(l)' = Called(l) \union {h}
  BY <1>5, <1>11, <1>13
<1>15. ASSUME NEW m \in WaitList, m # l PROVE Called(m)' = Called(m)
  <2>1. Called(m) \subseteq Thread /\ Called(m)' \subseteq Thread
    BY DEF Called
  <2>2. h \notin Called(m) /\ h \notin Called(m)'
    BY <1>10, <1>11, <1>15
  <2>3. ASSUME NEW x \in Thread PROVE x \in Called(m)' <=> x \in Called(m)
    BY <1>5, <2>2
  <2> QED
    BY <2>1, <2>3
<1> QED
  BY <1>9, <1>10, <1>12, <1>14, <1>15 DEF Wakes, On

\* Thread x has been resumed with no error.
Roused(r, x) ==
    /\ r.stat[x] = "ready" /\ ~r.timer[x] /\ r.err[x] = "EOK"
    /\ \A m \in WaitList : x \notin ToSet(r.wait[m])

(* A step of a call that wakes any number of the waiters of a list.            *)
LEMMA WakingMany ==
    ASSUME CallsInv, Call, KernelOK, Runner', \A x \in Thread : Stays(x),
           NEW l \in WaitList, NEW H, H \subseteq ToSet(k.wait[l]),
           \A h \in H : Roused(k', h),
           \A x \in Thread \ H : SameView(k', k, x)
    PROVE  /\ CallsInv'
           /\ Called(l)' = Called(l) \union H /\ H \intersect Called(l) = {}
           /\ ToSet(k'.wait[l]) = ToSet(k.wait[l]) \ H
<1>1. k \in KernelState /\ k' \in KernelState
  BY DEF CallsInv, CallsTypeOK, KernelOK
<1>2. /\ ToSet(k.wait[l]) \subseteq Thread /\ ToSet(k'.wait[l]) \subseteq Thread
      /\ H \subseteq Thread
  BY <1>1, StateFields
<1>3. ASSUME NEW h \in H
      PROVE  /\ h \in Thread /\ ThreadOK(h) /\ InWait(h) /\ k.stat[h] = "suspend"
             /\ list[h] = l
  BY <1>2 DEF CallsInv, ThreadOK, On, Waiting
<1>4. ASSUME NEW h \in H
      PROVE  ThreadOK(h)' /\ (Sweeps(h)' => Sweeps(h)) /\ InWait(h)' /\ list'[h] = l
  <2>1. /\ h \in Thread /\ ThreadOK(h) /\ InWait(h) /\ k.stat[h] = "suspend"
        /\ list[h] = l /\ Roused(k', h)
    BY <1>3
  <2>2. pc'[h] = pc[h] /\ list'[h] = l /\ InWait(h)'
    BY <2>1 DEF Stays, InWait
  <2>3. \A m \in WaitList : ~On(h, m)'
    BY <2>1 DEF Roused, On
  <2>4. ThreadOK(h)'
    BY <2>1, <2>2, <2>3 DEF ThreadOK, Waiting, Roused
  <2> QED
    BY <2>2, <2>4 DEF Sweeps
<1>5. ASSUME NEW x \in Thread \ H
      PROVE  /\ ThreadOK(x)' /\ (Sweeps(x)' => Sweeps(x))
             /\ x \in Called(l)' <=> x \in Called(l)
             /\ x \in ToSet(k'.wait[l]) <=> x \in ToSet(k.wait[l])
  BY StaysSame DEF SameView
<1>6. \A x \in Thread : ThreadOK(x)' /\ (Sweeps(x)' => Sweeps(x))
  BY <1>4, <1>5
<1>7. SweepOK' /\ (DetachTimed \/ UntimedOK')
  BY <1>6, LivingStep DEF Call
<1>8. CallsTypeOK'
  BY DEF CallsInv, CallsTypeOK, KernelOK, Call, object
<1>9. CallsInv'
  BY <1>6, <1>7, <1>8 DEF CallsInv, KernelOK, Call
<1>10. ASSUME NEW h \in H PROVE h \notin Called(l) /\ h \in Called(l)'
  BY <1>3, <1>4 DEF Called, Roused
<1>11. Called(l) \subseteq Thread /\ Called(l)' \subseteq Thread
  BY DEF Called
<1>12. Called(l)' = Called(l) \union H /\ H \intersect Called(l) = {}
  BY <1>2, <1>5, <1>10, <1>11
<1>13. ToSet(k'.wait[l]) = ToSet(k.wait[l]) \ H
  BY <1>2, <1>5 DEF Roused
<1> QED
  BY <1>9, <1>12, <1>13

(* A call that returns with an error, or clears one, having waited or not.     *)
LEMMA ErrorKeeps ==
    ASSUME CallsInv, life = "yes", UNCHANGED object, NEW t \in Thread,
           At(t, "run") \/ At(t, "woken"), NEW e \in Error,
           k' = [k EXCEPT !.err[t] = e], pc' = [pc EXCEPT ![t] = "run"],
           list' \in [Thread -> WaitList \union {"none"}],
           \A x \in Thread \ {t} : list'[x] = list[x]
    PROVE  /\ CallsInv'
           /\ \A m \in WaitList : Called(m)' = Called(m) \ {t}
           /\ k'.wait = k.wait
<1>1. /\ k \in KernelState /\ KernelConsistent(k) /\ k.nest = 0 /\ k.cur = t
      /\ k.stat[t] = "ready"
  BY DEF CallsInv, CallsTypeOK, Runner, At
<1>2. /\ k' \in KernelState
      /\ KernelConsistent(k')
      /\ k'.err = [k.err EXCEPT ![t] = e]
      /\ k'.stat = k.stat /\ k'.prio = k.prio /\ k'.cur = k.cur
      /\ k'.nest = k.nest /\ k'.timer = k.timer /\ k'.wait = k.wait
  <2>1. k' = WithError(k, t, e)
    BY DEF WithError
  <2>2. k \in KernelState /\ KernelConsistent(k)
    BY <1>1
  <2> QED
    BY ONLY <2>1, <2>2, t \in Thread, e \in Error, ErrorEffect
<1>3. /\ pc' = [x \in Thread |-> pc'[x]] /\ pc'[t] = "run"
      /\ list' \in [Thread -> WaitList \union {"none"}]
      /\ \A x \in Thread \ {t} : pc'[x] = pc[x] /\ list'[x] = list[x]
  BY DEF CallsInv
<1>4. KernelOK /\ Runner'
  BY <1>1, <1>2 DEF KernelOK, Runner
<1>5. k.err \in [Thread -> Error]
  BY <1>1, StateFields
<1>6. \A x \in Thread \ {t} : Same(x)
  BY <1>2, <1>3, <1>5 DEF Same, SameView
<1>7. \A x \in Thread \ {t} :
          /\ ThreadOK(x)'
          /\ \A m \in WaitList : x \in Called(m)' <=> x \in Called(m)
  BY <1>6, Unmoved
<1>8. ~InWait(t)' /\ ~Sweeps(t)'
  BY <1>3 DEF InWait, Sweeps
<1>9. ThreadOK(t)'
  <2>1. ThreadOK(t) /\ ~Waiting(t) /\ ~Waiting(t)'
    BY <1>1, <1>8 DEF CallsInv, Waiting
  <2>2. \A m \in WaitList : ~On(t, m)'
    BY <1>2, <2>1 DEF ThreadOK, On
  <2> QED
    BY <1>2, <1>8, <2>1, <2>2 DEF ThreadOK
<1>10. \A x \in Thread : Sweeps(x)' => Sweeps(x)
  BY <1>3, <1>8 DEF Sweeps
<1>11. SweepOK' /\ (DetachTimed \/ UntimedOK')
  BY <1>10, LivingStep
<1>12. CallsTypeOK'
  BY <1>3, <1>4 DEF CallsInv, CallsTypeOK, KernelOK, object
<1>13. CallsInv'
  BY <1>3, <1>4, <1>7, <1>9, <1>11, <1>12 DEF CallsInv, KernelOK
<1>14. ASSUME NEW m \in WaitList PROVE Called(m)' = Called(m) \ {t}
  <2>1. t \notin Called(m)' /\ Called(m) \subseteq Thread /\ Called(m)' \subseteq Thread
    BY <1>8 DEF Called
  <2> QED
    BY <1>7, <2>1
<1> QED
  BY <1>2, <1>13, <1>14

(* A thread that has released something wakes the first waiter, or nobody if   *)
(* nobody waits.                                                             *)
LEMMA WakeKeeps ==
    ASSUME CallsInv, life = "yes", UNCHANGED object, NEW t \in Thread, k.cur = t,
           ~InWait(t), NEW l \in WaitList, Wake(t, l)
    PROVE  /\ k.wait[l] = <<>> => Quiet
           /\ k.wait[l] # <<>> => CallsInv' /\ \E h \in Thread : Wakes(h, l)
<1>1. /\ k \in KernelState /\ KernelConsistent(k) /\ k.nest = 0
      /\ k.stat[t] = "ready"
  BY DEF CallsInv, CallsTypeOK, Runner, InWait
<1>2. PICK c \in {"schedule", "run"} : Leave(t, c)
  BY DEF Wake
<1>3. /\ pc' = [x \in Thread |-> pc'[x]] /\ pc'[t] = c
      /\ list' \in [Thread -> WaitList \union {"none"}]
      /\ \A x \in Thread \ {t} : pc'[x] = pc[x] /\ list'[x] = list[x]
  BY <1>2 DEF Leave, CallsInv, CallsTypeOK
<1>4. Call /\ \A x \in Thread : Stays(x)
  BY <1>3 DEF Call, Stays, InWait, Sweeps
<1>5. CASE k.wait[l] = <<>>
  <2>1. k' = k
    BY <1>5 DEF Wake
  <2>2. KernelOK /\ Runner'
    BY <1>1, <2>1 DEF KernelOK, Runner
  <2>3. \A x \in Thread : SameView(k', k, x)
    BY <2>1 DEF SameView
  <2> QED
    BY <1>4, <1>5, <2>2, <2>3, PlainCall
<1>6. CASE k.wait[l] # <<>>
  <2>1. k' = rt_ipc_list_resume(k, l)
    BY <1>6 DEF Wake
  <2>2. PICK r : r = k'
    OBVIOUS
  <2>3. PICK h \in Thread : WaiterResumed(r, h, l)
    <3>1. r = rt_ipc_list_resume(k, l) /\ k.wait[l] # <<>>
      BY <1>6, <2>1, <2>2
    <3> QED
      BY ONLY <3>1, CallsInv, l \in WaitList, FirstWaiter
  <2>4. h # t
    BY <2>3 DEF WaiterResumed, Waiting
  <2>5. KernelOK
    BY <1>1, <2>2, <2>3 DEF WaiterResumed, KernelOK
  <2>6. Runner'
    <3>1. k'.cur = t /\ k'.nest = 0 /\ SameView(k', k, t)
      BY <1>1, <2>2, <2>3, <2>4 DEF WaiterResumed
    <3> QED
      BY <1>1, <3>1 DEF Runner, SameView
  <2>7. CallsInv' /\ Wakes(h, l)
    BY <1>4, <2>2, <2>3, <2>5, <2>6, WakingCall DEF WaiterResumed
  <2> QED
    BY <1>6, <2>7
<1> QED
  BY <1>5, <1>6

(* An interrupt handler wakes the first waiter and schedules.                 *)
LEMMA IsrWakeKeeps ==
    ASSUME CallsInv, life = "yes", UNCHANGED <<pc, list, object>>,
           NEW l \in WaitList, IsrWake(l)
    PROVE  /\ k.wait[l] = <<>> => Quiet
           /\ k.wait[l] # <<>> => CallsInv' /\ \E h \in Thread : Wakes(h, l)
<1>1. k \in KernelState /\ KernelConsistent(k) /\ k.nest = 0
  BY DEF CallsInv, CallsTypeOK, Runner
<1>2. Call /\ \A x \in Thread : Stays(x)
  BY DEF Call, Stays, CallsInv, CallsTypeOK
<1>3. CASE k.wait[l] = <<>>
  <2>1. k' = k
    BY <1>3 DEF IsrWake
  <2>2. KernelOK /\ Runner'
    BY <1>1, <2>1 DEF KernelOK, Runner, CallsInv
  <2>3. \A x \in Thread : SameView(k', k, x)
    BY <2>1 DEF SameView
  <2> QED
    BY <1>2, <1>3, <2>2, <2>3, PlainCall
<1>4. CASE k.wait[l] # <<>>
  <2>1. PICK r : r = rt_ipc_list_resume(k, l)
    OBVIOUS
  <2>2. PICK h \in Thread : WaiterResumed(r, h, l)
    BY <1>4, <2>1, FirstWaiter
  <2>3. k' = rt_schedule(r)
    BY <1>4, <2>1 DEF IsrWake
  <2>4. /\ k' \in KernelState
        /\ KernelConsistent(k')
        /\ r.nest = 0 => k'.stat[k'.cur] = "ready"
        /\ k'.stat = r.stat /\ k'.prio = r.prio /\ k'.nest = r.nest
        /\ k'.err = r.err /\ k'.timer = r.timer /\ k'.wait = r.wait
    <3>1. r \in KernelState /\ KernelConsistent(r)
      BY <2>2 DEF WaiterResumed
    <3> QED
      BY ONLY <3>1, <2>3, ScheduleEffect
  <2>5. KernelOK /\ Runner'
    BY <1>1, <2>2, <2>4 DEF WaiterResumed, KernelOK, Runner
  <2>6. /\ \A m \in WaitList : ToSet(k'.wait[m]) = ToSet(k.wait[m]) \ {h}
        /\ \A x \in Thread \ {h} : SameView(k', k, x)
        /\ k'.stat[h] = "ready" /\ ~k'.timer[h] /\ k'.err[h] = "EOK"
    BY <2>2, <2>4 DEF WaiterResumed, SameView
  <2>7. CallsInv' /\ Wakes(h, l)
    BY <1>2, <2>2, <2>5, <2>6, WakingCall DEF WaiterResumed
  <2> QED
    BY <1>4, <2>7
<1> QED
  BY <1>3, <1>4

\* Thread t joins list l, and whatever it had been woken for is forgotten.
Joins(t, l) ==
    /\ \A m \in WaitList : Called(m)' = Called(m) \ {t}
    /\ \A m \in WaitList :
           ToSet(k'.wait[m]) = IF m = l THEN ToSet(k.wait[m]) \union {t}
                                        ELSE ToSet(k.wait[m])

(* A caller that finds nothing queues itself on a list, timed or not.         *)
LEMMA BlockKeeps ==
    ASSUME CallsInv, life = "yes", UNCHANGED object, NEW t \in Thread, t # Idle,
           k.cur = t, k.stat[t] = "ready", NEW l \in WaitList, NEW d, NEW s,
           s \in KernelState, KernelConsistent(s),
           s.stat = [k.stat EXCEPT ![t] = "suspend"],
           s.timer = [k.timer EXCEPT ![t] = FALSE],
           s.err = [k.err EXCEPT ![t] = "EOK"],
           s.cur = k.cur, s.nest = k.nest, WaitAdds(s, k, l, t),
           Block(t, s, l, d)
    PROVE  CallsInv' /\ Joins(t, l)
<1>1. k \in KernelState /\ k.nest = 0
  BY DEF CallsInv, CallsTypeOK, Runner
<1>2. /\ k.stat \in [Thread -> Stat] /\ k.err \in [Thread -> Error]
      /\ k.timer \in [Thread -> BOOLEAN]
  BY <1>1, StateFields
<1>3. PICK z : z = StartTimer(s, t)
  OBVIOUS
<1>4. /\ z \in KernelState
      /\ KernelConsistent(z)
      /\ z.timer = [s.timer EXCEPT ![t] = TRUE]
      /\ z.stat = s.stat /\ z.prio = s.prio /\ z.cur = s.cur
      /\ z.nest = s.nest /\ z.err = s.err /\ z.wait = s.wait
  BY <1>3, TimerEffect
<1>5. k' = s \/ k' = z
  BY <1>3 DEF Block
<1>6. /\ KernelOK /\ k'.cur = t
      /\ k'.stat = [k.stat EXCEPT ![t] = "suspend"]
      /\ k'.err = [k.err EXCEPT ![t] = "EOK"] /\ k'.wait = s.wait
      /\ \A x \in Thread \ {t} : k'.timer[x] = k.timer[x]
  <2>1. CASE k' = s
    BY <1>1, <1>2, <2>1 DEF KernelOK
  <2>2. CASE k' = z
    BY <1>1, <1>2, <1>4, <2>2 DEF KernelOK
  <2> QED
    BY <1>5, <2>1, <2>2
<1>7. \A m \in WaitList :
          ToSet(k'.wait[m]) = IF m = l THEN ToSet(k.wait[m]) \union {t}
                                       ELSE ToSet(k.wait[m])
  BY <1>6 DEF WaitAdds
<1>8. /\ pc' = [x \in Thread |-> pc'[x]] /\ pc'[t] = "wait" /\ list'[t] = l
      /\ list' \in [Thread -> WaitList \union {"none"}]
      /\ \A x \in Thread \ {t} : pc'[x] = pc[x] /\ list'[x] = list[x]
  BY DEF Block, CallsInv, CallsTypeOK
<1>9. k'.stat[t] = "suspend" /\ k'.err[t] = "EOK"
  BY <1>2, <1>6
<1>10. \A x \in Thread \ {t} : SameView(k', k, x)
  BY <1>2, <1>6, <1>7 DEF SameView
<1>11. \A m \in WaitList : On(t, m)' <=> m = l
  <2>1. \A m \in WaitList : ~On(t, m)
    BY DEF CallsInv, ThreadOK, Waiting
  <2> QED
    BY <1>7, <2>1 DEF On
<1>12. ThreadOK(t)'
  <2>1. Waiting(t)' /\ InWait(t)'
    BY <1>8, <1>9 DEF Waiting, InWait
  <2> QED
    BY <1>8, <1>9, <1>11, <2>1 DEF ThreadOK
<1>13. \A x \in Thread \ {t} :
          /\ ThreadOK(x)' /\ (Sweeps(x)' => Sweeps(x))
          /\ \A m \in WaitList : x \in Called(m)' <=> x \in Called(m)
  BY <1>8, <1>10, StaysSame DEF Stays
<1>14. \A x \in Thread : Sweeps(x)' => Sweeps(x)
  BY <1>8, <1>13 DEF Sweeps
<1>15. SweepOK' /\ (DetachTimed \/ UntimedOK')
  BY <1>14, LivingStep
<1>16. CallsTypeOK' /\ Runner'
  BY <1>6, <1>8 DEF CallsInv, CallsTypeOK, KernelOK, object, Runner
<1>17. CallsInv'
  BY <1>6, <1>8, <1>12, <1>13, <1>15, <1>16 DEF CallsInv, KernelOK
<1>18. ASSUME NEW m \in WaitList PROVE Called(m)' = Called(m) \ {t}
  <2>1. t \notin Called(m)'
    BY <1>9 DEF Called
  <2>2. Called(m) \subseteq Thread /\ Called(m)' \subseteq Thread
    BY DEF Called
  <2> QED
    BY <1>13, <2>1, <2>2
<1> QED
  BY <1>7, <1>17, <1>18 DEF Joins

(* rt_ipc_list_suspend of a caller that has cleared its error.                *)
LEMMA QueueEffect ==
    ASSUME CallsInv, NEW t \in Thread, t # Idle, k.stat[t] = "ready",
           NEW l \in WaitList, NEW f, NEW s, s = Queue(t, l, f)
    PROVE  /\ s \in KernelState /\ KernelConsistent(s)
           /\ s.stat = [k.stat EXCEPT ![t] = "suspend"]
           /\ s.timer = [k.timer EXCEPT ![t] = FALSE]
           /\ s.err = [k.err EXCEPT ![t] = "EOK"]
           /\ s.cur = k.cur /\ s.nest = k.nest /\ WaitAdds(s, k, l, t)
<1>1. k \in KernelState /\ KernelConsistent(k) /\ "EOK" \in Error
  BY DEF CallsInv, CallsTypeOK, Error
<1>2. PICK e : e = WithError(k, t, "EOK")
  OBVIOUS
<1>3. /\ e \in KernelState
      /\ KernelConsistent(e)
      /\ e.err = [k.err EXCEPT ![t] = "EOK"]
      /\ e.stat = k.stat /\ e.prio = k.prio /\ e.cur = k.cur
      /\ e.nest = k.nest /\ e.timer = k.timer /\ e.wait = k.wait
  BY <1>1, <1>2, ErrorEffect
<1>4. s = rt_ipc_list_suspend(e, l, t, f)
  BY <1>2 DEF Queue, WithError
<1>5. /\ s \in KernelState
      /\ KernelConsistent(s)
      /\ s.stat = [e.stat EXCEPT ![t] = "suspend"]
      /\ s.timer = [e.timer EXCEPT ![t] = FALSE]
      /\ s.prio = e.prio /\ s.cur = e.cur /\ s.nest = e.nest /\ s.err = e.err
      /\ WaitAdds(s, e, l, t)
  BY <1>3, <1>4, ListSuspendEffect
<1> QED
  BY <1>3, <1>5 DEF WaitAdds

\* The caller is linked in front of a list instead of where its discipline says.
FrontQueue(t, l) == LinkAt(rt_thread_suspend([k EXCEPT !.err[t] = "EOK"], t), l, 1, t)

(* What rt_mp_alloc does to a caller that has to wait.                        *)
LEMMA FrontQueueEffect ==
    ASSUME CallsInv, NEW t \in Thread, t # Idle, k.stat[t] = "ready",
           NEW l \in WaitList, NEW s,
           s = FrontQueue(t, l)
    PROVE  /\ s \in KernelState /\ KernelConsistent(s)
           /\ s.stat = [k.stat EXCEPT ![t] = "suspend"]
           /\ s.timer = [k.timer EXCEPT ![t] = FALSE]
           /\ s.err = [k.err EXCEPT ![t] = "EOK"]
           /\ s.cur = k.cur /\ s.nest = k.nest /\ WaitAdds(s, k, l, t)
<1>1. k \in KernelState /\ KernelConsistent(k) /\ "EOK" \in Error
  BY DEF CallsInv, CallsTypeOK, Error
<1>2. PICK e : e = WithError(k, t, "EOK")
  OBVIOUS
<1>3. /\ e \in KernelState
      /\ KernelConsistent(e)
      /\ e.err = [k.err EXCEPT ![t] = "EOK"]
      /\ e.stat = k.stat /\ e.prio = k.prio /\ e.cur = k.cur
      /\ e.nest = k.nest /\ e.timer = k.timer /\ e.wait = k.wait
  BY <1>1, <1>2, ErrorEffect
<1>4. PICK u : u = rt_thread_suspend(e, t)
  OBVIOUS
<1>5. s = LinkAt(u, l, 1, t)
  BY <1>2, <1>4 DEF WithError, FrontQueue
<1>6. /\ Loose(u, t)
      /\ u.stat = [e.stat EXCEPT ![t] = "suspend"]
      /\ u.timer = [e.timer EXCEPT ![t] = FALSE]
      /\ u.prio = e.prio /\ u.cur = e.cur /\ u.nest = e.nest /\ u.err = e.err
      /\ \A m \in WaitList : ToSet(u.wait[m]) = ToSet(e.wait[m])
  <2>1. e \in KernelState /\ KernelConsistent(e) /\ e.stat[t] = "ready"
    BY <1>3
  <2> QED
    BY ONLY <1>4, <2>1, t \in Thread, SuspendLoosens
<1>7. u.stat[t] # "ready" /\ u.stat[Idle] = "ready"
  BY <1>1, <1>3, <1>6, KernelAssumption DEF KernelState, KernelConsistent
<1>8. 1 \in 1 .. Len(u.wait[l]) + 1
  <2>1. u.wait[l] \in Seq(Thread)
    BY <1>6 DEF Loose, KernelState
  <2> QED
    BY <2>1
<1>9. /\ s \in KernelState /\ KernelConsistent(s) /\ SameButLists(s, u)
      /\ WaitAdds(s, u, l, t)
  <2>1. Loose(u, t)
    BY <1>6
  <2> QED
    BY <2>1, <1>5, <1>7, <1>8, WaitTightens
<1> QED
  BY <1>3, <1>6, <1>9 DEF SameButLists, WaitAdds

(* A woken caller returns: if it found no error it was one of those called.    *)
LEMMA LeaveKeeps ==
    ASSUME CallsInv, UNCHANGED <<k, object>>, NEW t \in Thread, At(t, "woken"),
           Leave(t, "run")
    PROVE  /\ CallsInv'
           /\ \A m \in WaitList : Called(m)' = Called(m) \ {t}
           /\ list[t] \in WaitList /\ (k.err[t] = "EOK" <=> t \in Called(list[t]))
           /\ \A m \in WaitList : t \in Called(m) => m = list[t]
<1>1. /\ k.cur = t /\ k.stat[t] = "ready" /\ InWait(t) /\ ThreadOK(t)
      /\ list[t] \in WaitList
  BY DEF At, CallsInv, Runner, InWait, ThreadOK
<1>2. /\ pc' = [x \in Thread |-> pc'[x]] /\ pc'[t] = "run"
      /\ list' \in [Thread -> WaitList \union {"none"}]
      /\ \A x \in Thread \ {t} : pc'[x] = pc[x] /\ list'[x] = list[x]
  BY DEF Leave, CallsInv, CallsTypeOK
<1>3. \A x \in Thread : SameView(k', k, x)
  BY DEF SameView
<1>4. ThreadOK(t)' /\ ~InWait(t)' /\ ~Waiting(t)' /\ ~Sweeps(t)'
  BY <1>1, <1>2 DEF ThreadOK, InWait, Waiting, Sweeps, On
<1>5. \A x \in Thread \ {t} :
          /\ ThreadOK(x)' /\ Sweeps(x)' = Sweeps(x) /\ Waiting(x)' = Waiting(x)
          /\ \A m \in WaitList : x \in Called(m)' <=> x \in Called(m)
  BY <1>2, <1>3, StaysSame DEF Stays, Sweeps
<1>6. SweepOK'
  BY <1>4, <1>5, DrainingStep DEF On, object
<1>7. DetachTimed \/ UntimedOK'
  <2> SUFFICES ASSUME ~DetachTimed PROVE UntimedOK'
    OBVIOUS
  <2>1. \A x \in Thread : pc'[x] = "resume" => pc[x] = "resume"
    BY <1>2
  <2> QED
    BY <1>4, <1>5, <2>1 DEF CallsInv, UntimedOK, object, On
<1>8. CallsTypeOK' /\ Runner'
  BY <1>1, <1>2 DEF CallsInv, CallsTypeOK, object, Runner
<1>9. CallsInv'
  BY <1>2, <1>4, <1>5, <1>6, <1>7, <1>8 DEF CallsInv
<1>10. ASSUME NEW m \in WaitList PROVE Called(m)' = Called(m) \ {t}
  <2>1. t \notin Called(m)'
    BY <1>4 DEF Called
  <2>2. Called(m) \subseteq Thread /\ Called(m)' \subseteq Thread
    BY DEF Called
  <2> QED
    BY <1>5, <2>1, <2>2
<1>11. k.err[t] = "EOK" <=> t \in Called(list[t])
  BY <1>1 DEF Called
<1>12. \A m \in WaitList : t \in Called(m) => m = list[t]
  BY DEF Called
<1> QED
  BY <1>1, <1>9, <1>10, <1>11, <1>12

(* A reset refuses some of the waiters.                                       *)
LEMMA RefusingCall ==
    ASSUME CallsInv, life = "yes", UNCHANGED object, NEW t \in Thread, At(t, "run"),
           Goto(t, "schedule"), NEW H, \A x \in H : x \in Thread /\ Waiting(x),
           k' \in KernelState, KernelConsistent(k'), k'.cur = k.cur, k'.nest = k.nest,
           \A x \in H : Refused(k', x), \A x \in Thread \ H : SameView(k', k, x)
    PROVE  Quiet
<1>1. k.nest = 0 /\ k.cur = t /\ k.stat[t] = "ready" /\ pc[t] = "run"
  BY DEF CallsInv, CallsTypeOK, Runner, At
<1>2. /\ pc' = [x \in Thread |-> pc'[x]] /\ pc'[t] = "schedule" /\ list' = list
      /\ \A x \in Thread \ {t} : pc'[x] = pc[x]
  BY DEF Goto, CallsInv
<1>3. \A x \in Thread : InWait(x)' = InWait(x) /\ (Sweeps(x)' => Sweeps(x) /\ pc'[x] = pc[x])
  BY <1>1, <1>2 DEF InWait, Sweeps
<1>4. KernelOK /\ Runner'
  <2>1. t \notin H
    BY <1>1 DEF Waiting
  <2> QED
    BY <1>1, <2>1 DEF KernelOK, Runner, SameView
<1>5. ASSUME NEW x \in Thread PROVE Quietly(x)
  <2>1. ThreadOK(x)
    BY DEF CallsInv
  <2>2. CASE x \in H
    <3>1. Refused(k', x) /\ Waiting(x)
      BY <2>2
    <3>2. \A m \in WaitList : ~On(x, m)'
      BY <3>1 DEF Refused, On
    <3>3. ThreadOK(x)' /\ ~Waiting(x)'
      BY <1>2, <1>3, <2>1, <3>1, <3>2 DEF ThreadOK, Waiting, Refused
    <3>4. \A m \in WaitList : x \notin Called(m) /\ x \notin Called(m)'
      BY <3>1 DEF Called, Waiting, Refused
    <3> QED
      BY <1>3, <3>2, <3>3, <3>4 DEF Quietly
  <2>3. CASE x \notin H
    <3>1. SameView(k', k, x)
      BY <2>3
    <3>2. Stays(x)
      BY <1>1, <1>2, <1>3 DEF Stays, InWait, Sweeps
    <3> QED
      BY <3>1, <3>2, StaysSame DEF Quietly, SameView
  <2> QED
    BY <2>2, <2>3
<1> QED
  BY <1>2, <1>4, <1>5, QuietStep DEF CallsInv, CallsTypeOK

(* A list whose waiters are all refused is empty.                             *)
LEMMA RefusedList ==
    ASSUME CallsInv, Quiet, NEW l \in WaitList, \A x \in ToSet(k.wait[l]) : Refused(k', x)
    PROVE  k'.wait[l] = <<>>
<1>1. ToSet(k'.wait[l]) \subseteq ToSet(k.wait[l])
  BY DEF Quiet, NobodyJoins
<1>2. ToSet(k'.wait[l]) = {}
  BY <1>1 DEF Refused
<1>3. k'.wait[l] \in Seq(Thread)
  BY StateFields DEF Quiet, CallsInv, CallsTypeOK
<1> QED
  BY <1>2, <1>3, EmptyList

(* A reset refuses every waiter of a list.                                    *)
LEMMA ResumeAllKeeps ==
    ASSUME CallsInv, life = "yes", UNCHANGED object, NEW t \in Thread, At(t, "run"),
           Goto(t, "schedule"), NEW l \in WaitList, k' = rt_ipc_list_resume_all(k, l)
    PROVE  Quiet /\ k'.wait[l] = <<>>
<1>1. /\ k \in KernelState /\ KernelConsistent(k)
      /\ k.wait[l] \in Seq(Thread) /\ ToSet(k.wait[l]) \subseteq Thread
  BY StateFields DEF CallsInv, CallsTypeOK
<1>2. \A x \in ToSet(k.wait[l]) : x \in Thread /\ Waiting(x) /\ k.stat[x] = "suspend"
  BY <1>1 DEF CallsInv, ThreadOK, On, Waiting
<1>3. /\ k' \in KernelState
      /\ KernelConsistent(k')
      /\ k'.prio = k.prio /\ k'.cur = k.cur /\ k'.nest = k.nest
      /\ \A x \in ToSet(k.wait[l]) : Refused(k', x)
      /\ \A x \in Thread \ ToSet(k.wait[l]) : SameView(k', k, x)
  <2>1. \A x \in ToSet(k.wait[l]) : k.stat[x] = "suspend"
    BY <1>2
  <2>2. k \in KernelState /\ KernelConsistent(k)
    BY <1>1
  <2> QED
    BY ONLY <2>1, <2>2, l \in WaitList, k' = rt_ipc_list_resume_all(k, l), ResumeAllEffect
<1>4. Quiet
  BY <1>2, <1>3, RefusingCall
<1> QED
  BY <1>3, <1>4, RefusedList

(* The start.                                                               *)
LEMMA CallsStart ==
    ASSUME CallsInit
    PROVE  /\ CallsInv /\ \A l \in WaitList : Called(l) = {} /\ k.wait[l] = <<>>
           /\ \A t \in Thread : pc[t] = "run" /\ list[t] = "none"
<1>1. /\ k \in KernelState /\ KernelConsistent(k) /\ k.nest = 0
      /\ \A t \in Thread : k.stat[t] = "ready" /\ ~k.timer[t]
      /\ \A l \in WaitList : k.wait[l] = <<>>
  BY InitEffect DEF CallsInit
<1>2. \A t \in Thread : \A l \in WaitList : ~On(t, l)
  BY <1>1, StateFields, EmptyList DEF On
<1>3. \A t \in Thread : pc[t] = "run" /\ ~InWait(t) /\ ~Sweeps(t) /\ list[t] = "none"
  BY DEF CallsInit, InWait, Sweeps
<1>4. \A t \in Thread : ThreadOK(t)
  BY <1>1, <1>2, <1>3 DEF ThreadOK, Waiting
<1>5. SweepOK /\ UntimedOK
  BY <1>3 DEF SweepOK, UntimedOK, CallsInit
<1>6. CallsTypeOK /\ Runner
  <2>1. k.cur \in Thread
    BY <1>1, StateFields
  <2>2. list \in [Thread -> WaitList \union {"none"}] /\ sweep \in Seq(WaitList)
    BY DEF CallsInit
  <2> QED
    BY <1>1, <2>1, <2>2 DEF CallsTypeOK, Runner, CallsInit
<1>7. CallsInv
  BY <1>1, <1>4, <1>5, <1>6 DEF CallsInv, CallsInit
<1>8. \A l \in WaitList : Called(l) = {}
  BY <1>3 DEF Called
<1> QED
  BY <1>1, <1>3, <1>7, <1>8

(* Nothing happens.                                                         *)
LEMMA CallsStutter ==
    ASSUME CallsInv, UNCHANGED calls PROVE Quiet
BY DEF CallsInv, calls, object, CallsTypeOK, Runner, ThreadOK, SweepOK, UntimedOK, On,
       Waiting, InWait, Sweeps, Quiet, SameCalled, NobodyJoins, Called

(* NobodyForgotten is a consequence of the invariant.                         *)
LEMMA NothingForgotten ==
    ASSUME CallsInv
    PROVE  /\ WaitersAreQueued /\ DetachedIsEmpty
           /\ DetachTimed \/ ResumesThreads
<1>1. WaitersAreQueued
  BY DEF CallsInv, ThreadOK, Waiting, On, WaitersAreQueued
<1>2. ASSUME life = "no", NEW l \in WaitList PROVE k.wait[l] = <<>>
  <2>1. k.wait[l] \in Seq(Thread) /\ ToSet(k.wait[l]) \subseteq Thread
    BY StateFields DEF CallsInv, CallsTypeOK
  <2>2. ToSet(k.wait[l]) = {}
    BY <1>2, <2>1 DEF CallsInv, SweepOK, On
  <2> QED
    BY <2>1, <2>2, EmptyList
<1> QED
  BY <1>1, <1>2 DEF DetachedIsEmpty, ResumesThreads, CallsInv, UntimedOK

\* The calls wait on no list but l.
Uses(l) == \A t \in Thread : list[t] \in {l, "none"}

(* Nobody is on another list.                                                *)
LEMMA UsesOne ==
    ASSUME CallsInv, NEW l \in WaitList, Uses(l)
    PROVE  \A x \in Thread, m \in WaitList : On(x, m) => m = l
BY CallsAssumption DEF CallsInv, ThreadOK, Uses

(* The points a thread in the middle of a call goes to.                       *)
LEMMA CallStepsPoints ==
    ASSUME CallsInv, NEW t \in Thread, CallSteps(t), NEW P, CallPoint \subseteq P,
           pc \in [Thread -> P]
    PROVE  /\ pc' \in [Thread -> P] /\ list' = list
           /\ \A x \in Thread : InWait(x)' = InWait(x)
           /\ \A x \in Thread : pc'[x] = pc[x] \/ {pc[x], pc'[x]} \subseteq CallPoint
<1>1. k.nest = 0
  BY DEF CallsInv, Runner
<1>2. /\ list' = list
      /\ \/ pc[t] = "wait" /\ pc' = [pc EXCEPT ![t] = "woken"]
         \/ pc[t] = "schedule" /\ pc' = [pc EXCEPT ![t] = "run"]
         \/ pc[t] = "test" /\ pc' = [pc EXCEPT ![t] = "resume"]
         \/ pc[t] = "test" /\ pc' = [pc EXCEPT ![t] = "run"]
         \/ pc' = pc
         \/ pc[t] = "resume" /\ pc' = [pc EXCEPT ![t] = "test"]
  BY <1>1 DEF CallSteps, WaitSchedule, LastSchedule, SweepTest, SweepResume, SweepEnd,
              At, Goto
<1>3. pc' \in [Thread -> P]
  BY <1>2 DEF CallPoint
<1>4. \A x \in Thread : InWait(x)' = InWait(x)
  BY <1>2 DEF InWait
<1>5. \A x \in Thread : pc'[x] = pc[x] \/ {pc[x], pc'[x]} \subseteq CallPoint
  BY <1>2 DEF CallPoint
<1> QED
  BY <1>2, <1>3, <1>4, <1>5

(* Sleeping, slices and timers move no thread inside its call.                 *)
LEMMA BackgroundPoints ==
    ASSUME Background
    PROVE  /\ pc' = pc /\ list' = list /\ UNCHANGED object
           /\ \A x \in Thread : InWait(x)' = InWait(x)
BY DEF Background, InWait

(* Those who were called are threads, so there are finitely many of them.      *)
LEMMA CalledFinite ==
    ASSUME NEW l
    PROVE  Called(l) \subseteq Thread /\ IsFiniteSet(Called(l)) /\ Cardinality(Called(l)) \in Nat
<1>1. Called(l) \subseteq Thread
  BY DEF Called
<1> QED
  BY <1>1, KernelAssumption, FS_Subset, FS_CardinalityType
=============================================================================
