----------------------------- MODULE MutexProofs -----------------------------
(***************************************************************************)
(* The safety properties of Mutex.tla, for any number of threads, mutexes, *)
(* priorities and levels.                                                  *)
(*                                                                         *)
(* They are not inductive by themselves: that a thread told RT_EOK owns    *)
(* the mutex depends on what rt_mutex_release and the timer leave in the   *)
(* thread's error field while the thread is not running.  IInv adds those  *)
(* facts: who may run (Runner), which timers are active (Timers) and what  *)
(* a thread inside rt_mutex_take will find when it returns (Calls).        *)
(***************************************************************************)
EXTENDS Mutex, KernelProofs

\* The scheduler is never locked here; the running thread is READY, or has
\* just suspended itself in rt_mutex_take.
Runner ==
    /\ k.nest = 0
    /\ k.stat[k.cur] = "ready" \/ pc[k.cur] = "take"

\* Started threads are READY or suspended; only a suspended one has an active
\* timer.
Timers ==
    \A t \in Thread :
        /\ k.stat[t] \in {"ready", "suspend"}
        /\ k.timer[t] => k.stat[t] = "suspend"

\* A thread inside rt_mutex_take that still waits has no error yet and does not
\* own the mutex; one that was woken has no error exactly if it was made owner.
Calls ==
    \A t \in Thread : pc[t] \in {"take", "taken"} =>
        /\ t # Idle
        /\ arg[t] \in Mutex
        /\ held[t][arg[t]] = 0
        /\ k.stat[t] = "suspend" => owner[arg[t]] # t /\ k.err[t] = "EOK"
        /\ k.stat[t] = "ready" => (k.err[t] = "EOK" <=> owner[arg[t]] = t)

IInv ==
    /\ TypeOK /\ KernelConsistent(k)
    /\ FieldsAgree /\ ReturnedMeansOwned /\ WaitersAreQueued
    /\ Runner /\ Timers /\ Calls

(* The parts of a kernel state that the mutex properties read.              *)
LEMMA FieldTypes ==
    ASSUME NEW r, r \in KernelState
    PROVE  /\ r.stat \in [Thread -> Stat] /\ r.prio \in [Thread -> Priority]
           /\ r.err \in [Thread -> Error] /\ r.timer \in [Thread -> BOOLEAN]
           /\ r.cur \in Thread
           /\ \A m \in Mutex : r.wait[m] \in Seq(Thread)
BY MutexAssumption DEF KernelState

(* Wait lists that only lose threads keep FieldsAgree.                      *)
LEMMA FieldsAgreeFrame ==
    ASSUME FieldsAgree, UNCHANGED mutex, k \in KernelState, k' \in KernelState,
           \A m \in Mutex : ToSet(k'.wait[m]) \subseteq ToSet(k.wait[m])
    PROVE  FieldsAgree'
<1>1. ASSUME NEW m \in Mutex, k.wait[m] = <<>> PROVE k'.wait[m] = <<>>
  <2>1. k.wait[m] \in Seq(Thread) /\ k'.wait[m] \in Seq(Thread)
    BY FieldTypes
  <2>2. ToSet(k.wait[m]) = {}
    BY <1>1, <2>1, EmptyList
  <2>3. ToSet(k'.wait[m]) = {}
    BY <2>2
  <2>4. QED
    BY <2>1, <2>3, EmptyList
<1>2. QED
  BY <1>1 DEF FieldsAgree, mutex

(* The start.                                                               *)
LEMMA InitHolds == Init => IInv
<1> SUFFICES ASSUME Init PROVE IInv
  OBVIOUS
<1>1. /\ k \in KernelState /\ KernelConsistent(k) /\ k.nest = 0
      /\ \A t \in Thread : k.stat[t] = "ready" /\ ~k.timer[t]
      /\ \A l \in Mutex : k.wait[l] = <<>>
  BY InitEffect, MutexAssumption DEF Init
<1>2. TypeOK
  BY <1>1, MutexAssumption DEF TypeOK, Init, PC
<1>3. FieldsAgree
  BY <1>1, MutexAssumption DEF FieldsAgree, Init
<1>4. ReturnedMeansOwned
  BY MutexAssumption DEF ReturnedMeansOwned, Init
<1>5. WaitersAreQueued
  <2>1. \A m \in Mutex : ToSet(k.wait[m]) = {}
    BY <1>1, EmptyList, FieldTypes
  <2>2. QED
    BY <1>1, <2>1 DEF WaitersAreQueued
<1>6. Runner /\ Timers /\ Calls
  BY <1>1, FieldTypes DEF Runner, Timers, Calls, Init
<1>7. QED
  BY <1>1, <1>2, <1>3, <1>4, <1>5, <1>6 DEF IInv

(* The timer of a waiting or sleeping thread expires.                       *)
LEMMA TimeoutHolds ==
    ASSUME IInv, NEW u \in Thread, Timeout(u) PROVE IInv'
<1>0. /\ k \in KernelState /\ KernelConsistent(k) /\ k.nest = 0
      /\ k.stat[u] = "suspend" /\ k' = rt_thread_timeout(k, u)
      /\ UNCHANGED <<mutex, pc, arg, held>>
  BY DEF IInv, TypeOK, Timeout, Timers, Runner
<1>1. /\ k' \in KernelState
      /\ KernelConsistent(k')
      /\ k.nest = 0 => k'.stat[k'.cur] = "ready"
      /\ k'.stat = [k.stat EXCEPT ![u] = "ready"]
      /\ k'.timer = [k.timer EXCEPT ![u] = FALSE]
      /\ k'.err = [k.err EXCEPT ![u] = "ETIMEOUT"]
      /\ k'.prio = k.prio /\ k'.nest = k.nest
      /\ WaitDrops(k', k, u)
  <2>1. /\ k \in KernelState /\ KernelConsistent(k) /\ k.stat[u] = "suspend"
        /\ k' = rt_thread_timeout(k, u)
    BY <1>0
  <2>2. QED
    BY ONLY <2>1, u \in Thread, TimeoutEffect
<1>2. \A m \in Mutex : ToSet(k'.wait[m]) = ToSet(k.wait[m]) \ {u}
  BY <1>1, MutexAssumption DEF WaitDrops
<1>3. /\ k.stat \in [Thread -> Stat] /\ k.err \in [Thread -> Error]
      /\ k.timer \in [Thread -> BOOLEAN]
  BY <1>0, FieldTypes
<1>4. TypeOK'
  BY <1>0, <1>1 DEF IInv, TypeOK, mutex
<1>5. FieldsAgree'
  BY <1>0, <1>1, <1>2, FieldsAgreeFrame DEF IInv
<1>6. ReturnedMeansOwned'
  BY <1>0, <1>1, <1>3 DEF IInv, ReturnedMeansOwned, Calls, mutex
<1>7. WaitersAreQueued'
  BY <1>0, <1>1, <1>2, <1>3 DEF IInv, WaitersAreQueued
<1>8. Runner' /\ Timers'
  BY <1>0, <1>1, <1>3 DEF IInv, Runner, Timers
<1>9. Calls'
  BY <1>0, <1>1, <1>3 DEF IInv, Calls, mutex
<1>10. QED
  BY <1>1, <1>4, <1>5, <1>6, <1>7, <1>8, <1>9 DEF IInv

(* The end of a time slice.                                                 *)
LEMMA SliceEndHolds ==
    ASSUME IInv, SliceEnd PROVE IInv'
<1> DEFINE s == Requeue(k)
<1>0. /\ k \in KernelState /\ KernelConsistent(k) /\ k.nest = 0 /\ Yields(k)
      /\ k' = rt_schedule(s)
      /\ UNCHANGED <<mutex, pc, arg, held>>
  BY DEF IInv, TypeOK, SliceEnd, Runner
<1>1. /\ s \in KernelState
      /\ KernelConsistent(s)
      /\ s.stat = k.stat /\ s.prio = k.prio /\ s.cur = k.cur
      /\ s.nest = k.nest /\ s.err = k.err /\ s.timer = k.timer
      /\ s.wait = k.wait
  BY <1>0, RequeueEffect
<1> HIDE DEF s
<1>2. /\ k' \in KernelState
      /\ KernelConsistent(k')
      /\ s.nest = 0 => k'.stat[k'.cur] = "ready"
      /\ k'.stat = s.stat /\ k'.prio = s.prio /\ k'.nest = s.nest
      /\ k'.err = s.err /\ k'.timer = s.timer /\ k'.wait = s.wait
  BY ONLY <1>0, <1>1, ScheduleEffect
<1>3. TypeOK'
  BY <1>0, <1>2 DEF IInv, TypeOK, mutex
<1>4. FieldsAgree' /\ ReturnedMeansOwned'
  BY <1>0, <1>1, <1>2 DEF IInv, FieldsAgree, ReturnedMeansOwned, mutex
<1>5. WaitersAreQueued'
  BY <1>0, <1>1, <1>2 DEF IInv, WaitersAreQueued
<1>6. Runner' /\ Timers'
  BY <1>0, <1>1, <1>2 DEF IInv, Runner, Timers
<1>7. Calls'
  BY <1>0, <1>1, <1>2 DEF IInv, Calls, mutex
<1>8. QED
  BY <1>2, <1>3, <1>4, <1>5, <1>6, <1>7 DEF IInv

(* A thread goes to sleep.                                                  *)
LEMMA SleepHolds ==
    ASSUME IInv, NEW t \in Thread, rt_thread_sleep(t) PROVE IInv'
<1> DEFINE s == rt_thread_suspend(k, t)
           z == StartTimer(s, t)
<1>0. /\ k \in KernelState /\ KernelConsistent(k) /\ k.nest = 0
      /\ t # Idle /\ k.cur = t /\ pc[t] = "run" /\ k.stat[t] = "ready"
      /\ k' = rt_schedule(z)
      /\ UNCHANGED <<mutex, pc, arg, held>>
  BY DEF IInv, TypeOK, rt_thread_sleep, Runner, At
<1>1. /\ s \in KernelState
      /\ KernelConsistent(s)
      /\ s.stat = [k.stat EXCEPT ![t] = "suspend"]
      /\ s.timer = [k.timer EXCEPT ![t] = FALSE]
      /\ s.prio = k.prio /\ s.cur = k.cur /\ s.nest = k.nest /\ s.err = k.err
      /\ SameWaits(s, k)
  BY <1>0, SuspendEffect
<1> HIDE DEF s
<1>2. /\ z \in KernelState
      /\ KernelConsistent(z)
      /\ z.timer = [s.timer EXCEPT ![t] = TRUE]
      /\ z.stat = s.stat /\ z.prio = s.prio /\ z.cur = s.cur
      /\ z.nest = s.nest /\ z.err = s.err /\ z.wait = s.wait
  BY <1>1, TimerEffect
<1> HIDE DEF z
<1>3. /\ k' \in KernelState
      /\ KernelConsistent(k')
      /\ z.nest = 0 => k'.stat[k'.cur] = "ready"
      /\ k'.stat = z.stat /\ k'.prio = z.prio /\ k'.nest = z.nest
      /\ k'.err = z.err /\ k'.timer = z.timer /\ k'.wait = z.wait
  BY ONLY <1>0, <1>2, ScheduleEffect
<1>4. \A m \in Mutex : ToSet(k'.wait[m]) = ToSet(k.wait[m])
  BY <1>1, <1>2, <1>3, MutexAssumption DEF SameWaits
<1>5. /\ k.stat \in [Thread -> Stat] /\ k.err \in [Thread -> Error]
      /\ k.timer \in [Thread -> BOOLEAN]
  BY <1>0, FieldTypes
<1>6. /\ k'.stat = [k.stat EXCEPT ![t] = "suspend"] /\ k'.err = k.err
      /\ \A x \in Thread \ {t} : k'.timer[x] = k.timer[x]
  BY <1>1, <1>2, <1>3, <1>5
<1>7. TypeOK'
  BY <1>0, <1>3 DEF IInv, TypeOK, mutex
<1>8. FieldsAgree'
  BY <1>0, <1>3, <1>4, FieldsAgreeFrame DEF IInv
<1>9. ReturnedMeansOwned'
  BY <1>0, <1>5, <1>6 DEF IInv, ReturnedMeansOwned, mutex
<1>10. WaitersAreQueued'
  BY <1>0, <1>4, <1>5, <1>6 DEF IInv, WaitersAreQueued
<1>11. Runner' /\ Timers'
  BY <1>0, <1>1, <1>2, <1>3, <1>5, <1>6 DEF IInv, Runner, Timers
<1>12. Calls'
  BY <1>0, <1>5, <1>6 DEF IInv, Calls, mutex
<1>13. QED
  BY <1>3, <1>7, <1>8, <1>9, <1>10, <1>11, <1>12 DEF IInv

(* A caller of take or release reaches its rt_schedule.                     *)
LEMMA ScheduleHolds ==
    ASSUME IInv, NEW t \in Thread, TakeSchedule(t) \/ ReleaseSchedule(t)
    PROVE  IInv'
<1>0. /\ k \in KernelState /\ KernelConsistent(k) /\ k.nest = 0
      /\ k' = rt_schedule(k) /\ UNCHANGED <<mutex, held>>
  BY DEF IInv, TypeOK, Runner, TakeSchedule, ReleaseSchedule
<1>1. /\ k' \in KernelState
      /\ KernelConsistent(k')
      /\ k.nest = 0 => k'.stat[k'.cur] = "ready"
      /\ k'.stat = k.stat /\ k'.prio = k.prio /\ k'.nest = k.nest
      /\ k'.err = k.err /\ k'.timer = k.timer /\ k'.wait = k.wait
  BY ONLY <1>0, ScheduleEffect
<1>2. /\ pc \in [Thread -> PC] /\ arg \in [Thread -> Mutex \union {Null}]
  BY DEF IInv, TypeOK
<1>3. \/ /\ pc[t] = "take" /\ pc' = [pc EXCEPT ![t] = "taken"] /\ arg' = arg
      \/ /\ pc[t] = "schedule" /\ pc' = [pc EXCEPT ![t] = "run"]
         /\ arg' = [arg EXCEPT ![t] = Null]
  BY <1>2 DEF TakeSchedule, ReleaseSchedule, At, Goto
<1>4. \A x \in Thread :
          /\ pc'[x] \in {"take", "taken"} <=> pc[x] \in {"take", "taken"}
          /\ pc[x] \in {"take", "taken"} => arg'[x] = arg[x]
  BY <1>2, <1>3
<1>5. TypeOK'
  BY <1>0, <1>1, <1>2, <1>3 DEF IInv, TypeOK, mutex, PC
<1>6. FieldsAgree'
  BY <1>0, <1>1 DEF IInv, FieldsAgree, mutex
<1>7. ReturnedMeansOwned'
  BY <1>0, <1>1, <1>4 DEF IInv, ReturnedMeansOwned, mutex
<1>8. WaitersAreQueued'
  BY <1>1, <1>4 DEF IInv, WaitersAreQueued
<1>9. Runner' /\ Timers'
  BY <1>0, <1>1 DEF IInv, Runner, Timers
<1>10. Calls'
  BY <1>0, <1>1, <1>4 DEF IInv, Calls, mutex
<1>11. QED
  BY <1>1, <1>5, <1>6, <1>7, <1>8, <1>9, <1>10 DEF IInv

(* rt_mutex_take returns to a caller that had to wait: if it finds no error *)
(* it owns the mutex, at level 1.                                           *)
LEMMA TakeReturnHolds ==
    ASSUME IInv, NEW t \in Thread, TakeReturn(t) PROVE IInv'
<1> DEFINE m == arg[t]
<1>0. /\ k' = k /\ UNCHANGED mutex /\ k.cur = t /\ pc[t] = "taken"
      /\ pc' = [pc EXCEPT ![t] = "run"] /\ arg' = [arg EXCEPT ![t] = Null]
  BY DEF TakeReturn, At, Goto
<1>1. /\ pc \in [Thread -> PC] /\ arg \in [Thread -> Mutex \union {Null}]
      /\ held \in [Thread -> [Mutex -> 0 .. HoldMax]]
      /\ hold \in [Mutex -> 0 .. HoldMax]
  BY DEF IInv, TypeOK
<1>2. /\ k.stat[t] = "ready" /\ m \in Mutex /\ held[t][m] = 0
      /\ k.err[t] = "EOK" <=> owner[m] = t
  BY <1>0 DEF IInv, Runner, Calls
<1>3. held' = IF owner[m] = t THEN [held EXCEPT ![t][m] = 1] ELSE held
  <2>1. CASE owner[m] = t
    BY <1>1, <1>2, <2>1 DEF TakeReturn, Gained
  <2>2. CASE owner[m] # t
    BY <1>2, <2>2 DEF TakeReturn
  <2>3. QED
    BY <2>1, <2>2
<1>4. owner[m] = t => hold[m] = 1
  <2>1. m \in Mutex /\ hold[m] \in 0 .. HoldMax
    BY <1>1, <1>2
  <2>2. owner[m] = t => held[t][m] = hold[m] \/ hold[m] = 1
    BY <1>2 DEF IInv, ReturnedMeansOwned
  <2>3. owner[m] = t => hold[m] # 0
    BY <1>2, MutexAssumption DEF IInv, FieldsAgree
  <2>4. QED
    BY <1>2, <2>1, <2>2, <2>3
<1> HIDE DEF m
<1>5. \A x \in Thread, n \in Mutex :
          held'[x][n] = IF x = t /\ n = m /\ owner[m] = t THEN 1 ELSE held[x][n]
  BY <1>1, <1>2, <1>3
<1>6. TypeOK'
  <2>1. held' \in [Thread -> [Mutex -> 0 .. HoldMax]]
    BY <1>1, <1>2, <1>3, MutexAssumption
  <2>2. QED
    BY <1>0, <1>1, <2>1 DEF IInv, TypeOK, mutex, PC
<1>7. FieldsAgree'
  BY <1>0 DEF IInv, FieldsAgree, mutex
<1>8. ReturnedMeansOwned'
  BY <1>0, <1>1, <1>2, <1>4, <1>5 DEF IInv, ReturnedMeansOwned, mutex, m
<1>9. WaitersAreQueued'
  BY <1>0, <1>1, <1>2 DEF IInv, WaitersAreQueued
<1>10. Runner' /\ Timers'
  BY <1>0, <1>2 DEF IInv, Runner, Timers
<1>11. Calls'
  BY <1>0, <1>1, <1>5 DEF IInv, Calls, mutex
<1>12. QED
  BY <1>0, <1>6, <1>7, <1>8, <1>9, <1>10, <1>11 DEF IInv

(* What is known of the running thread when it calls take or release.       *)
LEMMA Caller ==
    ASSUME IInv, NEW t \in Thread, At(t, "run")
    PROVE  /\ k \in KernelState /\ KernelConsistent(k) /\ k.nest = 0
           /\ k.cur = t /\ pc[t] = "run" /\ k.stat[t] = "ready"
           /\ value \in [Mutex -> {0, 1}]
           /\ owner \in [Mutex -> Thread \union {Null}]
           /\ original_priority \in [Mutex -> Priority \union {NoPrio}]
           /\ hold \in [Mutex -> 0 .. HoldMax]
           /\ pc \in [Thread -> PC] /\ arg \in [Thread -> Mutex \union {Null}]
           /\ held \in [Thread -> [Mutex -> 0 .. HoldMax]]
           /\ k.stat \in [Thread -> Stat] /\ k.err \in [Thread -> Error]
           /\ k.timer \in [Thread -> BOOLEAN] /\ k.prio \in [Thread -> Priority]
           /\ \A m \in Mutex : owner[m] = t => held[t][m] = hold[m] /\ hold[m] > 0
<1>1. /\ k \in KernelState /\ KernelConsistent(k) /\ k.nest = 0
      /\ k.cur = t /\ pc[t] = "run" /\ k.stat[t] = "ready"
  BY DEF IInv, TypeOK, At, Runner
<1>2. ASSUME NEW m \in Mutex, owner[m] = t PROVE held[t][m] = hold[m] /\ hold[m] > 0
  <2>1. held[t][m] = hold[m]
    BY <1>1, <1>2 DEF IInv, ReturnedMeansOwned
  <2>2. hold[m] # 0 /\ hold[m] \in 0 .. HoldMax
    BY <1>2, MutexAssumption DEF IInv, FieldsAgree, TypeOK
  <2>3. QED
    BY <2>1, <2>2, MutexAssumption
<1>3. QED
  BY <1>1, <1>2, FieldTypes DEF IInv, TypeOK

(* Steps of the running thread that touch only its own error field and the   *)
(* level of a mutex: what they leave as it was.                             *)
LEMMA OwnErrorFrame ==
    ASSUME IInv, NEW t \in Thread, At(t, "run"), NEW e \in Error,
           k' = WithError(k, t, e), UNCHANGED <<pc, arg>>
    PROVE  /\ k' \in KernelState /\ KernelConsistent(k')
           /\ k'.stat = k.stat /\ k'.wait = k.wait
           /\ \A x \in Thread : pc[x] # "run" => k'.err[x] = k.err[x]
           /\ WaitersAreQueued' /\ Runner' /\ Timers'
<1>1. /\ k \in KernelState /\ KernelConsistent(k) /\ k.nest = 0
      /\ k.cur = t /\ pc[t] = "run" /\ k.stat[t] = "ready"
      /\ k.err \in [Thread -> Error]
  BY Caller
<1>2. /\ k' \in KernelState
      /\ KernelConsistent(k')
      /\ k'.err = [k.err EXCEPT ![t] = e]
      /\ k'.stat = k.stat /\ k'.prio = k.prio /\ k'.cur = k.cur
      /\ k'.nest = k.nest /\ k'.timer = k.timer /\ k'.wait = k.wait
  BY ONLY <1>1, k' = WithError(k, t, e), t \in Thread, e \in Error, ErrorEffect
<1>3. \A x \in Thread : pc[x] # "run" => k'.err[x] = k.err[x]
  BY <1>1, <1>2
<1>4. WaitersAreQueued'
  BY <1>2 DEF IInv, WaitersAreQueued
<1>5. Runner' /\ Timers'
  BY <1>1, <1>2 DEF IInv, Runner, Timers
<1>6. QED
  BY <1>2, <1>3, <1>4, <1>5

(* The owner takes its mutex once more.                                     *)
LEMMA TakeAgainHolds ==
    ASSUME IInv, NEW t \in Thread, NEW m \in Mutex, At(t, "run"), TakeAgain(t, m)
    PROVE  IInv'
<1>1. /\ pc[t] = "run"
      /\ hold \in [Mutex -> 0 .. HoldMax]
      /\ held \in [Thread -> [Mutex -> 0 .. HoldMax]]
      /\ owner[m] = t /\ held[t][m] = hold[m] /\ hold[m] > 0
  BY Caller DEF TakeAgain
<1>2. /\ k' \in KernelState /\ KernelConsistent(k')
      /\ k'.stat = k.stat /\ k'.wait = k.wait
      /\ \A x \in Thread : pc[x] # "run" => k'.err[x] = k.err[x]
      /\ WaitersAreQueued' /\ Runner' /\ Timers'
  BY OwnErrorFrame DEF TakeAgain, Cleared, Error, WithError
<1>3. UNCHANGED <<value, owner, original_priority, pc, arg>>
  BY DEF TakeAgain
<1>4. /\ \A n \in Mutex : n # m => hold'[n] = hold[n]
      /\ \A x \in Thread, n \in Mutex : <<x, n>> # <<t, m>> => held'[x][n] = held[x][n]
      /\ held'[t][m] = hold'[m] /\ hold'[m] > 0
  BY <1>1 DEF TakeAgain, Gained
<1>5. TypeOK'
  <2>1. /\ hold' \in [Mutex -> 0 .. HoldMax]
        /\ held' \in [Thread -> [Mutex -> 0 .. HoldMax]]
    <3>1. CASE hold[m] < HoldMax
      <4>1. hold[m] + 1 \in 0 .. HoldMax /\ held[t][m] + 1 \in 0 .. HoldMax
        BY <1>1, <3>1, MutexAssumption
      <4>2. QED
        BY <1>1, <3>1, <4>1 DEF TakeAgain, Gained
    <3>2. CASE ~(hold[m] < HoldMax)
      BY <1>1, <3>2 DEF TakeAgain
    <3>3. QED
      BY <3>1, <3>2
  <2>2. QED
    BY <1>2, <1>3, <2>1 DEF IInv, TypeOK
<1>6. FieldsAgree'
  BY <1>1, <1>2, <1>3, <1>4, MutexAssumption DEF IInv, FieldsAgree
<1>7. ReturnedMeansOwned'
  BY <1>1, <1>2, <1>3, <1>4 DEF IInv, ReturnedMeansOwned
<1>8. Calls'
  BY <1>1, <1>2, <1>3, <1>4 DEF IInv, Calls
<1>9. QED
  BY <1>2, <1>5, <1>6, <1>7, <1>8 DEF IInv

(* A thread takes a free mutex.                                             *)
LEMMA TakeFreeHolds ==
    ASSUME IInv, NEW t \in Thread, NEW m \in Mutex, At(t, "run"), TakeFree(t, m)
    PROVE  IInv'
<1>1. /\ pc[t] = "run" /\ k.prio[t] \in Priority
      /\ value \in [Mutex -> {0, 1}]
      /\ owner \in [Mutex -> Thread \union {Null}]
      /\ original_priority \in [Mutex -> Priority \union {NoPrio}]
      /\ hold \in [Mutex -> 0 .. HoldMax]
      /\ held \in [Thread -> [Mutex -> 0 .. HoldMax]]
  BY Caller
<1>2. value[m] = 1 /\ owner[m] = Null /\ hold[m] = 0
  BY <1>1 DEF TakeFree, IInv, FieldsAgree
<1>3. ASSUME NEW x \in Thread PROVE held[x][m] = 0
  <2>1. owner[m] # x
    BY <1>2, MutexAssumption
  <2>2. held[x][m] \in 0 .. HoldMax /\ ~(held[x][m] > 0)
    BY <1>1, <2>1 DEF IInv, ReturnedMeansOwned
  <2>3. QED
    BY <2>2, MutexAssumption
<1>4. /\ k' \in KernelState /\ KernelConsistent(k')
      /\ k'.stat = k.stat /\ k'.wait = k.wait
      /\ \A x \in Thread : pc[x] # "run" => k'.err[x] = k.err[x]
      /\ WaitersAreQueued' /\ Runner' /\ Timers'
  BY OwnErrorFrame DEF TakeFree, Cleared, Error, WithError
<1>5. UNCHANGED <<pc, arg>>
  BY DEF TakeFree
<1>6. /\ value' = [value EXCEPT ![m] = 0] /\ owner' = [owner EXCEPT ![m] = t]
      /\ original_priority' = [original_priority EXCEPT ![m] = k.prio[t]]
      /\ hold' = [hold EXCEPT ![m] = 1]
      /\ held' = [held EXCEPT ![t][m] = 1]
  <2>1. value[m] - 1 = 0 /\ hold[m] + 1 = 1 /\ held[t][m] + 1 = 1
    BY <1>2, <1>3
  <2>2. QED
    BY <2>1 DEF TakeFree, Gained
<1>7. TypeOK'
  BY <1>1, <1>4, <1>5, <1>6, MutexAssumption DEF IInv, TypeOK
<1>8. FieldsAgree'
  BY <1>1, <1>4, <1>6, MutexAssumption DEF IInv, FieldsAgree
<1>9. \A x \in Thread, n \in Mutex :
          held'[x][n] = IF x = t /\ n = m THEN 1 ELSE held[x][n]
  BY <1>1, <1>6
<1>10. ReturnedMeansOwned'
  BY <1>1, <1>3, <1>4, <1>5, <1>6, <1>9, MutexAssumption
     DEF IInv, ReturnedMeansOwned
<1>11. Calls'
  <2>1. ASSUME NEW x \in Thread, pc[x] \in {"take", "taken"}
        PROVE  x # t /\ (owner'[arg[x]] = x <=> owner[arg[x]] = x)
    BY <1>1, <1>2, <1>6, <2>1, MutexAssumption DEF IInv, Calls
  <2>2. QED
    BY <1>4, <1>5, <1>9, <2>1 DEF IInv, Calls
<1>12. QED
  BY <1>4, <1>7, <1>8, <1>10, <1>11 DEF IInv

(* A take that may not wait, and a release by a thread that is not the owner. *)
LEMMA RefusedHolds ==
    ASSUME IInv, NEW t \in Thread, NEW m \in Mutex, At(t, "run"),
           TakeBusy(t, m) \/ ReleaseForeign(t, m)
    PROVE  IInv'
<1>1. PICK e \in Error : k' = WithError(k, t, e)
  BY DEF TakeBusy, ReleaseForeign, Error, WithError
<1>2. UNCHANGED <<mutex, pc, arg, held>>
  BY DEF TakeBusy, ReleaseForeign
<1>3. pc[t] = "run"
  BY DEF At
<1>4. /\ k' \in KernelState /\ KernelConsistent(k')
      /\ k'.stat = k.stat /\ k'.wait = k.wait
      /\ \A x \in Thread : pc[x] # "run" => k'.err[x] = k.err[x]
      /\ WaitersAreQueued' /\ Runner' /\ Timers'
  BY <1>1, <1>2, OwnErrorFrame
<1>5. TypeOK' /\ FieldsAgree'
  BY <1>2, <1>4 DEF IInv, TypeOK, FieldsAgree, mutex
<1>6. ReturnedMeansOwned'
  BY <1>2, <1>4 DEF IInv, ReturnedMeansOwned, mutex
<1>7. Calls'
  BY <1>2, <1>4 DEF IInv, Calls, mutex
<1>8. QED
  BY <1>4, <1>5, <1>6, <1>7 DEF IInv

(* A take that waits: the owner may be raised, the caller leaves the ready   *)
(* queue for the wait list of the mutex, and its timer may be started.      *)
LEMMA TakeBlockHolds ==
    ASSUME IInv, NEW t \in Thread, NEW m \in Mutex, NEW timed \in BOOLEAN,
           t # Idle, At(t, "run"), TakeBlock(t, m, timed)
    PROVE  IInv'
<1> DEFINE a == Cleared(t)
           b == Raised(a, t, m)
           c == rt_ipc_list_suspend(b, m, t, flag[m])
<1>0. /\ k \in KernelState /\ KernelConsistent(k) /\ k.nest = 0
      /\ k.cur = t /\ pc[t] = "run" /\ k.stat[t] = "ready"
      /\ pc \in [Thread -> PC] /\ arg \in [Thread -> Mutex \union {Null}]
      /\ k.stat \in [Thread -> Stat] /\ k.err \in [Thread -> Error]
      /\ k.timer \in [Thread -> BOOLEAN]
      /\ held \in [Thread -> [Mutex -> 0 .. HoldMax]]
  BY Caller
<1>1. owner[m] \in Thread /\ owner[m] # t /\ m \in WaitList
  BY MutexAssumption, Caller DEF TakeBlock, IInv, FieldsAgree
<1>2. /\ UNCHANGED <<mutex, held>> /\ k' = (IF timed THEN StartTimer(c, t) ELSE c)
      /\ pc' = [pc EXCEPT ![t] = "take"] /\ arg' = [arg EXCEPT ![t] = m]
  BY DEF TakeBlock, Goto
<1>3. /\ a \in KernelState
      /\ KernelConsistent(a)
      /\ a.err = [k.err EXCEPT ![t] = "EOK"]
      /\ a.stat = k.stat /\ a.prio = k.prio /\ a.cur = k.cur
      /\ a.nest = k.nest /\ a.timer = k.timer /\ a.wait = k.wait
  <2>1. "EOK" \in Error /\ a = WithError(k, t, "EOK")
    BY DEF Error, Cleared, WithError
  <2> HIDE DEF a
  <2>2. QED
    BY <1>0, <2>1, ErrorEffect
<1> HIDE DEF a
<1>4. /\ b \in KernelState
      /\ KernelConsistent(b)
      /\ b.stat = a.stat /\ b.cur = a.cur /\ b.nest = a.nest
      /\ b.err = a.err /\ b.timer = a.timer
      /\ SameWaits(b, a)
  <2>1. CASE a.prio[t] < a.prio[owner[m]]
    <3> DEFINE o == owner[m]
               p == a.prio[t]
    <3>1. b = ChangePriority(a, o, p)
      BY <2>1 DEF Raised
    <3>2. o \in Thread /\ p \in Priority /\ a \in KernelState /\ KernelConsistent(a)
      BY <1>1, <1>3 DEF KernelState
    <3> HIDE DEF b, o, p
    <3>3. /\ b \in KernelState
          /\ KernelConsistent(b)
          /\ b.prio = [a.prio EXCEPT ![o] = p]
          /\ b.stat = a.stat /\ b.cur = a.cur /\ b.nest = a.nest
          /\ b.err = a.err /\ b.timer = a.timer
          /\ SameWaits(b, a)
      BY ONLY <3>1, <3>2, ChangePriorityEffect
    <3>4. QED
      BY ONLY <3>3
  <2>2. CASE ~(a.prio[t] < a.prio[owner[m]])
    BY <1>3, <2>2 DEF Raised, SameWaits
  <2>3. QED
    BY <2>1, <2>2
<1> HIDE DEF b
<1>5. /\ c \in KernelState
      /\ KernelConsistent(c)
      /\ c.stat = [b.stat EXCEPT ![t] = "suspend"]
      /\ c.timer = [b.timer EXCEPT ![t] = FALSE]
      /\ c.prio = b.prio /\ c.cur = b.cur /\ c.nest = b.nest /\ c.err = b.err
      /\ WaitAdds(c, b, m, t)
  <2>1. b.stat[t] = "ready"
    BY <1>0, <1>3, <1>4
  <2>2. c = rt_ipc_list_suspend(b, m, t, flag[m])
    OBVIOUS
  <2> HIDE DEF c
  <2>3. QED
    BY ONLY <1>1, <1>4, <2>1, <2>2, t \in Thread, t # Idle, ListSuspendEffect
<1> HIDE DEF c
<1>6. /\ k' \in KernelState
      /\ KernelConsistent(k')
      /\ k'.timer = (IF timed THEN [c.timer EXCEPT ![t] = TRUE] ELSE c.timer)
      /\ k'.stat = c.stat /\ k'.prio = c.prio /\ k'.cur = c.cur
      /\ k'.nest = c.nest /\ k'.err = c.err /\ k'.wait = c.wait
  <2>1. CASE timed
    <3>1. k' = StartTimer(c, t)
      BY <1>2, <2>1
    <3>2. QED
      BY <1>5, <2>1, <3>1, TimerEffect
  <2>2. CASE ~timed
    BY <1>2, <1>5, <2>2
  <2>3. QED
    BY <2>1, <2>2
<1>7. /\ k'.stat = [k.stat EXCEPT ![t] = "suspend"]
      /\ k'.err = [k.err EXCEPT ![t] = "EOK"] /\ k'.cur = t /\ k'.nest = 0
      /\ \A x \in Thread \ {t} : k'.timer[x] = k.timer[x]
  BY <1>0, <1>3, <1>4, <1>5, <1>6
<1>8. \A n \in Mutex :
          ToSet(k'.wait[n]) = IF n = m THEN ToSet(k.wait[n]) \union {t}
                                       ELSE ToSet(k.wait[n])
  <2> SUFFICES ASSUME NEW n \in Mutex
               PROVE  ToSet(k'.wait[n]) = IF n = m THEN ToSet(k.wait[n]) \union {t}
                                                   ELSE ToSet(k.wait[n])
    OBVIOUS
  <2>1. n \in WaitList /\ m \in WaitList
    BY MutexAssumption
  <2> QED
    BY <2>1, <1>3, <1>4, <1>5, <1>6 DEF WaitAdds, SameWaits
<1>9. TypeOK'
  BY <1>0, <1>2, <1>6 DEF IInv, TypeOK, mutex, PC
<1>10. FieldsAgree'
  <2>1. ASSUME NEW n \in Mutex, owner[n] = Null PROVE k'.wait[n] = <<>>
    <3>1. n # m
      BY <1>1, <2>1, MutexAssumption
    <3>2. k.wait[n] = <<>> /\ k.wait[n] \in Seq(Thread) /\ k'.wait[n] \in Seq(Thread)
      BY <1>0, <1>6, <2>1, FieldTypes DEF IInv, FieldsAgree
    <3>3. ToSet(k'.wait[n]) = {}
      BY <1>8, <3>1, <3>2, EmptyList
    <3>4. QED
      BY <3>2, <3>3, EmptyList
  <2>2. QED
    BY <1>2, <2>1 DEF IInv, FieldsAgree, mutex
<1>11. held[t][m] = 0
  <2>1. held[t][m] \in 0 .. HoldMax /\ ~(held[t][m] > 0)
    BY <1>0, <1>1 DEF IInv, ReturnedMeansOwned
  <2>2. QED
    BY <2>1, MutexAssumption
<1>12. ReturnedMeansOwned'
  BY <1>0, <1>2, <1>7 DEF IInv, ReturnedMeansOwned, mutex
<1>13. WaitersAreQueued'
  <2> SUFFICES ASSUME NEW x \in Thread, NEW n \in Mutex
               PROVE  x \in ToSet(k'.wait[n])
                          <=> /\ pc'[x] \in {"take", "taken"} /\ arg'[x] = n
                              /\ k'.stat[x] = "suspend"
    BY DEF WaitersAreQueued
  <2>1. x \in ToSet(k.wait[n])
            <=> pc[x] \in {"take", "taken"} /\ arg[x] = n /\ k.stat[x] = "suspend"
    BY DEF IInv, WaitersAreQueued
  <2>2. CASE x = t
    <3>1. pc'[x] = "take" /\ arg'[x] = m /\ k'.stat[x] = "suspend"
      BY <1>0, <1>2, <1>7, <2>2
    <3>2. x \notin ToSet(k.wait[n])
      BY <1>0, <2>1, <2>2
    <3>3. x \in ToSet(k'.wait[n]) <=> n = m
      BY <1>8, <2>2, <3>2
    <3>4. QED
      BY <3>1, <3>3
  <2>3. CASE x # t
    <3>1. pc'[x] = pc[x] /\ arg'[x] = arg[x] /\ k'.stat[x] = k.stat[x]
      BY <1>0, <1>2, <1>7, <2>3
    <3>2. x \in ToSet(k'.wait[n]) <=> x \in ToSet(k.wait[n])
      BY <1>8, <2>3
    <3>3. QED
      BY <2>1, <3>1, <3>2
  <2>4. QED
    BY <2>2, <2>3
<1>14. Runner' /\ Timers'
  <2>1. Runner'
    BY <1>0, <1>2, <1>7 DEF Runner
  <2>2. ASSUME NEW x \in Thread
        PROVE  k'.stat[x] \in {"ready", "suspend"} /\ (k'.timer[x] => k'.stat[x] = "suspend")
    <3>1. CASE x = t
      BY <1>0, <1>7, <3>1
    <3>2. CASE x # t
      BY <1>0, <1>7, <3>2 DEF IInv, Timers
    <3>3. QED
      BY <3>1, <3>2
  <2>3. QED
    BY <2>1, <2>2 DEF Timers
<1>15. Calls'
  BY <1>0, <1>1, <1>2, <1>7, <1>11 DEF IInv, Calls, mutex
<1>16. QED
  BY <1>6, <1>9, <1>10, <1>12, <1>13, <1>14, <1>15 DEF IInv

(* The owner gives up one of several levels.                                *)
LEMMA ReleaseLevelHolds ==
    ASSUME IInv, NEW t \in Thread, NEW m \in Mutex, At(t, "run"), ReleaseLevel(t, m)
    PROVE  IInv'
<1>1. /\ pc[t] = "run"
      /\ hold \in [Mutex -> 0 .. HoldMax]
      /\ held \in [Thread -> [Mutex -> 0 .. HoldMax]]
      /\ owner[m] = t /\ held[t][m] = hold[m] /\ hold[m] > 1
  BY Caller DEF ReleaseLevel
<1>2. UNCHANGED <<k, value, owner, original_priority, pc, arg>>
  BY DEF ReleaseLevel
<1>3. hold[m] - 1 \in 0 .. HoldMax /\ hold[m] - 1 > 0
  BY <1>1, MutexAssumption
<1>4. /\ hold' = [hold EXCEPT ![m] = hold[m] - 1]
      /\ held' = [held EXCEPT ![t][m] = hold[m] - 1]
  BY <1>1 DEF ReleaseLevel, Lost
<1>5. /\ \A n \in Mutex : n # m => hold'[n] = hold[n]
      /\ \A x \in Thread, n \in Mutex : <<x, n>> # <<t, m>> => held'[x][n] = held[x][n]
      /\ held'[t][m] = hold'[m] /\ hold'[m] > 0
  BY <1>1, <1>3, <1>4
<1>6. TypeOK'
  BY <1>1, <1>2, <1>3, <1>4 DEF IInv, TypeOK
<1>7. FieldsAgree'
  BY <1>1, <1>2, <1>5, MutexAssumption DEF IInv, FieldsAgree
<1>8. ReturnedMeansOwned'
  BY <1>1, <1>2, <1>5 DEF IInv, ReturnedMeansOwned
<1>9. WaitersAreQueued' /\ Runner' /\ Timers'
  BY <1>2 DEF IInv, WaitersAreQueued, Runner, Timers
<1>10. Calls'
  BY <1>1, <1>2, <1>5 DEF IInv, Calls
<1>11. QED
  BY <1>2, <1>6, <1>7, <1>8, <1>9, <1>10 DEF IInv

(* The owner goes back to the priority noted in the mutex.                  *)
LEMMA RestoredEffect ==
    ASSUME IInv, NEW t \in Thread, NEW m \in Mutex, At(t, "run"), owner[m] = t
    PROVE  /\ Restored(t, m) \in KernelState
           /\ KernelConsistent(Restored(t, m))
           /\ Restored(t, m).stat = k.stat /\ Restored(t, m).cur = k.cur
           /\ Restored(t, m).nest = k.nest /\ Restored(t, m).err = k.err
           /\ Restored(t, m).timer = k.timer
           /\ Restored(t, m).prio = [k.prio EXCEPT ![t] = original_priority[m]]
           /\ SameWaits(Restored(t, m), k)
<1> DEFINE r == Restored(t, m)
           p == original_priority[m]
<1>1. k \in KernelState /\ KernelConsistent(k)
  BY Caller
<1>2. p \in Priority
  BY Caller, MutexAssumption DEF IInv, FieldsAgree
<1>3. CASE p # k.prio[t]
  <2>1. r = ChangePriority(k, t, p)
    BY <1>3 DEF Restored
  <2> HIDE DEF r, p
  <2>2. /\ r \in KernelState
        /\ KernelConsistent(r)
        /\ r.prio = [k.prio EXCEPT ![t] = p]
        /\ r.stat = k.stat /\ r.cur = k.cur /\ r.nest = k.nest
        /\ r.err = k.err /\ r.timer = k.timer
        /\ SameWaits(r, k)
    BY ONLY <1>1, <1>2, <2>1, t \in Thread, ChangePriorityEffect
  <2>3. QED
    BY <2>2 DEF r, p
<1>4. CASE p = k.prio[t]
  <2>1. k.prio = [k.prio EXCEPT ![t] = p]
    BY <1>1, <1>4, FieldTypes
  <2>2. QED
    BY <1>1, <1>4, <2>1 DEF Restored, SameWaits
<1>5. QED
  BY <1>3, <1>4

(* The owner gives up its last level and nobody waits.                      *)
LEMMA ReleaseFreeHolds ==
    ASSUME IInv, NEW t \in Thread, NEW m \in Mutex, At(t, "run"), ReleaseFree(t, m)
    PROVE  IInv'
<1>0. /\ k \in KernelState
      /\ k.cur = t /\ pc[t] = "run" /\ k.stat[t] = "ready" /\ k.nest = 0
      /\ value \in [Mutex -> {0, 1}]
      /\ owner \in [Mutex -> Thread \union {Null}]
      /\ original_priority \in [Mutex -> Priority \union {NoPrio}]
      /\ hold \in [Mutex -> 0 .. HoldMax]
      /\ held \in [Thread -> [Mutex -> 0 .. HoldMax]]
  BY Caller
<1>1. /\ owner[m] = t /\ hold[m] = 1 /\ held[t][m] = 1 /\ k.wait[m] = <<>>
      /\ k' = Restored(t, m) /\ UNCHANGED <<pc, arg>>
  BY Caller DEF ReleaseFree
<1>2. value[m] = 0
  BY <1>0, <1>1, MutexAssumption DEF IInv, FieldsAgree
<1>3. /\ k' \in KernelState /\ KernelConsistent(k')
      /\ k'.stat = k.stat /\ k'.cur = k.cur /\ k'.nest = k.nest
      /\ k'.err = k.err /\ k'.timer = k.timer
      /\ SameWaits(k', k)
  BY <1>1, RestoredEffect
<1>4. \A n \in Mutex : ToSet(k'.wait[n]) = ToSet(k.wait[n])
  BY <1>3, MutexAssumption DEF SameWaits
<1>5. /\ value' = [value EXCEPT ![m] = 1] /\ owner' = [owner EXCEPT ![m] = Null]
      /\ original_priority' = [original_priority EXCEPT ![m] = NoPrio]
      /\ hold' = [hold EXCEPT ![m] = 0]
      /\ held' = [held EXCEPT ![t][m] = 0]
  <2>1. value[m] + 1 = 1 /\ hold[m] - 1 = 0 /\ held[t][m] - 1 = 0
    BY <1>1, <1>2
  <2>2. QED
    BY <2>1 DEF ReleaseFree, Lost
<1>6. \A x \in Thread, n \in Mutex :
          held'[x][n] = IF x = t /\ n = m THEN 0 ELSE held[x][n]
  BY <1>0, <1>5
<1>7. TypeOK'
  BY <1>0, <1>1, <1>3, <1>5, MutexAssumption DEF IInv, TypeOK
<1>8. FieldsAgree'
  <2>1. ASSUME NEW n \in Mutex, k.wait[n] = <<>> PROVE k'.wait[n] = <<>>
    <3>1. k.wait[n] \in Seq(Thread) /\ k'.wait[n] \in Seq(Thread)
      BY <1>0, <1>3, FieldTypes
    <3>2. QED
      BY <1>4, <2>1, <3>1, EmptyList
  <2>2. QED
    BY <1>0, <1>1, <1>5, <2>1, MutexAssumption DEF IInv, FieldsAgree
<1>9. ASSUME NEW x \in Thread PROVE held'[x][m] = 0
  <2>1. CASE x = t
    BY <1>6, <2>1
  <2>2. CASE x # t
    <3>1. held[x][m] \in 0 .. HoldMax /\ ~(held[x][m] > 0)
      BY <1>0, <1>1, <2>2 DEF IInv, ReturnedMeansOwned
    <3>2. QED
      BY <1>6, <2>2, <3>1, MutexAssumption
  <2>3. QED
    BY <2>1, <2>2
<1>10. ReturnedMeansOwned'
  <2> SUFFICES ASSUME NEW x \in Thread, NEW n \in Mutex
               PROVE  /\ held'[x][n] > 0 => owner'[n] = x
                      /\ owner'[n] = x =>
                             \/ held'[x][n] = hold'[n]
                             \/ /\ held'[x][n] = 0 /\ hold'[n] = 1
                                /\ pc'[x] \in {"take", "taken"} /\ arg'[x] = n
                                /\ k'.stat[x] # "suspend" => k'.err[x] = "EOK"
    BY DEF ReturnedMeansOwned
  <2>1. CASE n = m
    BY <1>0, <1>5, <1>9, <2>1, MutexAssumption
  <2>2. CASE n # m
    BY <1>0, <1>1, <1>3, <1>5, <1>6, <2>2 DEF IInv, ReturnedMeansOwned
  <2>3. QED
    BY <2>1, <2>2
<1>11. WaitersAreQueued'
  BY <1>1, <1>3, <1>4 DEF IInv, WaitersAreQueued
<1>12. Runner' /\ Timers'
  BY <1>0, <1>3 DEF IInv, Runner, Timers
<1>13. Calls'
  <2>1. ASSUME NEW x \in Thread, pc[x] \in {"take", "taken"}
        PROVE  x # t /\ (owner'[arg[x]] = x <=> owner[arg[x]] = x)
    BY <1>0, <1>1, <1>5, <2>1, MutexAssumption DEF IInv, Calls
  <2>2. QED
    BY <1>1, <1>3, <1>6, <2>1 DEF IInv, Calls
<1>14. QED
  BY <1>3, <1>7, <1>8, <1>10, <1>11, <1>12, <1>13 DEF IInv

(* The last level with a waiter: the mutex is given to the first one, which  *)
(* leaves the wait list with no error.                                      *)
LEMMA ReleaseHandOverHolds ==
    ASSUME IInv, NEW t \in Thread, NEW m \in Mutex, At(t, "run"),
           ReleaseHandOver(t, m)
    PROVE  IInv'
<1> DEFINE s == Restored(t, m)
           w == Head(s.wait[m])
<1>0. /\ k \in KernelState
      /\ k.cur = t /\ pc[t] = "run" /\ k.stat[t] = "ready" /\ k.nest = 0
      /\ owner \in [Mutex -> Thread \union {Null}]
      /\ original_priority \in [Mutex -> Priority \union {NoPrio}]
      /\ hold \in [Mutex -> 0 .. HoldMax]
      /\ held \in [Thread -> [Mutex -> 0 .. HoldMax]]
      /\ pc \in [Thread -> PC] /\ arg \in [Thread -> Mutex \union {Null}]
      /\ k.stat \in [Thread -> Stat] /\ k.timer \in [Thread -> BOOLEAN]
  BY Caller
<1>1. /\ owner[m] = t /\ hold[m] = 1 /\ held[t][m] = 1 /\ k.wait[m] # <<>>
      /\ k' = rt_thread_resume(s, w) /\ UNCHANGED value
      /\ owner' = [owner EXCEPT ![m] = w]
      /\ original_priority' = [original_priority EXCEPT ![m] = s.prio[w]]
      /\ pc' = [pc EXCEPT ![t] = "schedule"] /\ arg' = [arg EXCEPT ![t] = Null]
  BY Caller DEF ReleaseHandOver, Goto, rt_ipc_list_resume
<1>2. hold' = hold /\ held' = [held EXCEPT ![t][m] = 0]
  <2>1. (hold[m] - 1) + 1 = hold[m] /\ held[t][m] - 1 = 0
    BY <1>1
  <2>2. hold' = [hold EXCEPT ![m] = hold[m]] /\ held' = [held EXCEPT ![t][m] = 0]
    BY <2>1 DEF ReleaseHandOver, Lost
  <2>3. QED
    BY <1>0, <2>2
<1>3. /\ s \in KernelState /\ KernelConsistent(s)
      /\ s.stat = k.stat /\ s.cur = k.cur /\ s.nest = k.nest
      /\ s.err = k.err /\ s.timer = k.timer
      /\ SameWaits(s, k)
  BY <1>1, RestoredEffect
<1> HIDE DEF s
<1>4. w \in Thread /\ w \in ToSet(k.wait[m])
  <2>1. s.wait[m] \in Seq(Thread) /\ k.wait[m] \in Seq(Thread)
    BY <1>0, <1>3, FieldTypes
  <2>2. ToSet(s.wait[m]) = ToSet(k.wait[m])
    BY <1>3, MutexAssumption DEF SameWaits
  <2>3. s.wait[m] # <<>>
    BY <1>1, <2>1, <2>2, EmptyList
  <2>4. QED
    BY <2>1, <2>2, <2>3, HeadIsElement
<1> HIDE DEF w
<1>5. /\ pc[w] \in {"take", "taken"} /\ arg[w] = m /\ k.stat[w] = "suspend"
      /\ w # t /\ held[w][m] = 0 /\ k.err[w] = "EOK" /\ s.prio[w] \in Priority
  <2>1. pc[w] \in {"take", "taken"} /\ arg[w] = m /\ k.stat[w] = "suspend"
    BY <1>4 DEF IInv, WaitersAreQueued
  <2>2. s.prio[w] \in Priority
    BY <1>3, <1>4, FieldTypes
  <2>3. QED
    BY <1>0, <1>4, <2>1, <2>2 DEF IInv, Calls
<1>6. /\ k' \in KernelState
      /\ KernelConsistent(k')
      /\ k'.stat = [s.stat EXCEPT ![w] = "ready"]
      /\ k'.timer = [s.timer EXCEPT ![w] = FALSE]
      /\ k'.prio = s.prio /\ k'.cur = s.cur /\ k'.nest = s.nest /\ k'.err = s.err
      /\ WaitDrops(k', s, w)
  <2>1. s.stat[w] = "suspend" /\ k' = rt_thread_resume(s, w)
    BY <1>1, <1>3, <1>5
  <2>2. QED
    BY ONLY <1>3, <1>4, <2>1, ResumeEffect
<1>7. /\ k'.stat = [k.stat EXCEPT ![w] = "ready"]
      /\ k'.timer = [k.timer EXCEPT ![w] = FALSE]
      /\ k'.cur = t /\ k'.nest = 0 /\ k'.err = k.err
  BY <1>0, <1>3, <1>6
<1>8. \A n \in Mutex : ToSet(k'.wait[n]) = ToSet(k.wait[n]) \ {w}
  BY <1>3, <1>6, MutexAssumption DEF SameWaits, WaitDrops
<1>9. TypeOK'
  BY <1>0, <1>1, <1>2, <1>4, <1>5, <1>6, MutexAssumption DEF IInv, TypeOK, PC
<1>10. FieldsAgree'
  <2> SUFFICES ASSUME NEW n \in Mutex
               PROVE  /\ value'[n] = 1 <=> owner'[n] = Null
                      /\ owner'[n] = Null <=> hold'[n] = 0
                      /\ owner'[n] = Null <=> original_priority'[n] = NoPrio
                      /\ owner'[n] = Null => k'.wait[n] = <<>>
    BY DEF FieldsAgree
  <2>1. CASE n = m
    <3>1. value[m] # 1
      BY <1>0, <1>1, MutexAssumption DEF IInv, FieldsAgree
    <3>2. owner'[m] = w /\ original_priority'[m] = s.prio[w] /\ hold'[m] = 1
      BY <1>0, <1>1, <1>2
    <3>3. w # Null /\ s.prio[w] # NoPrio
      BY <1>4, <1>5, MutexAssumption
    <3>4. QED
      BY <1>1, <2>1, <3>1, <3>2, <3>3
  <2>2. CASE n # m
    <3>1. k.wait[n] = <<>> => k'.wait[n] = <<>>
      <4>1. k.wait[n] \in Seq(Thread) /\ k'.wait[n] \in Seq(Thread)
        BY <1>0, <1>6, FieldTypes
      <4>2. QED
        BY <1>8, <4>1, EmptyList
    <3>2. owner'[n] = owner[n] /\ original_priority'[n] = original_priority[n]
      BY <1>0, <1>1, <2>2
    <3>3. QED
      BY <1>1, <1>2, <3>1, <3>2 DEF IInv, FieldsAgree
  <2>3. QED
    BY <2>1, <2>2
<1>11. \A x \in Thread, n \in Mutex :
           held'[x][n] = IF x = t /\ n = m THEN 0 ELSE held[x][n]
  BY <1>0, <1>2
<1>12. ReturnedMeansOwned'
  <2> SUFFICES ASSUME NEW x \in Thread, NEW n \in Mutex
               PROVE  /\ held'[x][n] > 0 => owner'[n] = x
                      /\ owner'[n] = x =>
                             \/ held'[x][n] = hold'[n]
                             \/ /\ held'[x][n] = 0 /\ hold'[n] = 1
                                /\ pc'[x] \in {"take", "taken"} /\ arg'[x] = n
                                /\ k'.stat[x] # "suspend" => k'.err[x] = "EOK"
    BY DEF ReturnedMeansOwned
  <2>1. CASE n = m
    <3>1. owner'[n] = w /\ hold'[n] = 1
      BY <1>0, <1>1, <1>2, <2>1
    <3>2. CASE x = w
      <4>1. held'[x][n] = 0 /\ pc'[x] = pc[w] /\ arg'[x] = m /\ k'.err[x] = "EOK"
        BY <1>0, <1>1, <1>5, <1>7, <1>11, <2>1, <3>2
      <4>2. QED
        BY <1>5, <2>1, <3>1, <3>2, <4>1
    <3>3. CASE x # w
      <4>1. held'[x][n] = 0
        <5>1. held[x][m] \in 0 .. HoldMax /\ (held[x][m] > 0 => x = t)
          BY <1>0, <1>1 DEF IInv, ReturnedMeansOwned
        <5>2. QED
          BY <1>11, <2>1, <5>1, MutexAssumption
      <4>2. QED
        BY <3>1, <3>3, <4>1
    <3>4. QED
      BY <3>2, <3>3
  <2>2. CASE n # m
    <3>1. owner'[n] = owner[n] /\ hold'[n] = hold[n] /\ held'[x][n] = held[x][n]
      BY <1>0, <1>1, <1>2, <1>11, <2>2
    <3>2. /\ held[x][n] > 0 => owner[n] = x
          /\ owner[n] = x =>
                 \/ held[x][n] = hold[n]
                 \/ /\ held[x][n] = 0 /\ hold[n] = 1
                    /\ pc[x] \in {"take", "taken"} /\ arg[x] = n
                    /\ k.stat[x] # "suspend" => k.err[x] = "EOK"
      BY DEF IInv, ReturnedMeansOwned
    <3>3. pc[x] \in {"take", "taken"} /\ arg[x] = n =>
              pc'[x] = pc[x] /\ arg'[x] = n /\ k'.stat[x] = k.stat[x]
      BY <1>0, <1>1, <1>5, <1>7, <2>2
    <3>4. QED
      BY <1>7, <3>1, <3>2, <3>3
  <2>3. QED
    BY <2>1, <2>2
<1>13. WaitersAreQueued'
  <2> SUFFICES ASSUME NEW x \in Thread, NEW n \in Mutex
               PROVE  x \in ToSet(k'.wait[n])
                          <=> /\ pc'[x] \in {"take", "taken"} /\ arg'[x] = n
                              /\ k'.stat[x] = "suspend"
    BY DEF WaitersAreQueued
  <2>1. x \in ToSet(k.wait[n])
            <=> pc[x] \in {"take", "taken"} /\ arg[x] = n /\ k.stat[x] = "suspend"
    BY DEF IInv, WaitersAreQueued
  <2>2. x \in ToSet(k'.wait[n]) <=> x \in ToSet(k.wait[n]) /\ x # w
    BY <1>8
  <2>3. k'.stat[x] = IF x = w THEN "ready" ELSE k.stat[x]
    BY <1>0, <1>7
  <2>4. CASE x = t
    BY <1>0, <1>1, <2>1, <2>2, <2>4
  <2>5. CASE x # t
    <3>1. pc'[x] = pc[x] /\ arg'[x] = arg[x]
      BY <1>0, <1>1, <2>5
    <3>2. QED
      BY <2>1, <2>2, <2>3, <3>1
  <2>6. QED
    BY <2>4, <2>5
<1>14. Runner' /\ Timers'
  BY <1>0, <1>5, <1>7 DEF IInv, Runner, Timers
<1>15. Calls'
  <2> SUFFICES ASSUME NEW x \in Thread, pc'[x] \in {"take", "taken"}
               PROVE  /\ x # Idle
                      /\ arg'[x] \in Mutex
                      /\ held'[x][arg'[x]] = 0
                      /\ k'.stat[x] = "suspend" => owner'[arg'[x]] # x /\ k'.err[x] = "EOK"
                      /\ k'.stat[x] = "ready" => (k'.err[x] = "EOK" <=> owner'[arg'[x]] = x)
    BY DEF Calls
  <2>1. x # t /\ pc'[x] = pc[x] /\ arg'[x] = arg[x]
    BY <1>0, <1>1
  <2>2. /\ x # Idle
        /\ arg[x] \in Mutex
        /\ held[x][arg[x]] = 0
        /\ k.stat[x] = "suspend" => owner[arg[x]] # x /\ k.err[x] = "EOK"
        /\ k.stat[x] = "ready" => (k.err[x] = "EOK" <=> owner[arg[x]] = x)
    BY <2>1 DEF IInv, Calls
  <2>3. held'[x][arg[x]] = 0
    BY <1>11, <2>1, <2>2
  <2>4. CASE x = w
    BY <1>0, <1>1, <1>5, <1>7, <2>1, <2>2, <2>3, <2>4
  <2>5. CASE x # w
    <3>1. k'.stat[x] = k.stat[x]
      BY <1>0, <1>7, <2>5
    <3>2. owner'[arg[x]] = x <=> owner[arg[x]] = x
      BY <1>0, <1>1, <2>1, <2>2, <2>5
    <3>3. QED
      BY <1>7, <2>1, <2>2, <2>3, <3>1, <3>2
  <2>6. QED
    BY <2>4, <2>5
<1>16. QED
  BY <1>6, <1>9, <1>10, <1>12, <1>13, <1>14, <1>15 DEF IInv

(* Every step keeps the invariant.                                          *)
LEMMA NextHolds == IInv /\ [Next]_vars => IInv'
<1> SUFFICES ASSUME IInv, [Next]_vars PROVE IInv'
  OBVIOUS
<1>1. ASSUME NEW t \in Thread, InCall(t) PROVE IInv'
  BY <1>1, ScheduleHolds, TakeReturnHolds DEF InCall
<1>2. ASSUME NEW t \in Thread, rt_thread_sleep(t) PROVE IInv'
  BY <1>2, SleepHolds
<1>3. ASSUME NEW t \in Thread, NEW m \in Mutex, rt_mutex_take(t, m) PROVE IInv'
  BY <1>3, TakeAgainHolds, TakeFreeHolds, RefusedHolds, TakeBlockHolds
     DEF rt_mutex_take
<1>4. ASSUME NEW t \in Thread, NEW m \in Mutex, rt_mutex_release(t, m) PROVE IInv'
  BY <1>4, RefusedHolds, ReleaseLevelHolds, ReleaseHandOverHolds, ReleaseFreeHolds
     DEF rt_mutex_release
<1>5. CASE SliceEnd
  BY <1>5, SliceEndHolds
<1>6. ASSUME NEW u \in Thread, Timeout(u) PROVE IInv'
  BY <1>6, TimeoutHolds
<1>7. CASE UNCHANGED vars
  BY <1>7 DEF vars, IInv, TypeOK, FieldsAgree, ReturnedMeansOwned,
              WaitersAreQueued, Runner, Timers, Calls
<1>8. QED
  BY <1>1, <1>2, <1>3, <1>4, <1>5, <1>6, <1>7 DEF Next

(* The inductive invariant holds in every state of every behaviour of       *)
(* rt_mutex_take, rt_mutex_release, sleeps, time slices and timeouts, for    *)
(* any threads, mutexes, priorities and nesting.                            *)
THEOREM Invariance == Spec => []IInv
<1>1. QED
  BY InitHolds, NextHolds, PTL DEF Spec

(* The fields of a mutex, the thread table and what each thread is doing in  *)
(* rt_mutex_take and rt_mutex_release keep their types: the level never      *)
(* exceeds RT_MUTEX_HOLD_MAX and value is never more than 1.                *)
THEOREM TypeCorrect == Spec => []TypeOK
<1>1. IInv => TypeOK
  BY DEF IInv
<1>2. QED
  BY <1>1, Invariance, PTL

(* value, owner, hold and original_priority of a mutex agree and no thread    *)
(* waits for a mutex without an owner; a suspended caller of rt_mutex_take is *)
(* on the wait list of that mutex and on no other, and nobody else is; the    *)
(* ready table and the priority group agree with every thread's state and     *)
(* priority, whatever rt_mutex_take and rt_mutex_release raise and restore.   *)
THEOREM ConsistentAlways == Spec => []MutexConsistent
<1>1. IInv => MutexConsistent
  BY DEF IInv, KernelConsistent, ReadyTableConsistent, MutexConsistent
<1>2. QED
  BY <1>1, Invariance, PTL

(* A thread that was told RT_EOK owns the mutex, at the level it counts; a   *)
(* timeout that races with rt_mutex_release neither loses the mutex nor      *)
(* gives it to two threads.                                                 *)
THEOREM OwnershipAlways == Spec => []ReturnedMeansOwned
<1>1. IInv => ReturnedMeansOwned
  BY DEF IInv
<1>2. QED
  BY <1>1, Invariance, PTL

-----------------------------------------------------------------------------
(* Priority inheritance, for programs that hold one mutex at a time.         *)

Waits(t) == pc[t] \in {"take", "taken"}

\* What a mutex notes is its owner's own priority, no thread owns two mutexes,
\* and one inside rt_mutex_take owns at most the mutex it asks for.
Inherits ==
    /\ PriorityRestored
    /\ \A m \in Mutex : owner[m] # Null => original_priority[m] = init_priority[owner[m]]
    /\ \A m, n \in Mutex : owner[m] = owner[n] /\ owner[m] # Null => m = n
    /\ \A t \in Thread, n \in Mutex : Waits(t) /\ owner[n] = t => n = arg[t]

\* Threads that are in rt_mutex_take after the step were in it before.
NobodyStartsToWait == \A t \in Thread : Waits(t)' => Waits(t) /\ arg'[t] = arg[t]

(* Steps that change no priority and no owner.                              *)
LEMMA InheritsFrame ==
    ASSUME Inherits, k'.prio = k.prio, UNCHANGED <<owner, original_priority>>,
           NobodyStartsToWait
    PROVE  Inherits'
BY DEF Inherits, PriorityRestored, NobodyStartsToWait

(* Scheduling, sleeping, slices and timers change no priority.               *)
LEMMA QuietInherits ==
    ASSUME IInv, Inherits,
           \/ \E t \in Thread : InCall(t) \/ rt_thread_sleep(t) \/ Timeout(t)
           \/ SliceEnd \/ UNCHANGED vars
    PROVE  Inherits'
<1>1. /\ k \in KernelState /\ KernelConsistent(k) /\ k.nest = 0
      /\ pc \in [Thread -> PC] /\ arg \in [Thread -> Mutex \union {Null}]
  BY DEF IInv, TypeOK, Runner
<1>2. ASSUME NEW r, r \in KernelState, KernelConsistent(r), NEW x, x = rt_schedule(r)
      PROVE  x.prio = r.prio
  BY ONLY <1>2, ScheduleEffect
<1>3. ASSUME NEW t \in Thread, InCall(t) PROVE Inherits'
  <2>1. UNCHANGED <<owner, original_priority>> /\ (k' = k \/ k' = rt_schedule(k))
    BY <1>3 DEF InCall, TakeSchedule, TakeReturn, ReleaseSchedule, mutex
  <2>2. k'.prio = k.prio
    BY <1>1, <1>2, <2>1
  <2>3. NobodyStartsToWait
    BY <1>1, <1>3 DEF InCall, TakeSchedule, TakeReturn, ReleaseSchedule, Goto, At,
                      NobodyStartsToWait, Waits
  <2> QED
    BY <2>1, <2>2, <2>3, InheritsFrame
<1>4. ASSUME UNCHANGED <<mutex, pc, arg, held>>, k'.prio = k.prio PROVE Inherits'
  BY <1>4, InheritsFrame DEF mutex, NobodyStartsToWait, Waits
<1>5. ASSUME NEW t \in Thread, rt_thread_sleep(t) PROVE Inherits'
  <2>1. PICK s, z : s = rt_thread_suspend(k, t) /\ z = StartTimer(s, t)
    OBVIOUS
  <2>2. /\ t # Idle /\ k.stat[t] = "ready" /\ k' = rt_schedule(z)
        /\ UNCHANGED <<mutex, pc, arg, held>>
    BY <1>5, <2>1 DEF IInv, rt_thread_sleep, Runner, At
  <2>3. s \in KernelState /\ KernelConsistent(s) /\ s.prio = k.prio
    BY ONLY <1>1, <2>1, <2>2, t \in Thread, SuspendEffect
  <2>4. z \in KernelState /\ KernelConsistent(z) /\ z.prio = s.prio
    BY ONLY <2>1, <2>3, t \in Thread, TimerEffect
  <2> QED
    BY <1>2, <1>4, <2>2, <2>3, <2>4
<1>6. ASSUME NEW u \in Thread, Timeout(u) PROVE Inherits'
  <2>1. /\ k.stat[u] = "suspend" /\ k' = rt_thread_timeout(k, u)
        /\ UNCHANGED <<mutex, pc, arg, held>>
    BY <1>6 DEF IInv, Timeout, Timers
  <2>2. /\ k' \in KernelState
        /\ KernelConsistent(k')
        /\ k.nest = 0 => k'.stat[k'.cur] = "ready"
        /\ k'.stat = [k.stat EXCEPT ![u] = "ready"]
        /\ k'.timer = [k.timer EXCEPT ![u] = FALSE]
        /\ k'.err = [k.err EXCEPT ![u] = "ETIMEOUT"]
        /\ k'.prio = k.prio /\ k'.nest = k.nest
        /\ WaitDrops(k', k, u)
    BY ONLY <1>1, <2>1, u \in Thread, TimeoutEffect
  <2> QED
    BY <1>4, <2>1, <2>2
<1>7. ASSUME SliceEnd PROVE Inherits'
  <2>1. PICK s : s = Requeue(k)
    OBVIOUS
  <2>2. /\ Yields(k) /\ k' = rt_schedule(s) /\ UNCHANGED <<mutex, pc, arg, held>>
    BY <1>7, <2>1 DEF SliceEnd
  <2>3. s \in KernelState /\ KernelConsistent(s) /\ s.prio = k.prio
    BY ONLY <1>1, <2>1, <2>2, RequeueEffect
  <2> QED
    BY <1>2, <1>4, <2>2, <2>3
<1>8. ASSUME UNCHANGED vars PROVE Inherits'
  BY <1>4, <1>8 DEF vars, mutex
<1> QED
  BY <1>3, <1>5, <1>6, <1>7, <1>8

(* A program that may ask for m, when one mutex is the limit, owns no other.  *)
LEMMA OwnsNoOther ==
    ASSUME IInv, Nesting = 1, NEW t \in Thread, NEW m \in Mutex, At(t, "run"),
           Cardinality({n \in Mutex : held[t][n] > 0} \union {m}) <= Nesting
    PROVE  \A n \in Mutex : owner[n] = t => n = m
<1> SUFFICES ASSUME NEW n \in Mutex, owner[n] = t, n # m PROVE FALSE
  OBVIOUS
<1>1. held[t][n] > 0
  BY Caller
<1>2. PICK S : S = {x \in Mutex : held[t][x] > 0} \union {m}
  OBVIOUS
<1>3. n \in S /\ m \in S /\ Cardinality(S) <= 1
  BY <1>1, <1>2
<1>4. IsFiniteSet(S)
  <2>1. S \in SUBSET Mutex /\ IsFiniteSet(Mutex)
    BY <1>2, MutexAssumption
  <2> QED
    BY ONLY <2>1, FS_Subset
<1>5. Cardinality(S) \in Nat
  BY ONLY <1>4, FS_CardinalityType
<1>6. PICK T : T = {n}
  OBVIOUS
<1>7. IsFiniteSet(T) /\ Cardinality(T) = 1 /\ T \in SUBSET S
  BY <1>3, <1>6, FS_Singleton
<1>8. Cardinality(T) <= Cardinality(S) /\ (Cardinality(S) = Cardinality(T) => S = T)
  BY ONLY <1>4, <1>7, FS_Subset
<1> QED
  BY <1>3, <1>5, <1>6, <1>7, <1>8

(* A take that waits changes nobody's priority but the owner's.              *)
LEMMA BlockPriority ==
    ASSUME IInv, NEW t \in Thread, NEW m \in Mutex, NEW timed \in BOOLEAN,
           t # Idle, At(t, "run"), TakeBlock(t, m, timed)
    PROVE  \A x \in Thread : x # owner[m] => k'.prio[x] = k.prio[x]
<1>1. PICK a, b, c, o, p : /\ a = Cleared(t) /\ b = Raised(a, t, m)
                           /\ c = rt_ipc_list_suspend(b, m, t, flag[m])
                           /\ o = owner[m] /\ p = a.prio[t]
  OBVIOUS
<1>2. /\ k \in KernelState /\ KernelConsistent(k) /\ k.stat[t] = "ready"
      /\ k.prio \in [Thread -> Priority]
  BY Caller
<1>3. o \in Thread /\ m \in WaitList /\ k' = (IF timed THEN StartTimer(c, t) ELSE c)
  BY <1>1, MutexAssumption, Caller DEF TakeBlock, IInv, FieldsAgree
<1>4. /\ a \in KernelState /\ KernelConsistent(a) /\ a.stat = k.stat /\ a.prio = k.prio
  <2>1. "EOK" \in Error /\ a = WithError(k, t, "EOK")
    BY <1>1 DEF Error, Cleared, WithError
  <2>2. /\ a \in KernelState
        /\ KernelConsistent(a)
        /\ a.err = [k.err EXCEPT ![t] = "EOK"]
        /\ a.stat = k.stat /\ a.prio = k.prio /\ a.cur = k.cur
        /\ a.nest = k.nest /\ a.timer = k.timer /\ a.wait = k.wait
    BY ONLY <1>2, <2>1, t \in Thread, ErrorEffect
  <2> QED
    BY ONLY <2>2
<1>5. /\ b \in KernelState /\ KernelConsistent(b) /\ b.stat = a.stat
      /\ \A x \in Thread : x # o => b.prio[x] = a.prio[x]
  <2>1. b = a \/ b = ChangePriority(a, o, p)
    BY <1>1 DEF Raised
  <2>2. CASE b = ChangePriority(a, o, p)
    <3>1. p \in Priority
      BY <1>1, <1>2, <1>4
    <3>2. /\ b \in KernelState /\ KernelConsistent(b) /\ b.stat = a.stat
          /\ b.prio = [a.prio EXCEPT ![o] = p]
      BY ONLY <1>3, <1>4, <2>2, <3>1, ChangePriorityEffect
    <3> QED
      BY <1>2, <1>4, <3>2
  <2> QED
    BY <1>4, <2>1, <2>2
<1>6. c \in KernelState /\ KernelConsistent(c) /\ c.prio = b.prio
  <2>1. b.stat[t] = "ready" /\ c = rt_ipc_list_suspend(b, m, t, flag[m])
    BY <1>1, <1>2, <1>4, <1>5
  <2>2. /\ c \in KernelState
        /\ KernelConsistent(c)
        /\ c.stat = [b.stat EXCEPT ![t] = "suspend"]
        /\ c.timer = [b.timer EXCEPT ![t] = FALSE]
        /\ c.prio = b.prio /\ c.cur = b.cur /\ c.nest = b.nest /\ c.err = b.err
        /\ WaitAdds(c, b, m, t)
    BY ONLY <1>3, <1>5, <2>1, t \in Thread, t # Idle, ListSuspendEffect
  <2> QED
    BY ONLY <2>2
<1>7. k'.prio = c.prio
  <2>1. PICK z : z = StartTimer(c, t)
    OBVIOUS
  <2>2. z.prio = c.prio
    BY ONLY <1>6, <2>1, t \in Thread, TimerEffect
  <2> QED
    BY <1>3, <2>1, <2>2
<1> QED
  BY <1>1, <1>4, <1>5, <1>6, <1>7

(* rt_mutex_take.                                                           *)
LEMMA TakeInherits ==
    ASSUME IInv, Inherits, Nesting = 1, NEW t \in Thread, NEW m \in Mutex,
           rt_mutex_take(t, m)
    PROVE  Inherits'
<1>1. /\ k \in KernelState /\ KernelConsistent(k) /\ k.nest = 0
      /\ pc[t] = "run" /\ k.stat[t] = "ready" /\ t # Idle
      /\ k.prio \in [Thread -> Priority] /\ k.err \in [Thread -> Error]
      /\ owner \in [Mutex -> Thread \union {Null}]
      /\ original_priority \in [Mutex -> Priority \union {NoPrio}]
      /\ pc \in [Thread -> PC] /\ arg \in [Thread -> Mutex \union {Null}]
  BY Caller DEF rt_mutex_take
<1>2. \A n \in Mutex : owner[n] = t => n = m
  BY OwnsNoOther DEF rt_mutex_take
<1>3. ASSUME NEW e \in Error, k' = [k EXCEPT !.err[t] = e] PROVE k'.prio = k.prio
  BY <1>1, <1>3 DEF KernelState
<1>4. k' = Cleared(t) => k'.prio = k.prio
  BY <1>3 DEF Cleared, Error
<1>5. ASSUME TakeAgain(t, m) \/ TakeBusy(t, m) PROVE Inherits'
  <2>1. /\ UNCHANGED <<owner, original_priority, pc, arg>> /\ k'.prio = k.prio
    BY <1>3, <1>4, <1>5 DEF TakeAgain, TakeBusy, mutex, Error
  <2> QED
    BY <2>1, InheritsFrame DEF NobodyStartsToWait, Waits
<1>6. ASSUME TakeFree(t, m) PROVE Inherits'
  <2>1. /\ owner[m] # t /\ k'.prio = k.prio /\ owner' = [owner EXCEPT ![m] = t]
        /\ original_priority' = [original_priority EXCEPT ![m] = k.prio[t]]
        /\ UNCHANGED <<pc, arg>>
    BY <1>4, <1>6 DEF TakeFree
  <2>2. k.prio[t] = init_priority[t]
    BY <1>2, <2>1 DEF Inherits, PriorityRestored
  <2>3. \A n \in Mutex : owner'[n] = IF n = m THEN t ELSE owner[n]
    BY <1>1, <2>1
  <2>4. PriorityRestored'
    <3>1. ASSUME NEW x \in Thread, \A n \in Mutex : owner'[n] # x
          PROVE  k'.prio[x] = init_priority[x]
      <4>1. CASE x = t
        BY <2>1, <2>2, <4>1
      <4>2. CASE x # t
        <5>1. owner[m] = Null
          BY <1>6 DEF TakeFree, IInv, FieldsAgree, TypeOK
        <5>2. \A n \in Mutex : owner[n] # x
          BY <2>3, <3>1, <5>1, MutexAssumption
        <5> QED
          BY <2>1, <5>2 DEF Inherits, PriorityRestored
      <4> QED
        BY <4>1, <4>2
    <3> QED
      BY <3>1 DEF PriorityRestored
  <2>5. \A n \in Mutex : owner'[n] # Null
            => original_priority'[n] = init_priority[owner'[n]]
    BY <1>1, <2>1, <2>2, <2>3 DEF Inherits
  <2>6. \A n, o \in Mutex : owner'[n] = owner'[o] /\ owner'[n] # Null => n = o
    BY <1>2, <2>3 DEF Inherits
  <2>7. \A x \in Thread, n \in Mutex : Waits(x)' /\ owner'[n] = x => n = arg'[x]
    BY <1>1, <2>1, <2>3 DEF Inherits, Waits
  <2> QED
    BY <2>4, <2>5, <2>6, <2>7 DEF Inherits
<1>7. ASSUME NEW timed \in BOOLEAN, TakeBlock(t, m, timed) PROVE Inherits'
  <2>1. /\ UNCHANGED <<owner, original_priority>> /\ owner[m] \in Thread
        /\ pc' = [pc EXCEPT ![t] = "take"] /\ arg' = [arg EXCEPT ![t] = m]
    BY <1>1, <1>7, MutexAssumption DEF TakeBlock, Goto, mutex, IInv, FieldsAgree
  <2>2. \A x \in Thread : x # owner[m] => k'.prio[x] = k.prio[x]
    BY <1>7, BlockPriority DEF rt_mutex_take
  <2>3. PriorityRestored'
    BY <2>1, <2>2 DEF Inherits, PriorityRestored
  <2>4. \A x \in Thread, n \in Mutex : Waits(x)' /\ owner'[n] = x => n = arg'[x]
    BY <1>1, <1>2, <2>1 DEF Inherits, Waits
  <2> QED
    BY <2>1, <2>3, <2>4 DEF Inherits
<1> QED
  BY <1>5, <1>6, <1>7 DEF rt_mutex_take

(* rt_mutex_release.                                                        *)
LEMMA ReleaseInherits ==
    ASSUME IInv, Inherits, NEW t \in Thread, NEW m \in Mutex, rt_mutex_release(t, m)
    PROVE  Inherits'
<1>1. /\ At(t, "run") /\ k \in KernelState /\ pc[t] = "run"
      /\ k.prio \in [Thread -> Priority] /\ k.err \in [Thread -> Error]
      /\ owner \in [Mutex -> Thread \union {Null}]
      /\ original_priority \in [Mutex -> Priority \union {NoPrio}]
      /\ pc \in [Thread -> PC] /\ arg \in [Thread -> Mutex \union {Null}]
  BY Caller DEF rt_mutex_release
<1>2. ASSUME ReleaseForeign(t, m) \/ ReleaseLevel(t, m) PROVE Inherits'
  <2>1. UNCHANGED <<owner, original_priority, pc, arg>> /\ k'.prio = k.prio
    BY <1>1, <1>2 DEF ReleaseForeign, ReleaseLevel, mutex, KernelState
  <2> QED
    BY <2>1, InheritsFrame DEF NobodyStartsToWait, Waits
<1>3. ASSUME owner[m] = t, NEW r, r = Restored(t, m)
      PROVE  /\ r \in KernelState /\ KernelConsistent(r) /\ SameWaits(r, k)
             /\ r.stat = k.stat /\ r.prio[t] = init_priority[t]
             /\ \A x \in Thread \ {t} : r.prio[x] = k.prio[x]
  <2>1. /\ r \in KernelState /\ KernelConsistent(r) /\ r.stat = k.stat
        /\ SameWaits(r, k) /\ r.prio = [k.prio EXCEPT ![t] = original_priority[m]]
    BY <1>1, <1>3, RestoredEffect
  <2>2. original_priority[m] = init_priority[t]
    BY <1>3, MutexAssumption DEF Inherits
  <2> QED
    BY <1>1, <2>1, <2>2
<1>4. ASSUME owner[m] = t, NEW n \in Mutex, owner[n] = t PROVE n = m
  BY <1>4, MutexAssumption DEF Inherits
<1>5. ASSUME ReleaseFree(t, m) PROVE Inherits'
  <2>1. /\ owner[m] = t /\ k' = Restored(t, m) /\ owner' = [owner EXCEPT ![m] = Null]
        /\ original_priority' = [original_priority EXCEPT ![m] = NoPrio]
        /\ UNCHANGED <<pc, arg>>
    BY <1>5 DEF ReleaseFree
  <2>2. k'.prio[t] = init_priority[t] /\ \A x \in Thread \ {t} : k'.prio[x] = k.prio[x]
    BY <1>3, <2>1
  <2>3. \A n \in Mutex : owner'[n] = IF n = m THEN Null ELSE owner[n]
    BY <1>1, <2>1
  <2>4. PriorityRestored'
    BY <2>1, <2>2, <2>3 DEF Inherits, PriorityRestored
  <2>5. \A n \in Mutex : owner'[n] # Null
            => original_priority'[n] = init_priority[owner'[n]]
    BY <1>1, <2>1, <2>3 DEF Inherits
  <2>6. \A n, o \in Mutex : owner'[n] = owner'[o] /\ owner'[n] # Null => n = o
    BY <2>3 DEF Inherits
  <2>7. \A x \in Thread, n \in Mutex : Waits(x)' /\ owner'[n] = x => n = arg'[x]
    BY <2>1, <2>3, MutexAssumption DEF Inherits, Waits
  <2> QED
    BY <2>4, <2>5, <2>6, <2>7 DEF Inherits
<1>6. ASSUME ReleaseHandOver(t, m) PROVE Inherits'
  <2>1. PICK s, w : s = Restored(t, m) /\ w = Head(s.wait[m])
    OBVIOUS
  <2>2. /\ owner[m] = t /\ k.wait[m] # <<>> /\ k' = rt_thread_resume(s, w)
        /\ owner' = [owner EXCEPT ![m] = w]
        /\ original_priority' = [original_priority EXCEPT ![m] = s.prio[w]]
        /\ pc' = [pc EXCEPT ![t] = "schedule"] /\ arg' = [arg EXCEPT ![t] = Null]
    BY <1>6, <2>1 DEF ReleaseHandOver, Goto, rt_ipc_list_resume
  <2>3. /\ s \in KernelState /\ KernelConsistent(s) /\ SameWaits(s, k) /\ s.stat = k.stat
        /\ s.prio[t] = init_priority[t] /\ \A x \in Thread \ {t} : s.prio[x] = k.prio[x]
    BY <1>3, <2>1, <2>2
  <2>4. w \in Thread /\ w \in ToSet(k.wait[m])
    <3>1. s.wait[m] \in Seq(Thread) /\ k.wait[m] \in Seq(Thread)
      BY <1>1, <2>3, FieldTypes
    <3>2. ToSet(s.wait[m]) = ToSet(k.wait[m])
      BY <2>3, MutexAssumption DEF SameWaits
    <3>3. s.wait[m] # <<>>
      BY <2>2, <3>1, <3>2, EmptyList
    <3> QED
      BY <2>1, <3>1, <3>2, <3>3, HeadIsElement
  <2>5. Waits(w) /\ arg[w] = m /\ k.stat[w] = "suspend" /\ w # t
    BY <1>1, <2>4 DEF IInv, WaitersAreQueued, Waits
  <2>6. \A n \in Mutex : owner[n] # w
    BY <2>2, <2>4, <2>5 DEF Inherits
  <2>7. s.prio[w] = init_priority[w]
    BY <2>3, <2>4, <2>5, <2>6 DEF Inherits, PriorityRestored
  <2>8. k'.prio = s.prio
    <3>1. /\ s \in KernelState /\ KernelConsistent(s) /\ w \in Thread
          /\ s.stat[w] = "suspend" /\ k' = rt_thread_resume(s, w)
      BY <2>2, <2>3, <2>4, <2>5
    <3>2. /\ k' \in KernelState
          /\ KernelConsistent(k')
          /\ k'.stat = [s.stat EXCEPT ![w] = "ready"]
          /\ k'.timer = [s.timer EXCEPT ![w] = FALSE]
          /\ k'.prio = s.prio /\ k'.cur = s.cur /\ k'.nest = s.nest /\ k'.err = s.err
          /\ WaitDrops(k', s, w)
      BY ONLY <3>1, ResumeEffect
    <3> QED
      BY ONLY <3>2
  <2>9. \A n \in Mutex : owner'[n] = IF n = m THEN w ELSE owner[n]
    BY <1>1, <2>2
  <2>10. PriorityRestored'
    <3>1. ASSUME NEW x \in Thread, \A n \in Mutex : owner'[n] # x
          PROVE  k'.prio[x] = init_priority[x]
      <4>1. x # t => \A n \in Mutex : owner[n] # x
        BY <2>2, <2>9, <3>1
      <4> QED
        BY <2>3, <2>8, <3>1, <4>1 DEF Inherits, PriorityRestored
    <3> QED
      BY <3>1 DEF PriorityRestored
  <2>11. \A n \in Mutex : owner'[n] # Null
             => original_priority'[n] = init_priority[owner'[n]]
    BY <1>1, <2>2, <2>7, <2>9 DEF Inherits
  <2>12. \A n, o \in Mutex : owner'[n] = owner'[o] /\ owner'[n] # Null => n = o
    BY <2>6, <2>9 DEF Inherits
  <2>13. \A x \in Thread, n \in Mutex : Waits(x)' /\ owner'[n] = x => n = arg'[x]
    BY <1>1, <2>2, <2>5, <2>9 DEF Inherits, Waits
  <2> QED
    BY <2>10, <2>11, <2>12, <2>13 DEF Inherits
<1> QED
  BY <1>2, <1>5, <1>6 DEF rt_mutex_release

(* Programs that hold one mutex at a time get their priority back: a thread   *)
(* that owns no mutex runs at its own priority, whoever waited for it, timed  *)
(* out or was handed the mutex, for any threads, mutexes and priorities.      *)
(* With two mutexes it is false (see the run mutex_restore).                  *)
THEOREM PriorityAlwaysRestored ==
    ASSUME Nesting = 1 PROVE Spec => []PriorityRestored
<1>1. Init => Inherits
  <2> SUFFICES ASSUME Init PROVE Inherits
    OBVIOUS
  <2>1. k.prio = init_priority
    BY InitEffect DEF Init
  <2> QED
    BY <2>1, MutexAssumption DEF Init, Inherits, PriorityRestored, Waits
<1>2. IInv /\ Inherits /\ [Next]_vars => Inherits'
  BY QuietInherits, TakeInherits, ReleaseInherits DEF Next
<1>3. Inherits => PriorityRestored
  BY DEF Inherits
<1> QED
  BY <1>1, <1>2, <1>3, Invariance, PTL DEF Spec
=============================================================================
