------------------------------- MODULE Kernel -------------------------------
(***************************************************************************)
(* The thread table and the ready queue of the RT-Thread kernel            *)
(* (os/scheduler.c, the parts of os/thread.c that link and unlink threads, *)
(* and the wait-list helpers at the top of os/ipc.c), as functions from    *)
(* one kernel state to the next.  The kernel runs on one core and excludes *)
(* interrupts while it edits these structures, so a handler composes the   *)
(* functions of one interrupt-disabled section into one step.              *)
(*                                                                         *)
(* A kernel state k is a record:                                           *)
(*   stat    the RT_THREAD_* state of each thread ("none": no object)      *)
(*   prio    current_priority (a smaller number is more urgent)            *)
(*   ready   rt_thread_priority_table: one list of threads per priority    *)
(*   group   rt_thread_ready_priority_group, as the set of bits set        *)
(*   cur     rt_current_thread                                             *)
(*   nest    rt_scheduler_lock_nest                                        *)
(*   err     thread->error                                                 *)
(*   timer   whether the thread's own timer is active (Timer.tla has the   *)
(*           timer list itself; here an active timer may expire any time)  *)
(*   wait    every other list a thread's single tlist node can be on: the  *)
(*           suspend lists of IPC objects, and rt_thread_defunct           *)
(***************************************************************************)
EXTENDS Naturals, FiniteSets, SequencesExt

CONSTANTS
    Thread,        \* the thread objects
    Idle,          \* the idle thread, tidle
    Priority,      \* 0 .. RT_THREAD_PRIORITY_MAX - 1
    init_priority, \* [Thread -> Priority]
    WaitList       \* the heads of the lists in k.wait

ASSUME KernelAssumption ==
    /\ IsFiniteSet(Thread)
    /\ Idle \in Thread
    /\ Priority \subseteq Nat
    /\ init_priority \in [Thread -> Priority]

Stat == {"none", "init", "ready", "suspend", "close"}

Error == {"EOK", "ETIMEOUT", "ERROR"}

KernelState ==
    [ stat  : [Thread -> Stat],
      prio  : [Thread -> Priority],
      ready : [Priority -> Seq(Thread)],
      group : SUBSET Priority,
      cur   : Thread,
      nest  : Nat,
      err   : [Thread -> Error],
      timer : [Thread -> BOOLEAN],
      wait  : [WaitList -> Seq(Thread)] ]

-----------------------------------------------------------------------------
(* The ready queue *)

\* rt_list_remove(&thread->tlist): off whichever list the node is on.
Unlink(k, t) ==
    [k EXCEPT !.ready = [p \in Priority |-> RemoveFirst(k.ready[p], t)],
              !.wait  = [l \in WaitList |-> RemoveFirst(k.wait[l], t)]]

\* Mutant: the thread is queued at the priority it was created with.
rt_schedule_insert_thread_init_priority(k, t) ==
    [k EXCEPT !.stat[t] = "ready",
              !.ready[init_priority[t]] = Append(@, t),
              !.group = @ \union {init_priority[t]}]

\* Make the thread READY, at the tail of the list of its priority.
rt_schedule_insert_thread(k, t) ==
    [k EXCEPT !.stat[t] = "ready",
              !.ready[k.prio[t]] = Append(@, t),
              !.group = @ \union {k.prio[t]}]

\* Mutant: the bit is cleared although others are on the list.
rt_schedule_remove_thread_clears_bit(k, t) ==
    [Unlink(k, t) EXCEPT !.group = @ \ {k.prio[t]}]

\* Unlink the thread; clear the bit of its priority if that list is now empty.
rt_schedule_remove_thread(k, t) ==
    LET u == Unlink(k, t)
    IN  IF u.ready[k.prio[t]] = <<>>
        THEN [u EXCEPT !.group = @ \ {k.prio[t]}]
        ELSE u

\* __rt_ffs(rt_thread_ready_priority_group) - 1
HighestReady(k) == Min(k.group)

\* Switch to the first thread of the most urgent list, unless locked.
rt_schedule(k) ==
    IF k.nest = 0
    THEN [k EXCEPT !.cur = Head(k.ready[HighestReady(k)])]
    ELSE k

-----------------------------------------------------------------------------
(* Threads *)

\* rt_thread_suspend after its check that the thread is READY.
Suspend(k, t) ==
    [rt_schedule_remove_thread(k, t) EXCEPT !.stat[t] = "suspend",
                                            !.timer[t] = FALSE]

rt_thread_suspend(k, t) ==
    IF k.stat[t] = "ready" THEN Suspend(k, t) ELSE k

\* The first section of rt_thread_resume: off the suspend list, timer stopped.
Detach(k, t) == [Unlink(k, t) EXCEPT !.timer[t] = FALSE]

rt_thread_resume(k, t) ==
    IF k.stat[t] = "suspend"
    THEN rt_schedule_insert_thread(Detach(k, t), t)
    ELSE k

\* rt_thread_control(thread, RT_THREAD_CTRL_CHANGE_PRIORITY, &p): a ready
\* thread moves to the tail of its new list, any other one keeps its place.
ChangePriority(k, t, p) ==
    IF k.stat[t] = "ready"
    THEN rt_schedule_insert_thread(
             [rt_schedule_remove_thread(k, t) EXCEPT !.prio[t] = p], t)
    ELSE [k EXCEPT !.prio[t] = p]

\* Mutant: the expiry does not schedule.
rt_thread_timeout_no_schedule(k, t) ==
    rt_schedule_insert_thread(
        [Unlink(k, t) EXCEPT !.timer[t] = FALSE, !.err[t] = "ETIMEOUT"], t)

\* The expiry of a thread's timer (run by rt_timer_check, which has already
\* deactivated the one-shot timer), up to and including its rt_schedule.
rt_thread_timeout(k, t) ==
    rt_schedule(rt_schedule_insert_thread(
        [Unlink(k, t) EXCEPT !.timer[t] = FALSE, !.err[t] = "ETIMEOUT"], t))

\* Mutant: the yielding thread goes back to the head of its list.
Requeue_at_head(k) ==
    [k EXCEPT !.ready[k.prio[k.cur]] = <<k.cur>> \o RemoveFirst(@, k.cur)]

\* rt_thread_yield up to its rt_schedule: to the tail, if not alone there.
Requeue(k) ==
    [k EXCEPT !.ready[k.prio[k.cur]] = Append(RemoveFirst(@, k.cur), k.cur)]

Yields(k) == k.stat[k.cur] = "ready" /\ Len(k.ready[k.prio[k.cur]]) > 1

-----------------------------------------------------------------------------
(* Wait lists of IPC objects *)

\* Mutant: waiters are linked in front.
WaitPosition_at_head(k, l, t, flag) == 1

\* Where rt_ipc_list_suspend links t: at the tail (FIFO), or before the first
\* thread that is strictly less urgent (PRIO).
WaitPosition(k, l, t, flag) ==
    LET less == SelectInSeq(k.wait[l], LAMBDA u : k.prio[t] < k.prio[u])
    IN  IF flag = "PRIO" /\ less # 0 THEN less ELSE Len(k.wait[l]) + 1

LinkAt(k, l, n, t) == [k EXCEPT !.wait[l] = InsertAt(k.wait[l], n, t)]

rt_ipc_list_suspend(k, l, t, flag) ==
    LET s == rt_thread_suspend(k, t)
    IN  LinkAt(s, l, WaitPosition(s, l, t, flag), t)

rt_ipc_list_resume(k, l) == rt_thread_resume(k, Head(k.wait[l]))

\* One round of rt_ipc_list_resume_all.
ResumeWithError(k, t) == rt_thread_resume([k EXCEPT !.err[t] = "ERROR"], t)

\* rt_ipc_list_resume_all called with interrupts disabled.
rt_ipc_list_resume_all(k, l) ==
    LET after[n \in 0 .. Len(k.wait[l])] ==  \* the state after n rounds
            IF n = 0 THEN k ELSE ResumeWithError(after[n - 1], k.wait[l][n])
    IN  after[Len(k.wait[l])]

\* rt_timer_control(SET_TIME) and rt_timer_start on the thread's own timer.
StartTimer(k, t) == [k EXCEPT !.timer[t] = TRUE]

-----------------------------------------------------------------------------
(* Start of the system *)

\* The ready lists of a set of threads at their initial priorities.
TableOf(S) ==
    [p \in Priority |-> SetToSeq({t \in S : init_priority[t] = p})]

\* rt_system_scheduler_init, the startup of the threads in S, and
\* rt_system_scheduler_start, which switches to the most urgent of them.
KernelInit(S) ==
    LET table == TableOf(S)
        bits  == {p \in Priority : table[p] # <<>>}
    IN  [ stat  |-> [t \in Thread |-> IF t \in S THEN "ready" ELSE "none"],
          prio  |-> init_priority,
          ready |-> table,
          group |-> bits,
          cur   |-> Head(table[Min(bits)]),
          nest  |-> 0,
          err   |-> [t \in Thread |-> "EOK"],
          timer |-> [t \in Thread |-> FALSE],
          wait  |-> [l \in WaitList |-> <<>>] ]

-----------------------------------------------------------------------------
(* What the structures must satisfy *)

Listed(k, t) == {p \in Priority : t \in ToSet(k.ready[p])}

\* A bit of the priority group is set exactly when its list has a thread.
GroupMatchesTable(k) == k.group = {p \in Priority : k.ready[p] # <<>>}

\* A thread of the set S is on the ready list of its own priority, once, when
\* it is READY, and on no ready list otherwise; it waits on one list at most,
\* and only while it is not READY.
LinkedByStat(k, S) ==
    \A t \in S :
        /\ Listed(k, t) = IF k.stat[t] = "ready" THEN {k.prio[t]} ELSE {}
        /\ \A l \in WaitList : t \in ToSet(k.wait[l]) => k.stat[t] # "ready"
        /\ \A l, m \in WaitList :
               t \in ToSet(k.wait[l]) /\ t \in ToSet(k.wait[m]) => l = m

ListsAreSets(k) ==
    /\ \A p \in Priority : IsInjective(k.ready[p])
    /\ \A l \in WaitList : IsInjective(k.wait[l])

\* The whole table agrees; the idle thread is READY, so that rt_schedule always
\* finds a thread.
KernelConsistent(k) ==
    /\ GroupMatchesTable(k)
    /\ LinkedByStat(k, Thread)
    /\ ListsAreSets(k)
    /\ k.stat[Idle] = "ready"

\* The running thread is READY and no thread in the ready queue is more urgent.
HighestRuns(k) ==
    /\ k.stat[k.cur] = "ready"
    /\ \A t \in Thread : Listed(k, t) # {} => k.prio[k.cur] <= k.prio[t]
=============================================================================
