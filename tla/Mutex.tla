-------------------------------- MODULE Mutex --------------------------------
(***************************************************************************)
(* Mutexes with priority inheritance: rt_mutex_init, rt_mutex_take and     *)
(* rt_mutex_release of os/ipc.c over the ready queue of Kernel.tla.        *)
(*                                                                         *)
(* Threads take and release mutexes in any order, and sleep; a thread      *)
(* makes a step only while it is rt_current_thread, one interrupt-disabled *)
(* section at a time.  Between two sections the tick interrupt may rotate  *)
(* equal threads or expire a timed wait.                                   *)
(***************************************************************************)
EXTENDS Kernel

CONSTANTS
    Mutex,    \* the mutex objects
    flag,     \* [Mutex -> {"FIFO", "PRIO"}]: how waiters queue
    Null,     \* RT_NULL: no owner, no mutex
    NoPrio,   \* original_priority of a free mutex, 0xff
    HoldMax,  \* RT_MUTEX_HOLD_MAX
    Nesting   \* how many mutexes a program holds or waits for at a time

ASSUME MutexAssumption ==
    /\ IsFiniteSet(Mutex) /\ WaitList = Mutex
    /\ flag \in [Mutex -> {"FIFO", "PRIO"}]
    /\ Null \notin Thread \union Mutex
    /\ NoPrio \notin Priority
    /\ HoldMax \in Nat \ {0}
    /\ Nesting \in Nat \ {0}

VARIABLES
    k,                 \* the kernel state of Kernel.tla
    value,             \* mutex->value
    owner,             \* mutex->owner
    original_priority, \* mutex->original_priority
    hold,              \* mutex->hold
    pc,                \* where each thread is inside a call
    arg,               \* the mutex a blocked take is about
    held               \* history: successful takes not yet undone, per thread

vars == <<k, value, owner, original_priority, hold, pc, arg, held>>
mutex == <<value, owner, original_priority, hold>>

\* "run"       outside the kernel
\* "take"      on the wait list, about to call rt_schedule in rt_mutex_take
\* "taken"     back from that rt_schedule, about to look at thread->error
\* "schedule"  about to call rt_schedule at the end of rt_mutex_release
PC == {"run", "take", "taken", "schedule"}

TypeOK ==
    /\ k \in KernelState
    /\ value \in [Mutex -> {0, 1}]
    /\ owner \in [Mutex -> Thread \union {Null}]
    /\ original_priority \in [Mutex -> Priority \union {NoPrio}]
    /\ hold \in [Mutex -> 0 .. HoldMax]
    /\ pc \in [Thread -> PC]
    /\ arg \in [Thread -> Mutex \union {Null}]
    /\ held \in [Thread -> [Mutex -> 0 .. HoldMax]]

\* Every thread is started, every mutex initialised (rt_mutex_init).
Init ==
    /\ k = KernelInit(Thread)
    /\ value = [m \in Mutex |-> 1]
    /\ owner = [m \in Mutex |-> Null]
    /\ original_priority = [m \in Mutex |-> NoPrio]
    /\ hold = [m \in Mutex |-> 0]
    /\ pc = [t \in Thread |-> "run"]
    /\ arg = [t \in Thread |-> Null]
    /\ held = [t \in Thread |-> [m \in Mutex |-> 0]]

At(t, c) == k.cur = t /\ pc[t] = c

Goto(t, c, m) ==
    /\ pc' = [pc EXCEPT ![t] = c]
    /\ arg' = [arg EXCEPT ![t] = m]

\* Histories of what the return values told the program.
Gained(t, m) == held' = [held EXCEPT ![t][m] = @ + 1]
Lost(t, m) == held' = [held EXCEPT ![t][m] = @ - 1]

-----------------------------------------------------------------------------
(* rt_mutex_take *)

\* thread->error = RT_EOK
Cleared(t) == [k EXCEPT !.err[t] = "EOK"]

\* Mutant: the limit of levels is tested too late.
TakeAgain_past_limit(t, m) ==
    /\ owner[m] = t
    /\ k' = Cleared(t)
    /\ IF hold[m] <= HoldMax
       THEN hold' = [hold EXCEPT ![m] = @ + 1] /\ Gained(t, m)
       ELSE UNCHANGED <<hold, held>>
    /\ UNCHANGED <<value, owner, original_priority, pc, arg>>

\* The caller owns the mutex: one more level, or -RT_EFULL at the limit.
TakeAgain(t, m) ==
    /\ owner[m] = t
    /\ k' = Cleared(t)
    /\ IF hold[m] < HoldMax
       THEN hold' = [hold EXCEPT ![m] = @ + 1] /\ Gained(t, m)
       ELSE UNCHANGED <<hold, held>>
    /\ UNCHANGED <<value, owner, original_priority, pc, arg>>

\* The mutex is free: become its owner and note the priority to go back to.
TakeFree(t, m) ==
    /\ owner[m] # t /\ value[m] > 0
    /\ k' = Cleared(t)
    /\ value' = [value EXCEPT ![m] = @ - 1]
    /\ owner' = [owner EXCEPT ![m] = t]
    /\ original_priority' = [original_priority EXCEPT ![m] = k.prio[t]]
    /\ hold' = [hold EXCEPT ![m] = @ + 1]
    /\ Gained(t, m)
    /\ UNCHANGED <<pc, arg>>

\* The mutex is taken and the caller does not wait: -RT_ETIMEOUT.
TakeBusy(t, m) ==
    /\ owner[m] # t /\ value[m] = 0
    /\ k' = [k EXCEPT !.err[t] = "ETIMEOUT"]
    /\ UNCHANGED <<mutex, pc, arg, held>>

\* Mutant: the owner is not raised to the priority of the thread that waits.
Raised_not(s, t, m) == s

\* The owner inherits the caller's priority if that is more urgent.
Raised(s, t, m) ==
    IF s.prio[t] < s.prio[owner[m]]
    THEN ChangePriority(s, owner[m], s.prio[t])
    ELSE s

\* The mutex is taken: raise the owner, wait, with a timer if the time is
\* finite.
TakeBlock(t, m, timed) ==
    /\ owner[m] # t /\ value[m] = 0
    /\ LET s == rt_ipc_list_suspend(Raised(Cleared(t), t, m), m, t, flag[m])
       IN  k' = IF timed THEN StartTimer(s, t) ELSE s
    /\ Goto(t, "take", m)
    /\ UNCHANGED <<mutex, held>>

\* Nesting bounds the programs, not the kernel.
rt_mutex_take(t, m) ==
    /\ At(t, "run") /\ t # Idle
    /\ Cardinality({n \in Mutex : held[t][n] > 0} \union {m}) <= Nesting
    /\ \/ TakeAgain(t, m) \/ TakeFree(t, m) \/ TakeBusy(t, m)
       \/ \E timed \in BOOLEAN : TakeBlock(t, m, timed)

\* rt_schedule of the blocked caller.
TakeSchedule(t) ==
    /\ At(t, "take")
    /\ k' = rt_schedule(k)
    /\ Goto(t, "taken", arg[t])
    /\ UNCHANGED <<mutex, held>>

\* Mutant: the error left by the timer is not looked at.
TakeReturn_ignores_error(t) ==
    /\ At(t, "taken")
    /\ Goto(t, "run", Null)
    /\ Gained(t, arg[t])
    /\ UNCHANGED <<k, mutex>>

\* The caller runs again: an error means it does not own the mutex.
TakeReturn(t) ==
    /\ At(t, "taken")
    /\ Goto(t, "run", Null)
    /\ IF k.err[t] = "EOK" THEN Gained(t, arg[t]) ELSE UNCHANGED held
    /\ UNCHANGED <<k, mutex>>

-----------------------------------------------------------------------------
(* rt_mutex_release *)

\* Only the owner may release: -RT_ERROR otherwise.
ReleaseForeign(t, m) ==
    /\ owner[m] # t
    /\ k' = [k EXCEPT !.err[t] = "ERROR"]
    /\ UNCHANGED <<mutex, pc, arg, held>>

\* One level less, still held.
ReleaseLevel(t, m) ==
    /\ owner[m] = t /\ hold[m] > 1
    /\ hold' = [hold EXCEPT ![m] = @ - 1]
    /\ Lost(t, m)
    /\ UNCHANGED <<k, value, owner, original_priority, pc, arg>>

\* Mutant: the owner keeps the priority it inherited.
Restored_not(t, m) == k

\* The owner goes back to the priority noted when it took the mutex.
Restored(t, m) ==
    IF original_priority[m] # k.prio[t]
    THEN ChangePriority(k, t, original_priority[m])
    ELSE k

\* The last level, with a waiter: the mutex passes to the first one.
ReleaseHandOver(t, m) ==
    /\ owner[m] = t /\ hold[m] = 1 /\ k.wait[m] # <<>>
    /\ LET s == Restored(t, m)
           w == Head(s.wait[m])
       IN  /\ k' = rt_ipc_list_resume(s, m)
           /\ owner' = [owner EXCEPT ![m] = w]
           /\ original_priority' = [original_priority EXCEPT ![m] = s.prio[w]]
    /\ hold' = [hold EXCEPT ![m] = (@ - 1) + 1]
    /\ Lost(t, m)
    /\ Goto(t, "schedule", Null)
    /\ UNCHANGED value

\* The last level, nobody waits: the mutex is free, and nothing is scheduled
\* even when the caller just became less urgent.
ReleaseFree(t, m) ==
    /\ owner[m] = t /\ hold[m] = 1 /\ k.wait[m] = <<>>
    /\ k' = Restored(t, m)
    /\ value' = [value EXCEPT ![m] = @ + 1]
    /\ owner' = [owner EXCEPT ![m] = Null]
    /\ original_priority' = [original_priority EXCEPT ![m] = NoPrio]
    /\ hold' = [hold EXCEPT ![m] = @ - 1]
    /\ Lost(t, m)
    /\ UNCHANGED <<pc, arg>>

rt_mutex_release(t, m) ==
    /\ At(t, "run") /\ t # Idle
    /\ \/ ReleaseForeign(t, m) \/ ReleaseLevel(t, m)
       \/ ReleaseHandOver(t, m) \/ ReleaseFree(t, m)

ReleaseSchedule(t) ==
    /\ At(t, "schedule")
    /\ k' = rt_schedule(k)
    /\ Goto(t, "run", Null)
    /\ UNCHANGED <<mutex, held>>

-----------------------------------------------------------------------------
(* The rest of the system, as far as it decides who runs *)

\* rt_thread_sleep (Sched.tla has its sections one by one; the error it clears
\* at its end is cleared again by every call that looks at it).
rt_thread_sleep(t) ==
    /\ At(t, "run") /\ t # Idle
    /\ k' = rt_schedule(StartTimer(rt_thread_suspend(k, t), t))
    /\ UNCHANGED <<mutex, pc, arg, held>>

\* The end of a time slice in rt_tick_increase.
SliceEnd ==
    /\ Yields(k)
    /\ k' = rt_schedule(Requeue(k))
    /\ UNCHANGED <<mutex, pc, arg, held>>

\* rt_timer_check expires the timer of a waiting or sleeping thread.
Timeout(u) ==
    /\ k.timer[u]
    /\ k' = rt_thread_timeout(k, u)
    /\ UNCHANGED <<mutex, pc, arg, held>>

InCall(t) == TakeSchedule(t) \/ TakeReturn(t) \/ ReleaseSchedule(t)

Next ==
    \/ \E t \in Thread :
           \/ InCall(t) \/ rt_thread_sleep(t)
           \/ \E m \in Mutex : rt_mutex_take(t, m) \/ rt_mutex_release(t, m)
    \/ SliceEnd
    \/ \E u \in Thread : Timeout(u)

Spec == Init /\ [][Next]_vars

\* The tick interrupt keeps coming, so active timers expire; a thread that is
\* given the processor again and again finishes the call it is in; and
\* programs release what they hold, the last level of it included.
Fairness ==
    /\ \A t \in Thread : SF_vars(InCall(t)) /\ WF_vars(Timeout(t))
    /\ \A t \in Thread, m \in Mutex :
           /\ SF_vars(rt_mutex_release(t, m) /\ owner[m] = t)
           /\ SF_vars(rt_mutex_release(t, m) /\ owner[m] = t /\ hold[m] = 1)

FairSpec == Spec /\ Fairness

-----------------------------------------------------------------------------
(* Properties *)

\* The fields of a mutex agree: it is free (value 1) exactly when it has no
\* owner and no level, and a thread never waits for a mutex nobody owns, so
\* that a release by the owner is bound to come (rt_mutex_take/_release).
FieldsAgree ==
    \A m \in Mutex :
        /\ value[m] = 1 <=> owner[m] = Null
        /\ owner[m] = Null <=> hold[m] = 0
        /\ owner[m] = Null <=> original_priority[m] = NoPrio
        /\ owner[m] = Null => k.wait[m] = <<>>

\* A thread whose takes returned RT_EOK owns the mutex at that very level, and
\* the owner of a mutex either had its RT_EOK or has been handed the mutex and
\* has still to return from rt_mutex_take: a timeout racing with a release can
\* neither lose the mutex nor give it to two threads.
ReturnedMeansOwned ==
    \A t \in Thread, m \in Mutex :
        /\ held[t][m] > 0 => owner[m] = t
        /\ owner[m] = t =>
               \/ held[t][m] = hold[m]
               \/ /\ held[t][m] = 0 /\ hold[m] = 1
                  /\ pc[t] \in {"take", "taken"} /\ arg[t] = m
                  /\ k.stat[t] # "suspend" => k.err[t] = "EOK"

\* A thread suspended inside rt_mutex_take is on the wait list of that mutex,
\* and only such threads are: no wake-up can miss a waiter.
WaitersAreQueued ==
    \A t \in Thread, m \in Mutex :
        t \in ToSet(k.wait[m])
            <=> pc[t] \in {"take", "taken"} /\ arg[t] = m /\ k.stat[t] = "suspend"

\* The ready table stays consistent while priorities are raised and restored.
ReadyTableConsistent ==
    LinkedByStat(k, Thread) /\ ListsAreSets(k) /\ GroupMatchesTable(k)

\* The mutexes, their wait lists and the ready table agree after every step of
\* rt_mutex_take and rt_mutex_release, whatever times out in between.
MutexConsistent == FieldsAgree /\ WaitersAreQueued /\ ReadyTableConsistent

\* A thread that owns no mutex runs at its own priority: "change the owner
\* thread to original priority" (rt_mutex_release) undoes every inheritance.
PriorityRestored ==
    \A t \in Thread :
        (\A m \in Mutex : owner[m] # t) => k.prio[t] = init_priority[t]

\* The most urgent thread, once it waits for a mutex, gets out of the wait list
\* again, even while a thread of an urgency between it and the owner never stops
\* running: the owner runs in its place until it releases.
WaiterIsServed ==
    \A t \in Thread, m \in Mutex :
        (\A u \in Thread \ {t} : init_priority[t] < init_priority[u]) =>
            (t \in ToSet(k.wait[m]) ~> t \notin ToSet(k.wait[m]))
=============================================================================
