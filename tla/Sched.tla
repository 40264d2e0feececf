-------------------------------- MODULE Sched --------------------------------
(***************************************************************************)
(* Threads over the ready queue: os/thread.c, the scheduler lock of        *)
(* os/scheduler.c, the time slice of os/clock.c and the reclaiming loop of *)
(* os/idle.c.  The running thread executes its next interrupt-disabled     *)
(* section; between any two sections the tick interrupt may run.           *)
(***************************************************************************)
EXTENDS Kernel

CONSTANTS
    Controller,  \* threads that start, suspend, resume, delete other threads
    Static,      \* threads whose object is not on the heap (rt_thread_init)
    Started,     \* threads that are already started in the initial state
    init_tick,   \* length of a time slice, in ticks
    MaxNest,     \* bound on nested rt_enter_critical calls
    DeleteTimed  \* may a thread be deleted while its timer is running?

ASSUME SchedAssumption ==
    /\ Controller \subseteq Thread \ {Idle}
    /\ Static \subseteq Thread
    /\ Started \subseteq Thread /\ Idle \in Started
    /\ init_tick \in Nat \ {0}
    /\ MaxNest \in Nat
    /\ DeleteTimed \in BOOLEAN
    /\ WaitList = {"rt_thread_defunct"}
    /\ \A t \in Thread : init_priority[t] <= init_priority[Idle]

VARIABLES
    k,              \* the kernel state of Kernel.tla
    remaining_tick, \* what is left of each thread's time slice
    pc,             \* where each thread is inside a kernel call
    arg,            \* the thread that call is about
    owed            \* history: an urgency change not yet followed by rt_schedule

vars == <<k, remaining_tick, pc, arg, owed>>

\* "run"       outside the kernel
\* "schedule"  about to call rt_schedule, the last thing the call does
\* "sleep"     suspended by rt_thread_sleep, about to call rt_schedule
\* "wake"      back from rt_schedule in rt_thread_sleep
\* "suspend"   rt_thread_suspend has read the READY state, not yet locked
\* "resume"    rt_thread_resume has read the SUSPEND state, not yet locked
\* "insert"    rt_thread_resume has unlinked the thread, not yet inserted it
\* "startup"   the same point, reached from rt_thread_startup
\* "delete"    rt_thread_delete/_detach has left the ready queue
\* "close"     ... and has detached the thread timer
PC == {"run", "schedule", "sleep", "wake", "suspend", "resume", "insert",
       "startup", "delete", "close"}

defunct == k.wait["rt_thread_defunct"]

TypeOK ==
    /\ k \in KernelState
    /\ remaining_tick \in [Thread -> 1 .. init_tick]
    /\ pc \in [Thread -> PC]
    /\ arg \in [Thread -> Thread]
    /\ owed \in BOOLEAN

Init ==
    /\ k = KernelInit(Started)
    /\ remaining_tick = [t \in Thread |-> init_tick]
    /\ pc = [t \in Thread |-> "run"]
    /\ arg = [t \in Thread |-> t]
    /\ owed = FALSE

-----------------------------------------------------------------------------
\* Thread t is running and stands at point c of a kernel call.
At(t, c) == k.cur = t /\ pc[t] = c

\* t enters (or goes on to) point c of a call about thread u.
Goto(t, c, u) ==
    /\ pc' = [pc EXCEPT ![t] = c]
    /\ arg' = [arg EXCEPT ![t] = u]

\* No third thread is inside a call about u: programs keep a thread alive, and
\* leave its control to one thread, while its handle is in use.
Exclusive(t, u) == \A c \in Thread \ {t, u} : pc[c] # "run" => arg[c] # u

\* rt_schedule, as the last step of the call thread t is in.
ScheduleStep(t) ==
    /\ At(t, "schedule")
    /\ k' = rt_schedule(k)
    /\ owed' = (owed /\ k.nest # 0)
    /\ Goto(t, "run", t)
    /\ UNCHANGED remaining_tick

\* rt_thread_create / rt_thread_init: a new thread object, in state INIT.
rt_thread_init(t, u) ==
    /\ At(t, "run") /\ t \in Controller
    /\ k.stat[u] = "none" \/ (u \in Static /\ k.stat[u] = "close")
    /\ Exclusive(t, u)
    /\ k' = [k EXCEPT !.stat[u] = "init", !.prio[u] = init_priority[u],
                      !.err[u] = "EOK", !.timer[u] = FALSE]
    /\ remaining_tick' = [remaining_tick EXCEPT ![u] = init_tick]
    /\ pc' = [pc EXCEPT ![u] = "run"]
    /\ UNCHANGED <<arg, owed>>

\* rt_thread_startup up to the first section of its rt_thread_resume.
rt_thread_startup(t, u) ==
    /\ At(t, "run") /\ t \in Controller
    /\ k.stat[u] = "init"
    /\ Exclusive(t, u)
    /\ k' = Detach([k EXCEPT !.prio[u] = init_priority[u],
                             !.stat[u] = "suspend"], u)
    /\ Goto(t, "startup", u)
    /\ UNCHANGED <<remaining_tick, owed>>

\* The check of rt_thread_resume, made before interrupts are disabled.
ResumeCheck(t, u) ==
    /\ At(t, "run") /\ t \in Controller /\ u # t
    /\ k.stat[u] = "suspend"
    /\ Exclusive(t, u)
    /\ Goto(t, "resume", u)
    /\ UNCHANGED <<k, remaining_tick, owed>>

\* The first section of rt_thread_resume, whatever the state is by now.
ResumeDetach(t) ==
    /\ At(t, "resume")
    /\ k' = Detach(k, arg[t])
    /\ Goto(t, "insert", arg[t])
    /\ UNCHANGED <<remaining_tick, owed>>

\* rt_schedule_insert_thread at the end of rt_thread_resume, which does not
\* schedule: its caller may.  rt_thread_startup does.
ResumeInsert(t) ==
    /\ At(t, "insert") \/ At(t, "startup")
    /\ k' = rt_schedule_insert_thread(k, arg[t])
    /\ IF pc[t] = "startup" THEN Goto(t, "schedule", t) ELSE Goto(t, "run", t)
    /\ owed' = TRUE
    /\ UNCHANGED remaining_tick

\* The check of rt_thread_suspend, made before interrupts are disabled.
SuspendCheck(t, u) ==
    /\ At(t, "run") /\ t \in Controller
    /\ k.stat[u] = "ready" /\ u # Idle /\ (u = t => k.nest = 0)
    /\ Exclusive(t, u)
    /\ Goto(t, "suspend", u)
    /\ UNCHANGED <<k, remaining_tick, owed>>

\* The rest of rt_thread_suspend, whatever the state is by now; a thread that
\* suspends itself must call rt_schedule next.
SuspendDo(t) ==
    /\ At(t, "suspend")
    /\ k' = Suspend(k, arg[t])
    /\ IF arg[t] = t THEN Goto(t, "schedule", t) ELSE Goto(t, "run", t)
    /\ UNCHANGED <<remaining_tick, owed>>

\* RT_THREAD_CTRL_CHANGE_PRIORITY, which does not schedule either.
rt_thread_control(t, u, p) ==
    /\ At(t, "run") /\ t \in Controller
    /\ k.stat[u] \in {"ready", "suspend"} /\ u # Idle
    /\ p # k.prio[u] /\ p < init_priority[Idle]
    /\ Exclusive(t, u)
    /\ k' = ChangePriority(k, u, p)
    /\ owed' = TRUE
    /\ UNCHANGED <<remaining_tick, pc, arg>>

\* rt_thread_delete (heap object) or rt_thread_detach (static object), first
\* section: off the ready queue or whatever list the thread is on.
rt_thread_delete(t, u) ==
    /\ At(t, "run") /\ t \in Controller
    /\ u \notin {t, Idle} /\ k.stat[u] \notin {"none", "close"}
    /\ ~DeleteTimed => ~k.timer[u]
    /\ Exclusive(t, u)
    /\ k' = IF k.stat[u] = "init" THEN k ELSE rt_schedule_remove_thread(k, u)
    /\ Goto(t, "delete", u)
    /\ UNCHANGED <<remaining_tick, owed>>

\* rt_timer_detach(&thread->thread_timer)
DeleteTimer(t) ==
    /\ At(t, "delete")
    /\ k' = [k EXCEPT !.timer[arg[t]] = FALSE]
    /\ Goto(t, "close", arg[t])
    /\ UNCHANGED <<remaining_tick, owed>>

\* State CLOSE, and for a heap object the defunct list; nothing unlinks the
\* node again.
DeleteClose(t) ==
    /\ At(t, "close")
    /\ LET u == arg[t] IN
       k' = [k EXCEPT !.stat[u] = "close",
                      !.wait["rt_thread_defunct"] =
                          IF u \in Static THEN @ ELSE <<u>> \o @]
    /\ Goto(t, "run", t)
    /\ UNCHANGED <<remaining_tick, owed>>

\* rt_thread_exit: the entry function has returned.
rt_thread_exit(t) ==
    /\ At(t, "run") /\ t \notin {Idle} \union Controller /\ k.nest = 0
    /\ Exclusive(t, t)
    /\ k' = rt_schedule(
              [rt_schedule_remove_thread(k, t) EXCEPT
                  !.stat[t] = "close", !.timer[t] = FALSE,
                  !.wait["rt_thread_defunct"] =
                      IF t \in Static THEN @ ELSE <<t>> \o @])
    /\ owed' = FALSE
    /\ UNCHANGED <<remaining_tick, pc, arg>>

\* Mutant: the reclaimed thread stays on the defunct list.
rt_thread_idle_excute_keeps_link ==
    /\ At(Idle, "run") /\ defunct # <<>>
    /\ k' = [k EXCEPT !.stat[Head(defunct)] = "none"]
    /\ UNCHANGED <<remaining_tick, pc, arg, owed>>

\* One round of rt_thread_idle_excute: free the stack and the object.
rt_thread_idle_excute ==
    /\ At(Idle, "run") /\ defunct # <<>>
    /\ k' = [Unlink(k, Head(defunct)) EXCEPT !.stat[Head(defunct)] = "none"]
    /\ UNCHANGED <<remaining_tick, pc, arg, owed>>

-----------------------------------------------------------------------------
\* rt_thread_yield up to its rt_schedule.
rt_thread_yield(t) ==
    /\ At(t, "run") /\ Yields(k)
    /\ k' = Requeue(k)
    /\ Goto(t, "schedule", t)
    /\ UNCHANGED <<remaining_tick, owed>>

\* rt_thread_sleep, in three parts: suspend and start the timer; rt_schedule;
\* clear the timeout error once the thread runs again.
rt_thread_sleep(t) ==
    /\ At(t, "run") /\ t # Idle /\ k.nest = 0
    /\ k' = StartTimer(rt_thread_suspend(k, t), t)
    /\ Goto(t, "sleep", t)
    /\ UNCHANGED <<remaining_tick, owed>>

SleepSchedule(t) ==
    /\ At(t, "sleep")
    /\ k' = rt_schedule(k)
    /\ owed' = (owed /\ k.nest # 0)
    /\ Goto(t, "wake", t)
    /\ UNCHANGED remaining_tick

SleepReturn(t) ==
    /\ At(t, "wake")
    /\ k' = [k EXCEPT !.err[t] = IF @ = "ETIMEOUT" THEN "EOK" ELSE @]
    /\ Goto(t, "run", t)
    /\ UNCHANGED <<remaining_tick, owed>>

rt_enter_critical(t) ==
    /\ At(t, "run") /\ k.nest < MaxNest
    /\ k' = [k EXCEPT !.nest = @ + 1]
    /\ UNCHANGED <<remaining_tick, pc, arg, owed>>

\* A call without a matching rt_enter_critical leaves the counter at zero.
rt_exit_critical(t) ==
    /\ At(t, "run")
    /\ k' = [k EXCEPT !.nest = IF @ <= 1 THEN 0 ELSE @ - 1]
    /\ IF k.nest <= 1 THEN Goto(t, "schedule", t) ELSE UNCHANGED <<pc, arg>>
    /\ UNCHANGED <<remaining_tick, owed>>

-----------------------------------------------------------------------------
\* rt_tick_increase: the running thread's slice, and the yield at its end.
rt_tick_increase ==
    LET t == k.cur
        slice_over == remaining_tick[t] = 1
    IN  /\ remaining_tick' = [remaining_tick EXCEPT
                                  ![t] = IF slice_over THEN init_tick ELSE @ - 1]
        /\ k' = IF slice_over /\ Yields(k) THEN rt_schedule(Requeue(k)) ELSE k
        /\ owed' = (owed /\ ~(slice_over /\ Yields(k) /\ k.nest = 0))
        /\ UNCHANGED <<pc, arg>>

\* rt_timer_check, called by the same interrupt, expires the timer of u.
Timeout(u) ==
    /\ k.timer[u]
    /\ k' = rt_thread_timeout(k, u)
    /\ owed' = (k.nest # 0)
    /\ UNCHANGED <<remaining_tick, pc, arg>>

\* The rest of a kernel call thread t is inside of.
InCall(t) ==
    \/ ScheduleStep(t) \/ ResumeDetach(t) \/ ResumeInsert(t) \/ SuspendDo(t)
    \/ DeleteTimer(t) \/ DeleteClose(t) \/ SleepSchedule(t) \/ SleepReturn(t)

Control(t, u) ==
    \/ rt_thread_init(t, u) \/ rt_thread_startup(t, u)
    \/ ResumeCheck(t, u) \/ SuspendCheck(t, u) \/ rt_thread_delete(t, u)
    \/ \E p \in Priority : rt_thread_control(t, u, p)

Next ==
    \/ \E t \in Thread :
           \/ InCall(t) \/ \E u \in Thread : Control(t, u)
           \/ rt_thread_exit(t) \/ rt_thread_yield(t) \/ rt_thread_sleep(t)
           \/ rt_enter_critical(t) \/ rt_exit_critical(t)
    \/ rt_thread_idle_excute
    \/ rt_tick_increase
    \/ \E u \in Thread : Timeout(u)

\* The tick interrupt keeps coming, a running thread finishes the kernel call
\* it is in, and a program that keeps getting the chance to leave its critical
\* section leaves it.
Fairness ==
    /\ WF_vars(rt_tick_increase)
    /\ WF_vars(\E t \in Thread : InCall(t))
    /\ SF_vars(k.nest > 0 /\ \E t \in Thread : rt_exit_critical(t))

Spec == Init /\ [][Next]_vars /\ Fairness

-----------------------------------------------------------------------------
(* Properties *)

\* The threads no call is in the middle of moving between lists.
Settled ==
    Thread \ {arg[c] : c \in {d \in Thread :
                                pc[d] \in {"insert", "startup", "delete", "close"}}}

\* Each thread is linked exactly where its state says (READY threads once on
\* the list of their current priority, others on no ready list), no list holds
\* a thread twice, and between kernel calls the bit group rt_schedule searches
\* agrees with the lists it indexes (rt_schedule_insert/remove_thread).
ReadyTableConsistent ==
    /\ LinkedByStat(k, Settled)
    /\ ListsAreSets(k)
    /\ Settled = Thread => GroupMatchesTable(k)

\* rt_schedule reads the first entry of the list of the lowest set bit without
\* testing it: whenever the scheduler is not locked that list has a thread, also
\* inside the unlocked windows of rt_thread_resume and rt_thread_delete.
ScheduleFindsThread ==
    k.nest = 0 => k.group # {} /\ k.ready[HighestReady(k)] # <<>>

\* rt_thread_timeout asserts that the thread is SUSPENDed: no active thread
\* timer belongs to a thread in another state.
TimeoutAssertion ==
    \A t \in Thread : k.timer[t] => k.stat[t] = "suspend"

\* The data of the scheduler stay consistent in every interleaving of thread calls
\* and ticks: lists, states and bit group agree, the lock nesting and the slices
\* keep their range, rt_schedule never takes an empty list's head for a thread and
\* rt_thread_timeout never meets a thread that is not SUSPENDed.
SchedConsistent ==
    TypeOK /\ ReadyTableConsistent /\ ScheduleFindsThread /\ TimeoutAssertion

\* Unless the scheduler is locked, the thread is about to call rt_schedule, or
\* a call that leaves scheduling to its caller has just returned, the running
\* thread is READY and none more urgent is: no path of sleep, timeout, exit,
\* yield, startup, tick or unlock forgets to switch.
MostUrgentRuns ==
    k.nest = 0 /\ ~owed /\ pc[k.cur] \notin {"schedule", "sleep"}
        => HighestRuns(k)

\* The idle thread frees a stack only of a thread that is neither running nor
\* linked anywhere: no freed thread can be switched to again.
FreedIsUnreachable ==
    \A t \in Thread : k.stat[t] = "none" =>
        /\ t # k.cur
        /\ \A p \in Priority : t \notin ToSet(k.ready[p])
        /\ t \notin ToSet(defunct)

\* A queued thread as urgent as the running one gets the processor, unless that
\* stops being so: the time slice rotates threads of equal priority, whatever
\* the controller suspends, deletes or gives another priority meanwhile.
Shares(t) == t \in ToSet(k.ready[k.prio[k.cur]])
RoundRobin ==
    \A t \in Thread \ (Controller \union {Idle}) :
        Shares(t) ~> (k.cur = t \/ ~Shares(t))

\* A deleted thread has left the ready queue for good: "The thread object will
\* be removed from thread queue" (rt_thread_delete).
DeletedNotReady ==
    \A t \in Thread : k.stat[t] = "close" => Listed(k, t) = {}
=============================================================================
