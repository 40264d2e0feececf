-------------------------------- MODULE Calls --------------------------------
(***************************************************************************)
(* What the blocking calls on kernel objects have in common: a caller that *)
(* suspends itself on a list of the object and calls rt_schedule, a caller *)
(* that has woken somebody and calls rt_schedule, the loop that resumes    *)
(* every waiter when an object is detached or deleted, and the threads and *)
(* interrupts that run in between.  Every step is one section of code with *)
(* interrupts disabled.                                                    *)
(***************************************************************************)
EXTENDS Kernel

CONSTANTS
    Flags,       \* how the waiters of an object may queue: "FIFO", "PRIO"
    Sleeper,     \* the threads that sleep between their calls
    Detacher,    \* the threads that detach or delete the object
    DetachTimed  \* may it be detached while somebody waits for a limited time?

ASSUME CallsAssumption ==
    /\ Flags \subseteq {"FIFO", "PRIO"} /\ Flags # {}
    /\ Sleeper \union Detacher \subseteq Thread \ {Idle}
    /\ DetachTimed \in BOOLEAN
    /\ "none" \notin WaitList

VARIABLES
    k,      \* the kernel state of Kernel.tla
    pc,     \* where each thread is inside a call
    list,   \* the list of the object that call waits on, or "none"
    flag,   \* how the waiters of the object queue
    life,   \* "yes", "detaching" or "no": the life of the object
    sweep,  \* the lists whose waiters are still to be resumed by the detacher
    wild    \* rt_ipc_list_resume_all has taken the list head itself for a thread

object == <<flag, life, sweep, wild>>
calls == <<k, pc, list, object>>

\* "run"       outside the kernel
\* "wait"      on a list of the object, about to call rt_schedule
\* "woken"     back from that rt_schedule, about to look at thread->error
\* "schedule"  about to call rt_schedule, the last thing the call does
\* "test"      at the loop test of rt_ipc_list_resume_all
\* "resume"    in that loop, about to disable interrupts
CallPoint == {"run", "wait", "woken", "schedule", "test", "resume"}

\* The time a caller is ready to wait: 0, a number of ticks, RT_WAITING_FOREVER.
Time == {"none", "finite", "forever"}

CallsTypeOK ==
    /\ k \in KernelState
    /\ list \in [Thread -> WaitList \union {"none"}]
    /\ flag \in Flags
    /\ life \in {"yes", "detaching", "no"}
    /\ sweep \in Seq(WaitList)
    /\ wild \in BOOLEAN

CallsInit ==
    /\ k = KernelInit(Thread)
    /\ pc = [t \in Thread |-> "run"]
    /\ list = [t \in Thread |-> "none"]
    /\ flag \in Flags
    /\ life = "yes"
    /\ sweep = <<>>
    /\ wild = FALSE

-----------------------------------------------------------------------------
At(t, c) == k.cur = t /\ pc[t] = c

Goto(t, c) == pc' = [pc EXCEPT ![t] = c] /\ UNCHANGED list

\* Thread t is through with waiting and goes to point c.
Leave(t, c) ==
    /\ pc' = [pc EXCEPT ![t] = c]
    /\ list' = [list EXCEPT ![t] = "none"]

\* Thread t is inside a call that waits for the object.
InWait(t) == pc[t] \in {"wait", "woken"}

\* A program starts a call on the object only while it exists.
Enters(t) == At(t, "run") /\ t # Idle /\ life = "yes"

\* The kernel state s, in which t is on list l, becomes the next one, with the
\* timer of t running if its time d is limited.
Block(t, s, l, d) ==
    /\ k' = IF d = "finite" THEN StartTimer(s, t) ELSE s
    /\ pc' = [pc EXCEPT ![t] = "wait"]
    /\ list' = [list EXCEPT ![t] = l]

\* rt_ipc_list_suspend of a caller that has cleared its error.
Queue(t, l, f) == rt_ipc_list_suspend([k EXCEPT !.err[t] = "EOK"], l, t, f)

\* The first waiter of list l, if any, is resumed and t has to schedule.
Wake(t, l) ==
    IF k.wait[l] # <<>>
    THEN k' = rt_ipc_list_resume(k, l) /\ Leave(t, "schedule")
    ELSE UNCHANGED k /\ Leave(t, "run")

\* The same done by an interrupt handler, rt_schedule included.
IsrWake(l) ==
    k' = IF k.wait[l] # <<>> THEN rt_schedule(rt_ipc_list_resume(k, l)) ELSE k

WaitSchedule(t) ==
    /\ At(t, "wait")
    /\ k' = rt_schedule(k)
    /\ Goto(t, "woken")

LastSchedule(t) ==
    /\ At(t, "schedule")
    /\ k' = rt_schedule(k)
    /\ Goto(t, "run")

-----------------------------------------------------------------------------
(* Detaching or deleting an object *)

\* The loop that resumes the waiters of these lists races with their timers, so
\* programs run it while nobody waits for a limited time, or DetachTimed holds.
Untimed(lists) ==
    DetachTimed \/ \A l \in ToSet(lists) : \A u \in ToSet(k.wait[l]) : ~k.timer[u]

StartDetach(t, lists) ==
    /\ Enters(t) /\ t \in Detacher /\ Untimed(lists)
    /\ life' = "detaching"
    /\ sweep' = lists
    /\ Goto(t, "test")
    /\ UNCHANGED <<k, flag, wild>>

\* The object is gone; a reset of a data queue, which uses the same loop with the
\* scheduler locked, goes on to unlock it.
SweepEnd(t) ==
    /\ life' = IF life = "detaching" THEN "no" ELSE life
    /\ Goto(t, IF k.nest = 0 THEN "run" ELSE "exit")

\* while (!rt_list_isempty(list)), tested with interrupts enabled.
SweepTest(t) ==
    /\ At(t, "test")
    /\ \/ /\ k.wait[Head(sweep)] # <<>>
          /\ Goto(t, "resume")
          /\ UNCHANGED <<life, sweep>>
       \/ /\ k.wait[Head(sweep)] = <<>>
          /\ sweep' = Tail(sweep)
          /\ IF Len(sweep) = 1 THEN SweepEnd(t) ELSE UNCHANGED <<pc, list, life>>
    /\ UNCHANGED <<k, flag, wild>>

\* Mutant: only the first waiter is woken.
SweepResume_once(t) ==
    /\ At(t, "resume")
    /\ LET l == Head(sweep) IN
       /\ k' = IF k.wait[l] = <<>> THEN k ELSE ResumeWithError(k, Head(k.wait[l]))
       /\ wild' = (k.wait[l] = <<>>)
    /\ Goto(t, "run")
    /\ life' = "no"
    /\ UNCHANGED <<flag, sweep>>

\* The body of that loop: whatever list->next is by now is taken for a thread.
SweepResume(t) ==
    /\ At(t, "resume")
    /\ LET l == Head(sweep) IN
       /\ k' = IF k.wait[l] = <<>> THEN k ELSE ResumeWithError(k, Head(k.wait[l]))
       /\ wild' = (k.wait[l] = <<>>)
    /\ Goto(t, "test")
    /\ UNCHANGED <<flag, life, sweep>>

\* What any call may be in the middle of.
CallSteps(t) ==
    \/ (WaitSchedule(t) \/ LastSchedule(t)) /\ UNCHANGED object
    \/ SweepTest(t) \/ SweepResume(t)

-----------------------------------------------------------------------------
(* The rest of the system, as far as it decides who runs *)

\* rt_thread_sleep (Sched.tla has its sections one by one).
rt_thread_sleep(t) ==
    /\ At(t, "run") /\ t \in Sleeper
    /\ k' = rt_schedule(StartTimer(rt_thread_suspend(k, t), t))

SliceEnd == Yields(k) /\ k' = rt_schedule(Requeue(k))

\* The expiry of a thread timer; rt_thread_sleep clears the error it leaves when
\* the thread runs again, before it does anything else.
Timeout(u) ==
    /\ k.timer[u]
    /\ LET e == rt_thread_timeout(k, u)
       IN  k' = IF InWait(u) THEN e ELSE [e EXCEPT !.err[u] = k.err[u]]

Background ==
    /\ \/ \E t \in Thread : rt_thread_sleep(t) \/ Timeout(t)
       \/ SliceEnd
    /\ UNCHANGED <<pc, list, object>>

-----------------------------------------------------------------------------
(* Properties of every object *)

\* Threads woken from list l, with no error, whose call has not gone on yet.
Called(l) == {t \in Thread : /\ InWait(t) /\ list[t] = l
                             /\ k.stat[t] # "suspend" /\ k.err[t] = "EOK"}

\* The suspended callers, and nobody else, are on the list their call waits on:
\* no timeout, wake-up, reset or deletion leaves a thread suspended on no list,
\* or on a list after it has gone on.
WaitersAreQueued ==
    \A t \in Thread : \A l \in WaitList :
        t \in ToSet(k.wait[l])
            <=> InWait(t) /\ list[t] = l /\ k.stat[t] = "suspend"

\* After an object is detached or deleted nobody is left waiting on it.
DetachedIsEmpty == life = "no" => \A l \in WaitList : k.wait[l] = <<>>

\* rt_thread_resume asserts that what it is given is a thread: the loop of
\* rt_ipc_list_resume_all hands it an entry of the list, never the list head.
ResumesThreads == ~wild

\* Timeouts, wake-ups, resets and rt_ipc_list_resume_all leave nobody behind and
\* resume nothing but threads: the wait lists hold exactly the suspended callers,
\* those of a detached object nobody.
NobodyForgotten == WaitersAreQueued /\ DetachedIsEmpty /\ ResumesThreads
=============================================================================
