------------------------------ MODULE WorkQueue ------------------------------
(***************************************************************************)
(* A work queue (components/drivers/src/workqueue.c): a thread that takes  *)
(* work items from a list and calls their functions, the threads that      *)
(* submit and cancel work, and the tick that submits delayed work.  The    *)
(* worker suspends itself when the list is empty, and is resumed by        *)
(* rt_thread_resume, which does nothing to a thread that is not suspended. *)
(***************************************************************************)
EXTENDS Calls

CONSTANTS
    Worker,    \* queue->work_thread
    Work,      \* the work items
    Delayable, \* those that are initialised and submitted as delayed work
    NoWork,
    Races      \* may calls and the tick come between a test, or the queueing of
               \* work, and the section that relies on it?

ASSUME WorkAssumption ==
    /\ Worker \in Thread \ {Idle} /\ NoWork \notin Work /\ Delayable \subseteq Work
    /\ Races \in BOOLEAN
    /\ "work" \in WaitList

VARIABLES
    work_list, work_current,
    pending,     \* the work flagged RT_WORK_STATE_PENDING
    submitting,  \* ... RT_WORK_STATE_SUBMITTING: its timer is running
    delayed,     \* the work of type RT_WORK_TYPE_DELAYED
    attached,    \* the work whose workqueue is not RT_NULL
    call,        \* the work a call is about, and where it goes from "detach"
    due,         \* history: work accepted, neither begun nor cancelled since
    headtaken    \* the worker has taken the head of the list for work

flags == <<pending, submitting, delayed, attached>>
workqueue == <<work_list, work_current, flags, call, due, headtaken>>

\* The worker: "run" at the top of its loop, "suspend", "sched" (rt_schedule), "take", "work"
\* (in the work function), "ack".  Callers: "wake" (to resume the worker), and in
\* calls on delayed work "cancel", "unqueue", "untimer", "detach", "attach".
WorkPoint == CallPoint \union {"suspend", "sched", "take", "work", "ack", "wake",
                               "cancel", "unqueue", "untimer", "detach", "attach"}

WorkTypeOK ==
    /\ CallsTypeOK
    /\ pc \in [Thread -> WorkPoint]
    /\ work_list \in Seq(Work) /\ Cardinality(ToSet(work_list)) = Len(work_list)
    /\ work_current \in Work \union {NoWork}
    /\ {pending, submitting, delayed, attached, due} \subseteq SUBSET Work
    /\ call \in [Thread -> [work : Work \union {NoWork}, next : {"run", "attach"}]]
    /\ headtaken \in BOOLEAN

NoCall == [work |-> NoWork, next |-> "run"]

WorkInit ==
    /\ work_list = <<>> /\ work_current = NoWork
    /\ pending = {} /\ submitting = {} /\ delayed = {} /\ attached = {}
    /\ call = [t \in Thread |-> NoCall]
    /\ due = {} /\ headtaken = FALSE

-----------------------------------------------------------------------------
(* _workqueue_thread_entry *)

\* if (rt_list_isempty(&(queue->work_list))), with interrupts enabled.
WorkTest ==
    /\ At(Worker, "run")
    /\ Goto(Worker, IF work_list = <<>> THEN "suspend" ELSE "take")
    /\ UNCHANGED <<k, object, workqueue>>

WorkSuspend ==
    /\ At(Worker, "suspend")
    /\ k' = rt_thread_suspend(k, Worker)
    /\ Goto(Worker, "sched")
    /\ UNCHANGED <<object, workqueue>>

WorkSchedule ==
    /\ At(Worker, "sched")
    /\ k' = rt_schedule(k)
    /\ Goto(Worker, "take")
    /\ UNCHANGED <<object, workqueue>>

\* The first entry is taken without another test.
WorkTake ==
    /\ At(Worker, "take")
    /\ IF work_list = <<>>
       THEN headtaken' = TRUE /\ UNCHANGED <<work_list, work_current, flags, due>>
       ELSE LET w == Head(work_list)
            IN  /\ work_list' = Tail(work_list)
                /\ work_current' = w
                /\ pending' = pending \ {w}
                /\ attached' = attached \ {w}
                /\ due' = due \ {w}
                /\ UNCHANGED <<submitting, delayed, headtaken>>
    /\ Goto(Worker, "work")
    /\ UNCHANGED <<k, object, call>>

\* External: a work function may sleep, or return.
WorkSleep ==
    /\ At(Worker, "work")
    /\ k' = rt_schedule(StartTimer(rt_thread_suspend(k, Worker), Worker))
    /\ UNCHANGED <<pc, list, object, workqueue>>

WorkDone ==
    /\ At(Worker, "work")
    /\ work_current' = NoWork
    /\ Goto(Worker, "ack")
    /\ UNCHANGED <<k, object, work_list, flags, call, due, headtaken>>

\* Mutant: one waiter is woken.
ResumeWaiters_first ==
    IF k.wait["work"] = <<>> THEN k ELSE rt_thread_resume(k, k.wait["work"][1])

\* _workqueue_work_completion: releases the semaphore until a token is left for
\* itself, so every waiter is woken.
ResumeWaiters ==
    LET after[n \in 0 .. Len(k.wait["work"])] ==  \* the state after n releases
            IF n = 0 THEN k ELSE rt_thread_resume(after[n - 1], k.wait["work"][n])
    IN  after[Len(k.wait["work"])]

WorkAck ==
    /\ At(Worker, "ack")
    /\ k' = rt_schedule(ResumeWaiters)
    /\ Goto(Worker, "run")
    /\ UNCHANGED <<object, workqueue>>

-----------------------------------------------------------------------------
(* Submitting and cancelling work *)

Without(w) == RemoveFirst(work_list, w)

\* Pending and running work is refused with -RT_EBUSY.
Accepts(w) == w \notin pending /\ work_current # w

\* The work becomes the last of the list; a worker without work is to be resumed.
Enqueue(w) == work_list' = Append(Without(w), w) /\ due' = due \union {w}

\* Where a call on delayed work is between its sections.
CancelPoint == {"cancel", "unqueue", "untimer", "detach", "attach"}

\* Nobody stands between a test, or the queueing of work, and what relies on it.
Settled == \A t \in Thread : pc[t] \notin {"suspend", "wake"} \union CancelPoint

FromThread(t) == Enters(t) /\ t # Worker /\ (Races \/ Settled)

\* _workqueue_submit_work by a thread.
Submit(t, w) ==
    /\ Accepts(w)
    /\ Enqueue(w)
    /\ pending' = pending \union {w}
    /\ Goto(t, IF work_current = NoWork THEN "wake" ELSE "run")

\* rt_workqueue_dowork, and rt_workqueue_submit_work with no delay.
rt_workqueue_dowork(t, w) ==
    /\ FromThread(t) /\ w \notin delayed
    /\ Submit(t, w)
    /\ UNCHANGED <<k, object, work_current, submitting, delayed, attached, call, headtaken>>

\* rt_workqueue_critical_work: also at the end of the list, and not flagged.
rt_workqueue_critical_work(t, w) ==
    /\ FromThread(t) /\ w \notin Delayable /\ work_current # w
    /\ Enqueue(w)
    /\ Goto(t, IF work_current = NoWork THEN "wake" ELSE "run")
    /\ UNCHANGED <<k, object, work_current, flags, call, headtaken>>

ResumeWorker(t) ==
    /\ At(t, "wake")
    /\ k' = rt_thread_resume(k, Worker)
    /\ Goto(t, "schedule")
    /\ UNCHANGED <<object, workqueue>>

Drop(w) ==
    /\ work_list' = Without(w)
    /\ pending' = pending \ {w}
    /\ due' = due \ {w}

\* rt_workqueue_cancel_work of work that is not delayed.
rt_workqueue_cancel_work(t, w) ==
    /\ FromThread(t) /\ w \notin delayed /\ work_current # w
    /\ Drop(w)
    /\ UNCHANGED <<k, pc, list, object, work_current, submitting, delayed, attached,
                   call, headtaken>>

\* rt_workqueue_cancel_work_sync: for running work it waits, but since interrupts
\* stay disabled until its end the switch comes after all it does.
rt_workqueue_cancel_work_sync(t, w) ==
    /\ FromThread(t) /\ w \notin Delayable
    /\ \/ /\ work_current # w
          /\ Drop(w)
          /\ UNCHANGED <<k, pc, list>>
       \/ /\ work_current = w
          /\ pending' = pending \ {w}
          /\ k' = rt_schedule(Queue(t, "work", "FIFO"))
          /\ pc' = [pc EXCEPT ![t] = "woken"] /\ list' = [list EXCEPT ![t] = "work"]
          /\ UNCHANGED <<work_list, due>>
    /\ UNCHANGED <<object, work_current, submitting, delayed, attached, call, headtaken>>

SyncReturn(t) == At(t, "woken") /\ Leave(t, "run") /\ UNCHANGED <<k, object, workqueue>>

\* rt_workqueue_cancel_all_work leaves the flags as they are.
rt_workqueue_cancel_all_work(t) ==
    /\ FromThread(t)
    /\ work_list' = <<>>
    /\ due' = due \ ToSet(work_list)
    /\ UNCHANGED <<k, pc, list, object, work_current, flags, call, headtaken>>

-----------------------------------------------------------------------------
(* Delayed work *)

Begin(t, w, c, next) ==
    /\ Goto(t, c)
    /\ call' = [call EXCEPT ![t] = [work |-> w, next |-> next]]

Finish(t) == Goto(t, "run") /\ call' = [call EXCEPT ![t] = NoCall]

\* rt_workqueue_submit_work: submitted before, the work is cancelled first, unless
\* it is pending from a submission without a delay; programs do not mix the two.
SubmitDelayed(t, w) ==
    /\ FromThread(t) /\ w \in Delayable /\ \A u \in Thread : call[u].work # w
    /\ w \in attached \/ w \notin pending \union ToSet(work_list)
    /\ delayed' = delayed \union {w}
    /\ Begin(t, w, IF w \in attached THEN "cancel" ELSE "attach", "attach")
    /\ UNCHANGED <<k, object, work_list, work_current, pending, submitting, attached,
                   due, headtaken>>

\* rt_workqueue_cancel_work of delayed work: -EINVAL unless it is attached.
CancelDelayed(t, w) ==
    /\ FromThread(t) /\ \A u \in Thread : call[u].work # w
    /\ w \in delayed \intersect attached
    /\ Begin(t, w, "cancel", "run")
    /\ UNCHANGED <<k, object, work_list, work_current, flags, due, headtaken>>

\* The flags are tested with interrupts enabled.
CancelTest(t) ==
    /\ At(t, "cancel")
    /\ LET w == call[t].work
       IN  Goto(t, CASE w \in pending -> "unqueue"
                     [] w \in submitting \ pending -> "untimer"
                     [] OTHER -> "detach")
    /\ UNCHANGED <<k, object, workqueue>>

\* Work that has begun by now is not cancelled, nor submitted again.
CancelUnqueue(t) ==
    /\ At(t, "unqueue")
    /\ LET w == call[t].work
       IN  IF work_current = w
           THEN Finish(t) /\ UNCHANGED <<work_list, pending, due>>
           ELSE Drop(w) /\ Goto(t, "detach") /\ UNCHANGED call
    /\ UNCHANGED <<k, object, work_current, submitting, delayed, attached, headtaken>>

\* Mutant: the timer goes on running.
CancelTimer_not(t) ==
    /\ At(t, "untimer")
    /\ due' = due \ {call[t].work}
    /\ Goto(t, "detach")
    /\ UNCHANGED <<k, object, work_list, work_current, flags, call, headtaken>>

CancelTimer(t) ==
    /\ At(t, "untimer")
    /\ submitting' = submitting \ {call[t].work}
    /\ due' = due \ {call[t].work}
    /\ Goto(t, "detach")
    /\ UNCHANGED <<k, object, work_list, work_current, pending, delayed, attached, call,
                   headtaken>>

CancelDetach(t) ==
    /\ At(t, "detach")
    /\ attached' = attached \ {call[t].work}
    /\ pending' = pending \ {call[t].work}
    /\ IF call[t].next = "run" THEN Finish(t) ELSE Goto(t, "attach") /\ UNCHANGED call
    /\ UNCHANGED <<k, object, work_list, work_current, submitting, delayed, due, headtaken>>

\* The timer is started, or without a delay the work submitted, which a work
\* that is pending or running refuses.
Attach(t) ==
    /\ At(t, "attach")
    /\ LET w == call[t].work
       IN  /\ attached' = attached \union {w}
           /\ \/ /\ submitting' = submitting \union {w}
                 /\ due' = due \union {w}
                 /\ Goto(t, "run")
                 /\ UNCHANGED <<work_list, pending>>
              \/ Submit(t, w) /\ UNCHANGED submitting
              \/ /\ ~Accepts(w)
                 /\ Goto(t, "run")
                 /\ UNCHANGED <<work_list, pending, due, submitting>>
    /\ call' = [call EXCEPT ![t] = NoCall]
    /\ UNCHANGED <<k, object, work_current, delayed, headtaken>>

\* _delayed_work_timeout_handler, in the tick interrupt; it ignores the refusal of
\* work that is running.
DelayExpires(w) ==
    /\ w \in submitting
    /\ Races \/ (Settled /\ work_current # w)
    /\ submitting' = submitting \ {w}
    /\ delayed' = delayed \ {w}
    /\ IF Accepts(w)
       THEN /\ Enqueue(w)
            /\ pending' = pending \union {w}
            /\ k' = IF work_current = NoWork
                    THEN rt_schedule(rt_thread_resume(k, Worker)) ELSE k
       ELSE UNCHANGED <<k, work_list, pending, due>>
    /\ UNCHANGED <<pc, list, object, work_current, attached, call, headtaken>>

-----------------------------------------------------------------------------
_workqueue_thread_entry ==
    WorkTest \/ WorkSuspend \/ WorkSchedule \/ WorkTake
    \/ WorkSleep \/ WorkDone \/ WorkAck

WorkNext ==
    \/ _workqueue_thread_entry
    \/ \E t \in Thread :
           \/ LastSchedule(t) /\ UNCHANGED <<object, workqueue>>
           \/ ResumeWorker(t) \/ SyncReturn(t) \/ rt_workqueue_cancel_all_work(t)
           \/ CancelTest(t) \/ CancelUnqueue(t) \/ CancelTimer(t) \/ CancelDetach(t)
           \/ Attach(t)
           \/ \E w \in Work :
                  \/ rt_workqueue_dowork(t, w) \/ rt_workqueue_critical_work(t, w)
                  \/ rt_workqueue_cancel_work(t, w) \/ rt_workqueue_cancel_work_sync(t, w)
                  \/ SubmitDelayed(t, w) \/ CancelDelayed(t, w)
    \/ \E w \in Work : DelayExpires(w)
    \/ /\ Background /\ UNCHANGED workqueue
       /\ At(Worker, "run") => k'.stat[Worker] = "ready"  \* it sleeps in work only

WorkSpec == CallsInit /\ WorkInit /\ [][WorkNext]_<<calls, workqueue>>

-----------------------------------------------------------------------------
(* Properties *)

\* "we have work to do with": when the worker takes the first entry of the list,
\* which it tested before it slept, there is one.
WorkToDo == ~headtaken

\* The worker does not stay suspended beside queued work: whoever queued it is
\* still to resume the worker.
NoWorkWhileAsleep ==
    k.stat[Worker] = "suspend" /\ pc[Worker] \in {"sched", "take"} /\ work_list # <<>>
        => \E t \in Thread : pc[t] = "wake"

\* Work that was accepted and has neither begun nor been cancelled is in the list
\* or its timer is running, and no other work is: what was cancelled with RT_EOK
\* is not begun, nor work begun twice.
AcceptedIsQueued == due = ToSet(work_list) \union submitting

\* Whoever waits for running work to end waits for a worker that will report it.
SyncWaits ==
    k.wait["work"] # <<>> => work_current # NoWork \/ pc[Worker] = "ack"

\* No wake-up between the worker and its callers is lost, neither that of the
\* worker when work is submitted, nor that of the callers of
\* rt_workqueue_cancel_work_sync when work ends.
WorkerAnswers == NoWorkWhileAsleep /\ SyncWaits

\* Every accepted work is accounted for until it is begun or cancelled, whatever
\* submissions, delays and cancellations are mixed, and the worker takes nothing
\* else.
WorkAccounted == AcceptedIsQueued /\ WorkToDo
=============================================================================
