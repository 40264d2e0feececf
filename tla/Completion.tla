------------------------------ MODULE Completion ------------------------------
(***************************************************************************)
(* One completion (components/drivers/src/completion.c): a thread waits    *)
(* until a driver's interrupt handler, or another thread, reports that     *)
(* something is done.  One thread waits at a time, as rt_completion_wait   *)
(* asserts.                                                                *)
(***************************************************************************)
EXTENDS Calls

ASSUME CompletionAssumption == "completion" \in WaitList

VARIABLES
    completed,  \* completion->flag is RT_COMPLETED
    signal      \* history of the last report: "none" (received, or there was
                \* none), "raised", "dropped" (a wait gave up after it)

completion == <<completed, signal>>

\* "done"  rt_completion_done has read the flag, not yet disabled interrupts
CompletionPoint == CallPoint \union {"done"}

CompletionTypeOK ==
    /\ CallsTypeOK
    /\ pc \in [Thread -> CompletionPoint]
    /\ completed \in BOOLEAN
    /\ signal \in {"none", "raised", "dropped"}

CompletionInit == completed = FALSE /\ signal = "none"

OnlyWaiter(t) == \A u \in Thread \ {t} : ~InWait(u)

-----------------------------------------------------------------------------
\* rt_completion_init, by a program that is about to start an operation.
rt_completion_init(t) ==
    /\ Enters(t) /\ \A u \in Thread : ~InWait(u)
    /\ completed' = FALSE
    /\ signal' = "none"
    /\ UNCHANGED calls

\* rt_completion_wait finds the flag set, and clears it.
WaitNow(t) ==
    /\ completed
    /\ completed' = FALSE
    /\ signal' = "none"
    /\ UNCHANGED <<k, pc, list>>

\* With a time of zero the call returns -RT_ETIMEOUT and changes nothing.
WaitBlock(t, d) ==
    /\ ~completed /\ d # "none"
    /\ Block(t, Queue(t, "completion", "FIFO"), "completion", d)
    /\ UNCHANGED completion

rt_completion_wait(t) ==
    /\ Enters(t) /\ OnlyWaiter(t)
    /\ WaitNow(t) \/ \E d \in Time : WaitBlock(t, d)
    /\ UNCHANGED object

\* Mutant: the flag of the report that woke the caller stays set.
WaitReturn_keeps_flag(t) ==
    /\ At(t, "woken")
    /\ Leave(t, "run")
    /\ signal' = IF k.err[t] = "EOK" THEN "none"
                 ELSE IF signal = "raised" THEN "dropped" ELSE signal
    /\ UNCHANGED <<k, completed, object>>

\* The caller runs again and clears the flag, also when it has timed out: a
\* report made after the timeout and before this step is dropped.
WaitReturn(t) ==
    /\ At(t, "woken")
    /\ Leave(t, "run")
    /\ completed' = FALSE
    /\ signal' = IF k.err[t] = "EOK" THEN "none"
                 ELSE IF signal = "raised" THEN "dropped" ELSE signal
    /\ UNCHANGED <<k, object>>

-----------------------------------------------------------------------------
(* rt_completion_done *)

\* The flag is tested with interrupts enabled; if it is set the call returns.
DoneTest(t) ==
    /\ Enters(t) /\ ~completed
    /\ Goto(t, "done")
    /\ UNCHANGED <<k, object, completion>>

\* The section after it, whatever the flag is by now.
DoneSet(t) ==
    /\ At(t, "done")
    /\ completed' = TRUE
    /\ signal' = "raised"
    /\ Wake(t, "completion")
    /\ UNCHANGED object

IsrDone ==
    /\ ~completed
    /\ completed' = TRUE
    /\ signal' = "raised"
    /\ IsrWake("completion")
    /\ UNCHANGED <<pc, list, object>>

CompletionNext ==
    \/ \E t \in Thread :
           \/ CallSteps(t) /\ UNCHANGED completion
           \/ rt_completion_init(t) \/ rt_completion_wait(t) \/ WaitReturn(t)
           \/ DoneTest(t) \/ DoneSet(t)
    \/ IsrDone
    \/ Background /\ UNCHANGED completion

CompletionSpec == CallsInit /\ CompletionInit /\ [][CompletionNext]_<<calls, completion>>

-----------------------------------------------------------------------------
(* Properties *)

\* A report is neither lost nor received twice: as long as no wait has received
\* it the flag is set or a woken waiter is about to return RT_EOK, and neither is
\* the case without a report.  The one way to lose it is a wait that has timed
\* out before the report and returns after it.
SignalKept == signal = "raised" <=> completed \/ Called("completion") # {}

\* No waiter sleeps beside a completed operation.
NoWaiterOnCompleted == k.wait["completion"] # <<>> => ~completed

\* Every report of rt_completion_done reaches one wait, and at once if one has begun.
ReportKept == SignalKept /\ NoWaiterOnCompleted
=============================================================================
