------------------------------ MODULE Semaphore ------------------------------
(***************************************************************************)
(* One counting semaphore: rt_sem_take, rt_sem_release, rt_sem_control and *)
(* rt_sem_detach of os/ipc.c.  Threads and one interrupt release it; the   *)
(* tick interrupt rotates threads and expires timed waits between any two  *)
(* interrupt-disabled sections.                                            *)
(***************************************************************************)
EXTENDS Calls

CONSTANTS
    InitValue,   \* the value given to rt_sem_init
    SemMax,      \* RT_SEM_VALUE_MAX
    SemResetter  \* threads that call rt_sem_control(RT_IPC_CMD_RESET)

ASSUME SemaphoreAssumption ==
    /\ "sem" \in WaitList
    /\ SemMax \in Nat /\ InitValue \in 0 .. SemMax
    /\ SemResetter \subseteq Thread \ {Idle}

VARIABLES
    value,  \* sem->value
    net     \* history: tokens given by releases minus takes that returned RT_EOK

semaphore == <<value, net>>

waiters == k.wait["sem"]

SemTypeOK ==
    /\ CallsTypeOK
    /\ pc \in [Thread -> CallPoint]
    /\ value \in 0 .. SemMax
    /\ net \in Nat

SemInit == value = InitValue /\ net = InitValue

-----------------------------------------------------------------------------
(* rt_sem_take *)

TakeNow(t) ==
    /\ value > 0
    /\ value' = value - 1
    /\ net' = net - 1
    /\ UNCHANGED <<k, pc, list>>

\* With a time of zero the call returns -RT_ETIMEOUT and changes nothing.
TakeBlock(t, d) ==
    /\ value = 0 /\ d # "none"
    /\ Block(t, Queue(t, "sem", flag), "sem", d)
    /\ UNCHANGED semaphore

rt_sem_take(t) ==
    /\ Enters(t)
    /\ TakeNow(t) \/ \E d \in Time : TakeBlock(t, d)
    /\ UNCHANGED object

\* Mutant: the error left by the timer is not looked at.
TakeReturn_ignores_error(t) ==
    /\ At(t, "woken")
    /\ Leave(t, "run")
    /\ net' = net - 1
    /\ UNCHANGED <<k, value, object>>

TakeReturn(t) ==
    /\ At(t, "woken")
    /\ Leave(t, "run")
    /\ net' = IF k.err[t] = "EOK" THEN net - 1 ELSE net
    /\ UNCHANGED <<k, value, object>>

-----------------------------------------------------------------------------
(* rt_sem_release, by a thread or by an interrupt handler *)

\* Mutant: the limit is tested too late.
Count_past_limit ==
    /\ waiters = <<>> => value <= SemMax
    /\ value' = IF waiters = <<>> THEN value + 1 ELSE value
    /\ net' = net + 1

\* The first waiter gets the token directly; if nobody waits it is counted, up
\* to the limit (-RT_EFULL changes nothing).
Count ==
    /\ waiters = <<>> => value < SemMax
    /\ value' = IF waiters = <<>> THEN value + 1 ELSE value
    /\ net' = net + 1

rt_sem_release(t) ==
    /\ Enters(t)
    /\ Count
    /\ Wake(t, "sem")
    /\ UNCHANGED object

IsrRelease ==
    /\ life = "yes"
    /\ Count
    /\ IsrWake("sem")
    /\ UNCHANGED <<pc, list, object>>

-----------------------------------------------------------------------------
(* rt_sem_control and rt_sem_detach / rt_sem_delete *)

\* RT_IPC_CMD_RESET: every waiter returns -RT_ERROR, the value is replaced.
rt_sem_control(t, v) ==
    /\ Enters(t) /\ t \in SemResetter
    /\ k' = rt_ipc_list_resume_all(k, "sem")
    /\ value' = v
    /\ net' = v + Cardinality(Called("sem"))
    /\ Goto(t, "schedule")
    /\ UNCHANGED object

rt_sem_detach(t) == StartDetach(t, <<"sem">>) /\ UNCHANGED semaphore

SemSteps(t) ==
    \/ CallSteps(t) /\ UNCHANGED semaphore
    \/ TakeReturn(t)

SemNext ==
    \/ \E t \in Thread :
           \/ SemSteps(t) \/ rt_sem_take(t) \/ rt_sem_release(t) \/ rt_sem_detach(t)
           \/ \E v \in 0 .. SemMax : rt_sem_control(t, v)
    \/ IsrRelease
    \/ Background /\ UNCHANGED semaphore

SemSpec == CallsInit /\ SemInit /\ [][SemNext]_<<calls, semaphore>>

-----------------------------------------------------------------------------
(* Properties *)

\* No lost wake-up: while somebody waits there is no token to take, whatever
\* the order of take, release, reset, timeout and interrupt.
NoTokenWhileWaiting == waiters # <<>> => value = 0

\* Every token released is either still counted in value or was given to one
\* woken thread that will return RT_EOK, and rt_sem_take returns RT_EOK for
\* nothing else: a timeout that races with a release neither loses nor
\* duplicates a token, and a waiter turned away by rt_sem_detach gets none.
TokensConserved == net = value + Cardinality(Called("sem"))

\* What rt_sem_release gives reaches one caller of rt_sem_take, and at once if
\* one is waiting.
TokensKept == TokensConserved /\ NoTokenWhileWaiting

\* With a FIFO list and a device that keeps releasing, whoever waits is served,
\* until somebody detaches the semaphore.
WaiterIsServed ==
    \A t \in Thread :
        flag = "FIFO" /\ t \in ToSet(waiters)
            ~> t \notin ToSet(waiters) \/ life # "yes"
=============================================================================
