------------------------------ MODULE MCObjects ------------------------------
(* Three threads, two of them equally urgent, over the idle thread.  In each *)
(* behaviour the programs use one object, of the kind chosen at the start.   *)
EXTENDS Semaphore, Event, Mempool, Completion, WorkQueue, Heap

CONSTANTS high, mid, peer, idle, Kinds

VARIABLE use

vars == <<use, calls, semaphore, event, mempool, completion, workqueue, memory>>

MCThread == {high, mid, peer, idle}
MCPriority == 0 .. 2
MCInitPriority ==
    [t \in Thread |-> CASE t = high -> 0 [] t \in {mid, peer} -> 1 [] t = idle -> 2]
MCWaitList == {"sem", "event", "pool", "completion", "work"}
MCRequest ==
    {[set |-> {1, 2}, all |-> TRUE,  clear |-> TRUE],
     [set |-> {1, 2}, all |-> FALSE, clear |-> TRUE],
     [set |-> {1},    all |-> FALSE, clear |-> FALSE]}

Init ==
    /\ use \in Kinds
    /\ CallsInit /\ SemInit /\ EventInit /\ MpInit /\ CompletionInit
    /\ WorkInit /\ HeapInit
    /\ use # "semaphore" => flag = "FIFO"

UseSemaphore ==
    /\ use = "semaphore"
    /\ SemNext
    /\ UNCHANGED <<use, event, mempool, completion, workqueue, memory>>

UseEvent ==
    /\ use = "event"
    /\ EventNext
    /\ UNCHANGED <<use, semaphore, mempool, completion, workqueue, memory>>

UseMempool ==
    /\ use = "mempool"
    /\ MpNext
    /\ UNCHANGED <<use, semaphore, event, completion, workqueue, memory>>

UseCompletion ==
    /\ use = "completion"
    /\ CompletionNext
    /\ UNCHANGED <<use, semaphore, event, mempool, workqueue, memory>>

UseWorkQueue ==
    /\ use = "workqueue"
    /\ WorkNext
    /\ UNCHANGED <<use, semaphore, event, mempool, completion, memory>>

UseHeap ==
    /\ use = "heap"
    /\ HeapNext
    /\ UNCHANGED <<use, calls, semaphore, event, mempool, completion, workqueue>>

Next ==
    \/ UseSemaphore \/ UseEvent \/ UseMempool \/ UseCompletion
    \/ UseWorkQueue \/ UseHeap

\* The device keeps interrupting: nothing else is assumed, least of all of the
\* threads.
Fairness ==
    WF_vars(/\ use = "semaphore" /\ IsrRelease
            /\ UNCHANGED <<use, event, mempool, completion, workqueue, memory>>)

Spec == Init /\ [][Next]_vars /\ Fairness

\* The type invariant of the object in use.
TypeOK ==
    CASE use = "semaphore"  -> SemTypeOK
      [] use = "event"      -> EventTypeOK
      [] use = "mempool"    -> MpTypeOK
      [] use = "completion" -> CompletionTypeOK
      [] use = "workqueue"  -> WorkTypeOK
      [] use = "heap"       -> HeapTypeOK
=============================================================================
