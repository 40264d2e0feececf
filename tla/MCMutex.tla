------------------------------ MODULE MCMutex ------------------------------
(* Three threads of different urgency, or two of the same, and one or two   *)
(* mutexes.                                                                  *)
EXTENDS Mutex

CONSTANTS high, mid, low, idle, ma, mb

MCThread == {high, mid, low, idle}
MCPriority == 0 .. 3
MCDistinct ==
    [t \in Thread |-> CASE t = high -> 0 [] t = mid -> 1 [] t = low -> 2 [] t = idle -> 3]
MCEqual ==
    [t \in Thread |-> CASE t = high -> 0 [] t = mid -> 1 [] t = low -> 1 [] t = idle -> 3]
MCOne == {ma}
MCTwo == {ma, mb}
MCAllPrio == [m \in Mutex |-> "PRIO"]
MCAllFifo == [m \in Mutex |-> "FIFO"]
=============================================================================
