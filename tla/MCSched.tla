------------------------------ MODULE MCSched ------------------------------
(* Sched with a controller, a worker of the same urgency and a less urgent  *)
(* one above the idle thread.                                                *)
EXTENDS Sched

CONSTANTS ctl, peer, low, idle

MCThread == {ctl, peer, low, idle}
MCPriority == 0 .. 2
MCInitPriority ==
    [t \in Thread |-> CASE t = ctl -> 0 [] t = peer -> 0 [] t = low -> 1 [] t = idle -> 2]
MCStarted == {ctl, peer, idle}
MCWaitList == {"rt_thread_defunct"}
=============================================================================
