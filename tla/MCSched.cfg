SPECIFICATION Spec
CONSTANTS
    ctl = ctl
    peer = peer
    low = low
    idle = idle
    Thread <- MCThread
    Idle = idle
    Priority <- MCPriority
    init_priority <- MCInitPriority
    WaitList <- MCWaitList
    Controller = {ctl}
    Static = {low}
    Started <- MCStarted
    init_tick = 1
    MaxNest = 1
    DeleteTimed = FALSE
INVARIANTS
    SchedConsistent
    MostUrgentRuns
    FreedIsUnreachable
PROPERTIES
    RoundRobin
