SPECIFICATION Spec
CONSTANTS
    high = high
    mid = mid
    low = low
    idle = idle
    ma = ma
    mb = mb
    Thread <- MCThread
    Idle = idle
    Priority <- MCPriority
    init_priority <- MCDistinct
    Mutex <- MCTwo
    WaitList <- MCTwo
    flag <- MCAllFifo
    Null = Null
    NoPrio = 255
    HoldMax = 2
    Nesting = 2
INVARIANTS
    PriorityRestored
CHECK_DEADLOCK FALSE
