SPECIFICATION FairSpec
CONSTANTS
    high = high
    mid = mid
    low = low
    idle = idle
    ma = ma
    mb = mb
    Thread <- MCThread
    Idle = idle
    Priority <- MCPriority
    init_priority <- MCEqual
    Mutex <- MCOne
    WaitList <- MCOne
    flag <- MCAllPrio
    Null = Null
    NoPrio = 255
    HoldMax = 2
    Nesting = 1
INVARIANTS
    TypeOK
    MutexConsistent
    ReturnedMeansOwned
    PriorityRestored

    
