SPECIFICATION Spec
CONSTANTS
    high = high
    mid = mid
    peer = peer
    idle = idle
    Thread <- MCThread
    Idle = idle
    Priority <- MCPriority
    init_priority <- MCInitPriority
    WaitList <- MCWaitList
    Flags = {"FIFO", "PRIO"}
    Sleeper = {high, mid, peer}
    Detacher = {mid}
    DetachTimed = TRUE
    Kinds = {"semaphore"}
    InitValue = 1
    SemMax = 2
    SemResetter = {mid}
    Bit = {1, 2}
    EventRequest <- MCRequest
    EventResetter = {mid}
    BlockId = {b1, b2}
    Null = Null
    Mp = Mp
    Worker = high
    Work = {w1, w2}
    Delayable = {w2}
    NoWork = NoWork
    Races = FALSE
    RT_ALIGN_SIZE = 4
    SIZEOF_STRUCT_MEM = 12
    MIN_SIZE = 12
    mem_size_aligned = 84
    Sizes = {0, 5, 17, 84}
    HeapThread = {high, mid}
INVARIANT ResumesThreads
