SPECIFICATION Spec
CONSTANTS
    r1 = r1
    s1 = s1
    s2 = s2
    idle = idle
    a = a
    b = b
    Thread <- MCThread
    Idle = idle
    Priority <- MCPriority
    init_priority <- MCInitPriority
    WaitList <- MCWaitList
    Flags = {"FIFO"}
    Sleeper = {r1}
    Detacher = {s2}
    DetachTimed = FALSE
    Kinds = {"mailbox", "msgqueue", "dataqueue"}
    Sender = {s1, s2}
    Receiver = {r1, s1}
    Resetter = {s2}
    Mail = {a, b}
    NoMail = NoMail
    size = 2
    Null = Null
    lwm = 0
SYMMETRY MCSymmetry
VIEW MCView
INVARIANTS
    TypeOK
    MessagesSafe
    MailIsClaimed
    MessageIsClaimed
    ItemIsClaimed
PROPERTIES
    MailboxIsChannel
    MsgQueueIsChannel
    DataQueueIsChannel
