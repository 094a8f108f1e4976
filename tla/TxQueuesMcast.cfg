SPECIFICATION FairSpec
CONSTANTS
    m1 = m1  m2 = m2  u0 = u0  u1 = u1  u2 = u2
    Frames = {m1, m2}
    Mcast = {m1, m2}
    Queues = {0}
    QueueOf <- QueueOfFrames
    Priority <- Priorities
    Flushers = {}
    Lockers = {"lock"}
    NumBufs = 1
    MayHang = FALSE
    LateAnswers = FALSE
    MaxCalls = 1
    MaxBusErrors = 0
    None = None
INVARIANTS CabAnnounced
PROPERTIES FrameEnds
CHECK_DEADLOCK FALSE
