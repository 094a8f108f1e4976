SPECIFICATION Spec
CONSTANTS
    m1 = m1  m2 = m2  u0 = u0  u1 = u1  u2 = u2
    Frames = {u0, u2}
    Mcast = {}
    Queues = {0, 2}
    QueueOf <- QueueOfFrames
    Priority <- Priorities
    Flushers = {"flush"}
    Lockers = {}
    NumBufs = 2
    MayHang = TRUE
    LateAnswers = TRUE
    MaxCalls = 1
    MaxBusErrors = 0
    None = None
INVARIANTS CountedOff
CHECK_DEADLOCK FALSE
