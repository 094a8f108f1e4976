SPECIFICATION FairSpec
CONSTANTS
    p1 = p1  p2 = p2  p3 = p3
    Procs = {p1, p2}
    Ids = {"conf"}
    SlExchange = "sl"
    ShutDown = "shut"
    NumBufs = 1
    LateAnswers = TRUE
    MayHang = FALSE
    MayHeat = TRUE
    MaxCalls = 1
    MaxFrames = 1
    MaxBusErrors = 1
    None = None  Frame = Frame
    TimedOut = TimedOut  Unconfirmed = Unconfirmed
INVARIANTS BufSendProtected
PROPERTIES CallReturns
CHECK_DEADLOCK FALSE
