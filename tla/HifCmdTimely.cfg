SPECIFICATION Spec
CONSTANTS
    p1 = p1  p2 = p2  p3 = p3
    Procs = {p1, p2, p3}
    Ids = {"conf"}
    SlExchange = "sl"
    ShutDown = "shut"
    NumBufs = 2
    LateAnswers = FALSE
    MayHang = TRUE
    MayHeat = FALSE
    MaxCalls = 1
    MaxFrames = 2
    MaxBusErrors = 0
    None = None  Frame = Frame
    TimedOut = TimedOut  Unconfirmed = Unconfirmed
SYMMETRY ProcSymmetry
INVARIANTS CreditsExact AnswerIsOwn SentOnceWhileOwned GivesUpOnlyIfHung RenewalExclusive
PROPERTIES Refinement
CHECK_DEADLOCK FALSE
