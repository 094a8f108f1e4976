SPECIFICATION FairSpec
CONSTANTS
    Blocks = 9
    Fifo = 4
    Period = 2
    HdrMod = 5
    CtrMod = 6
    MaxQueue = 3
    MaxKeys = 3
    MaxCmds = 7
    MaxInds = 2
INVARIANTS BlocksIntact 
PROPERTIES   ProbeEnds
CHECK_DEADLOCK FALSE
