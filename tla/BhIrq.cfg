SPECIFICATION FairSpec
CONSTANTS
    Batch = 2
    NumBufs = 1
    MaxRetry = 2
    MaxMisses = 2
    MaxFaults = 1
    MaxOut = 3
    MaxSends = 2
INVARIANTS OneAnnouncement RightLength NothingOverwritten WillLook AwakeWhenUsed
PROPERTIES NothingStuck ReleasedWhenQuiet
CHECK_DEADLOCK FALSE
