SPECIFICATION FairSpec
CONSTANTS
    Chunks = 2
    MaxScans = 2
    MaxHot = 2
INVARIANTS LockExact CompleteMeansScanned
PROPERTIES ScanEnds
CHECK_DEADLOCK FALSE
