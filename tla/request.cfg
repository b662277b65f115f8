SPECIFICATION FairSpec
CONSTANTS
    Nc = 3
    ChunkLen = 2
    FileSize = 7
    Servers <- Kinds
    CacheSize = 2
    MaxRuns = 4
    MaxFaults = 3
INVARIANTS
    RequestTypeOK
    ClaimedIsStored
    FaultlessIsComplete
    SizedIsComplete
PROPERTIES
    KeepsPromise
    RunEnds
\* There may be no further run.
CHECK_DEADLOCK FALSE
