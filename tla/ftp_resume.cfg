SPECIFICATION FairSpec
CONSTANTS
    Nc = 3
    ChunkLen = 2
    FileSize = 7
    Servers = {"rest"}
    MaxRuns = 3
    MaxFaults = 3
INVARIANTS
    ResumeCompletes
\* There may be no further run.
CHECK_DEADLOCK FALSE
