CONSTANTS
    N = 2
    TimeOut = 1
    GroupWrites = TRUE
    ChunkLen = 2
    HeadRoom = 2
    Answers = {"range", "other"}
    Drops = {"closed", "reset"}
SPECIFICATION FairHttpSpec
INVARIANTS
    HttpTypeOK
    ReceivedIsRight
    KeptIsComplete
    WaitedIsIncomplete
PROPERTIES
    PerformEnds
\* The call returns.
CHECK_DEADLOCK FALSE
