SPECIFICATION FairSpec
CONSTANTS
    Roles = {"probe", "thread"}
    MaxMore = 1
    MaxFaults = 2
INVARIANTS
    ControlTypeOK
    InStep
    HandedOverInOrder
PROPERTIES
    SessionEnds
\* A session ends.
CHECK_DEADLOCK FALSE
