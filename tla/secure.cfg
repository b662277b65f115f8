SPECIFICATION FairSpec
CONSTANTS
    Callers = {"multi", "limited", "probe"}
    PAGE = 2
    HeadLens = {2, 3}
    Needs = {1, 2, 3, 4, 6, 8, 9, 12, 20, 22}
    BodyLen = 10
    Half = 10
    MaxRecord = 7
    Window = 2
    MaxStirs = 1
INVARIANTS
    SecureTypeOK
    StreamInOrder
    NothingIsHidden
PROPERTIES
    SecureEnds
\* A transfer ends.
CHECK_DEADLOCK FALSE
