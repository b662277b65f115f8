\* A group of HTTP connections.
CONSTANTS
    N = 3
    TimeOut = 1
    GroupWrites = TRUE
SPECIFICATION LoopSpec
INVARIANTS
    LoopTypeOK
    CntIsActive
    ActiveIsWatched
    WrittenIsNotPolled
\* do_perform_select returns.
CHECK_DEADLOCK FALSE
