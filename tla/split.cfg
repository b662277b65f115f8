CONSTANTS
    MinChunk = 4
    MaxAsked = 9
    MaxSize = 80
    MaxLog = 7
SPECIFICATION SplitSpec
INVARIANTS
    SplitTypeOK
    ChunksAreDisjoint
    OnlyRemainderIsLost
\* chunk_split returns.
CHECK_DEADLOCK FALSE
