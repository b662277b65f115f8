SPECIFICATION Spec
CONSTANTS
    MaxConns = 5
    MaxFds = 5
    MAX_CONNS_PER_HOST = 2
    GroupMax = 2
    MaxRequests = 2
    MaxFaults = 2
INVARIANTS
    CacheTypeOK
    ListsAreSound
    NoSharedDescriptor
    DiesOfKnownCauses
\* The program exits.
CHECK_DEADLOCK FALSE
