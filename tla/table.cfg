SPECIFICATION Spec
CONSTANTS
    p1 = p1
    p2 = p2
    a = a
    b = b
    c = c
    NoKey = NoKey
    Procs = {p1, p2}
    Keys = {a, b, c}
    Capacity = 3
    Hash <- MCHash
    Size <- MCSize
    MaxStarts = 3
    MaxGets = 3
    MaxKills = 1
INVARIANTS
    AddrTypeOK
    TablesAreSound
    AddressIsOfHost
PROPERTIES
    LoadsWhatWasDumped
\* The processes exit, and there may be no further start.
CHECK_DEADLOCK FALSE
