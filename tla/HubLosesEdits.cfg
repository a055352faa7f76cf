SPECIFICATION Spec

CONSTANTS
    w1 = w1
    w2 = w2
    v1 = v1
    Conns = {w1}
    Writers = {w1}
    MaxDocs = 1
    SendCap = 4
    MaxUpdates = 2
    MaxMessages = 2
    MaxFaults = 0

\* Every client may have left for good and every upload have ended.
CHECK_DEADLOCK FALSE

INVARIANTS
    NoEditsLost
