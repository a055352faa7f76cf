SPECIFICATION SerialSpec

CONSTANTS
    w1 = w1
    w2 = w2
    v1 = v1
    Conns = {w1, w2}
    Writers = {w1, w2}
    MaxDocs = 2
    SendCap = 4
    MaxUpdates = 2
    MaxMessages = 3
    MaxFaults = 1

\* Every client may have left for good and every upload have ended.
CHECK_DEADLOCK FALSE

INVARIANTS
    SeedIsComplete
PROPERTIES
    ImplementsDocument
