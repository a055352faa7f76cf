SPECIFICATION FairSpec

CONSTANTS
    w1 = w1
    w2 = w2
    v1 = v1
    Conns = {w1, v1}
    Writers = {w1}
    MaxDocs = 4
    SendCap = 1
    MaxUpdates = 2
    MaxMessages = 2
    MaxFaults = 1

\* Every client may have left for good and every upload have ended.
CHECK_DEADLOCK FALSE

INVARIANTS
    TypeOK
    NoSendOnClosedChannel
    StoredLogIsALog
    ViewersCannotWrite
    ArmedTimerIsKnown

PROPERTIES
    DeadConnectionsEnd
