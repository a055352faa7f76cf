SPECIFICATION FairSpec

CONSTANTS
    r1 = r1
    r2 = r2
    f1 = f1
    f2 = f2
    Runs = {r1, r2}
    Files = {f1, f2}
    MaxConcurrent = 1
    MaxChunks = 1
    MaxFaults = 1

INVARIANTS
    TypeOK
    IndexingMeansWorking
    SerialIsCurrent
PROPERTIES
    NeverEmptied
    RunsEnd
