SPECIFICATION Spec
\* The error screen, or the deletion of every file, ends what can be done.
CHECK_DEADLOCK FALSE

CONSTANTS
 a = a
 n = n
 Files = {a, n}
 Existing = {a}
 Missing = Missing
 Url = Url
 MaxText = 1
 MaxLoads = 1
 MaxOps = 2

INVARIANTS
    TypeOK
    OneActiveTab
    NothingOutlivesItsTab
    SavesDoNotOverlap
