SPECIFICATION FairSpec
\* The user may have done all she may do.
CHECK_DEADLOCK FALSE

CONSTANTS
 t1 = t1
 t2 = t2
 Tokens = {t1, t2}
 None = None
 MaxMoves = 6

INVARIANTS
    TypeOK
    UserHasToken
    JoinsOnce
PROPERTIES
    WaitingEnds
