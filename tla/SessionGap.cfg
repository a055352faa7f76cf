SPECIFICATION Spec
\* The view is left for good.
CHECK_DEADLOCK FALSE

CONSTANTS
 file1 = file1
 file2 = file2
 Files = {file1}
 peer1 = peer1
 peer2 = peer2
 Peers = {peer1, peer2}
 None = None
 MAX_RECONNECT_ATTEMPTS = 1
 MaxTries = 1
 MaxSessions = 1
 MaxEditors = 1
 MaxEdits = 2

INVARIANTS
    NoGapInLog
