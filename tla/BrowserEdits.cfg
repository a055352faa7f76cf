SPECIFICATION Spec
\* Everything may have been deleted, and the panel closed for the last time.
CHECK_DEADLOCK FALSE

CONSTANTS
 root = root
 a = a
 n = n
 x = x
 Folders = {root, a, n}
 Plain = {x}
 Root = root
 Initial <- InitialTree
 None = None
 Types = {"folder"}
 MaxCalls = 2
 MaxRequests = 4

INVARIANT
    NoOtherEdit
