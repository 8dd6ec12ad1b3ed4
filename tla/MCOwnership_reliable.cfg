\* Two followers, two symbols; every write of the state file succeeds.
CONSTANTS
    Followers = {f1, f2}
    Symbols = {s1, s2}
    Persist = TRUE
    DiskMayFail = FALSE
    NoFile = NoFile
SYMMETRY Symmetry
SPECIFICATION Spec
INVARIANTS TypeOK LedgerOK FileFollowsMemory
PROPERTIES FollowsCycle ProtectedForever
