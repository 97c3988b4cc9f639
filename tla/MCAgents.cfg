SPECIFICATION MCSpec
CONSTANTS
    c1 = c1
    c2 = c2
    c3 = c3
    v1 = v1
    v2 = v2
    Calls = {c1, c2, c3}
    Dirs = {d1}
    Vendors = {v1, v2}
    NoId = NoId
    Limit = 2
    MaxHandles = 3
    MaxTurns = 2
    Crashes = 1
    Adopts = TRUE
SYMMETRY Symmetry
INVARIANT OneUser
INVARIANT NoLostWakeup
INVARIANT NothingMissed
PROPERTY InUseStays
CHECK_DEADLOCK FALSE
