SPECIFICATION MCSpec
CONSTANTS
    c1 = c1
    c2 = c2
    j1 = j1
    q1 = q1
    q2 = q2
    Questions = {q1, q2}
    Replies = {m1}
    None = None
    Seconds = 1
    MaxTime = 2
    MaxStops = 1
SYMMETRY Symmetry
INVARIANT NothingTwice
INVARIANT NothingLost
INVARIANT TurnsInOrder
INVARIANT YesIsTheOwners
CHECK_DEADLOCK FALSE
