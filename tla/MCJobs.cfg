SPECIFICATION MCSpec
CONSTANTS
    m1 = m1
    m2 = m2
    r1 = r1
    r2 = r2
    Limit = 2
    Behind = {TRUE, FALSE}
    ByOwner = {TRUE, FALSE}
    Requests = {r1, r2}
    MaxStarts = 3
    Fails = 1
    Crashes = 2
    MaxEnds = 1
    Weeks = 1
INVARIANT NewestStands
PROPERTY DismissedStays
INVARIANT ResumedOnce
INVARIANT NoneLost
INVARIANT FollowedUpOnce
CHECK_DEADLOCK FALSE
