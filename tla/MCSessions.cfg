SPECIFICATION MCSpec
CONSTANTS
    r1 = r1
    r2 = r2
    r3 = r3
    c1 = c1
    c2 = c2
    k1 = k1
    k2 = k2
    j1 = j1
    j2 = j2
    Convs = {c1, c2}
    Clients = {k1, k2}
    Jobs = {j1, j2}
    Kinds = {"job", "call"}
    Births = {"old", "first", "review"}
    MAX_TAKEOVERS = 1
    Asks = 1
INVARIANT ToldOnce
INVARIANT OneDriver
INVARIANT OfferAgrees
PROPERTY NoForbiddenTurn
PROPERTY NothingBetween
CHECK_DEADLOCK FALSE
