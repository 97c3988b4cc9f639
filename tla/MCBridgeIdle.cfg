SPECIFICATION FairSpec
CONSTANTS
    c1 = c1
    None = None
    Messages <- TwoMessages
    Chats <- OneChat
    Chat <- SameChat
    Dismissed <- Nothing
    Unheard <- Nothing
    Offered <- Nothing
    Returned <- Nothing
    Jobs <- Nothing
    BatchMax = 2
    Checkpoints = TRUE
    MaxClaims = 2
    MaxQueued = 2
    MaxSessions = 2
    MaxTurns = 2
    MaxSeen = 9
    MaxReply = 2
    MaxHeld = 1
    AnswerUnits = {1}
    MaxFiles = 0
    HeldAge = 1
    HeldPerChat = 2
    HeldUnits = 2
    HeldTotal = 3
    Idles = TRUE
    Keyed = TRUE
    MaxTime = 0
    MaxCrashes = 0
PROPERTY EveryClaimSettles
CHECK_DEADLOCK FALSE
