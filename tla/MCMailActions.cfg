\* One send that SCV copies to Sent itself: crashes at every step, time-outs,
\* late answers, HTTP 401, retries and planned restarts.
CONSTANTS
  a1 = a1  r1 = r1  p1 = p1  m1 = m1
  None = None
  Actions = {a1}
  Kind <- SendKind
  Group <- NoGroup
  Origin <- FromNobody
  Copied = {a1}
  Routes = {r1}
  Peers = {p1}
  Messages = {m1}
  BatchKeys = {1}
  HardSpan = 1
  ExecuteSpan = 1
  RetryDelay = 1
  ProbeDelay = 1
  ProbeGrace = 0
  Day = 2
  ApprovalKeep = 3
  UnknownKeep = 1
  MaxAttempts = 2
  MaxReissues = 0
  MaxOpen = 1
  DailyLimit <- Limit1
  Proposals <- Together
  Suggestions = {}
  Policies <- Steady
  Removable = {}
  Unsteady = {}
  Lossy = {}
  Restarts = {TRUE, FALSE}
  Undated = TRUE
  MaxCodes = 1
  MaxTime = 4
  MaxCrashes = 1
SPECIFICATION FairSpec
INVARIANTS TypeOK SendAtMostOnce SendTruth DoneHappened Never401Again
PROPERTIES OverIsFinal DrainHolds EveryActionEnds
