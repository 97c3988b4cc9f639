CONSTANTS
  a1 = a1  r1 = r1  p1 = p1  p2 = p2  m1 = m1
  None = None
  Actions = {a1}
  Kind <- SendKind
  Group <- NoGroup
  Origin <- FromFirst
  Copied = {}
  Routes = {r1}
  Peers = {p1, p2}
  Messages = {m1}
  BatchKeys = {1, 2}
  HardSpan = 2
  ExecuteSpan = 1
  RetryDelay = 1
  ProbeDelay = 1
  ProbeGrace = 1
  Day = 2
  ApprovalKeep = 3
  UnknownKeep = 1
  MaxAttempts = 1
  MaxReissues = 1
  MaxOpen = 1
  DailyLimit <- Limit1
  Proposals <- Together
  Suggestions = {}
  Policies <- Steady
  Removable = {}
  Unsteady = {r1}
  Lossy = {r1}
  Restarts = {}
  Undated = TRUE
  MaxCodes = 1
  MaxTime = 2
  MaxCrashes = 0
SPECIFICATION Spec
INVARIANT ApprovalIsInformed
SYMMETRY PeerSymmetry
CONSTRAINT UpToApproval
