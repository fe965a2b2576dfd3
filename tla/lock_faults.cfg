SPECIFICATION FairSpec
CONSTANTS
  a1 = a1
  a2 = a2
  b = b
  d = d
  p1 = p1
  p2 = p2
  p3 = p3
  None = None
  Call = {a1, a2, b}
  Process = {p1, p2}
  ProcOf <- TwoByOne
  Retries = 1
  StaleMs = 1
  TouchInterval = 1
  MaxLag = 2
  MaxClock = 3
  Deletable = TRUE
  MkdirMayFail = TRUE
  MayExit = {p1}
  MayCrash = {p2}
  MayAbort = {p1}
INVARIANTS ExclusiveUntilReclaimed NoLeakedDirectory
PROPERTY EveryCallSettles
CHECK_DEADLOCK FALSE
