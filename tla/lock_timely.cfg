SPECIFICATION Spec
CONSTANTS
  a1 = a1
  a2 = a2
  b = b
  d = d
  p1 = p1
  p2 = p2
  p3 = p3
  None = None
  Call = {a1, a2, b}
  Process = {p1, p2}
  ProcOf <- TwoByOne
  Retries = 1
  StaleMs = 3
  TouchInterval = 2
  MaxLag = 1
  MaxClock = 5
  Deletable = TRUE
  MkdirMayFail = FALSE
  MayExit = {p1, p2}
  MayCrash = {}
  MayAbort = {}
INVARIANTS TypeOK MutualExclusion LiveLockStaysFresh
PROPERTY ImplementsCriticalSection
CHECK_DEADLOCK FALSE
