SPECIFICATION Spec
CONSTANTS
  a1 = a1
  a2 = a2
  b = b
  d = d
  p1 = p1
  p2 = p2
  p3 = p3
  None = None
  Call = {a1, b, d}
  Process = {p1, p2, p3}
  ProcOf <- OneEach
  Retries = 1
  StaleMs = 2
  TouchInterval = 1
  MaxLag = 1
  MaxClock = 4
  Deletable = TRUE
  MkdirMayFail = FALSE
  MayExit = {}
  MayCrash = {p1}
  MayAbort = {}
INVARIANT MutualExclusion
CHECK_DEADLOCK FALSE
