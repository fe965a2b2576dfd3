SPECIFICATION Spec
CONSTANTS
  runs = runs
  gets = gets
  takes = takes
  cleans = cleans
  p1 = p1
  p2 = p2
  p3 = p3
  v1 = v1
  v2 = v2
  Empty = Empty
  None = None
  Call = {runs, gets, takes, cleans}
  Process = {p1, p2, p3}
  ProcOf <- Owners
  Op <- GetsOnly
  Pin <- Pins
  Forced = {}
  Version = {v1, v2}
  Retries = 1
  MayCrash = {}
  MayExpire = FALSE
INVARIANT ReturnsWhatItMeasured
CHECK_DEADLOCK FALSE
