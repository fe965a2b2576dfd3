SPECIFICATION FairSpec
CONSTANTS
  runs = runs
  gets = gets
  takes = takes
  cleans = cleans
  p1 = p1
  p2 = p2
  p3 = p3
  v1 = v1
  v2 = v2
  Empty = v2
  None = None
  Call = {runs, gets, takes, cleans}
  Process = {p1, p2, p3}
  ProcOf <- Owners
  Op <- Functions
  Pin <- Pins
  Forced = {takes}
  Version = {v1, v2}
  Retries = 1
  MayCrash = {p3}
  MayExpire = TRUE
INVARIANTS TypeOK PinnedCallsMeasureTheirPin
PROPERTIES  EveryCallSettles
CHECK_DEADLOCK FALSE
