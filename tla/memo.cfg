SPECIFICATION Spec
CONSTANTS
  Call = {c1, c2, c3, c4}
  Key = {k1, k2, k3}
  None = None
  MaxSize = 2
  Ttl = 1
  MaxClock = 2
  MayThrowSync = TRUE
INVARIANTS TypeOK CacheBounded
PROPERTIES ImplementsSharedFlight FreshAnswer NoNeedlessFlight LeastRecentlyUsed
CHECK_DEADLOCK FALSE
SYMMETRY Symmetry
