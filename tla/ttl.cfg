SPECIFICATION FairSpec
CONSTANTS
  Call = {c1, c2, c3}
  Old = Old
  None = None
  Corrupt = Corrupt
  Failed = Failed
  OldExpiry = {1}
  Ttl = 0
  MaxSkew = 0
  MaxClock = 1
  StoreMayFail = TRUE
  MayThrowSync = TRUE
INVARIANTS TypeOK InflightIsPending
PROPERTIES ImplementsSharedFlight NoExpiredAnswer NewestAnswer EveryCallSettles
CHECK_DEADLOCK FALSE
