SPECIFICATION Spec
CONSTANTS
  Call = {c1, c2, c3}
  Old = Old
  None = None
  Corrupt = Corrupt
  Failed = Failed
  OldExpiry = {0, 1}
  Ttl = 0
  MaxSkew = 0
  MaxClock = 1
  StoreMayFail = FALSE
  MayThrowSync = FALSE
INVARIANT MemoIsNewest
CHECK_DEADLOCK FALSE
