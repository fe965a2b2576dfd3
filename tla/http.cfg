SPECIFICATION FairSpec
CONSTANTS
  None = None
  MaxRetries = 2
  MaxRedirects = 2
  Kinds <- Kind
  MayAbort = TRUE
INVARIANTS
  TypeOK
  CredentialsStayHome
  HooksFireOnce
  WorkBounded
PROPERTIES
  ImplementsAtomicReplace
  EveryCallSettles
CHECK_DEADLOCK FALSE
