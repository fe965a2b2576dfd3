SPECIFICATION Spec
CONSTANTS
  esm = esm
  cjs = cjs
  h1 = h1
  h2 = h2
  h3 = h3
  h4 = h4
  Node = Node
  Copy = {esm, cjs}
  Handler = {h1, h2, h3, h4}
  CopyOf <- Owners
  AlwaysLast = {h2, h3}
  MayThrow = {h1}
  MayExit = {h2, h4}
INVARIANTS
  TypeOK
  EveryCallbackRuns
  OnceAndInOrder
  SignalsDecided
CHECK_DEADLOCK FALSE
