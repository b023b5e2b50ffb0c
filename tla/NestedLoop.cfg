CONSTANTS
  MaxOuter = 3
  MaxInner = 3
  Accepted <- MCAccepted
  MaxResets = 2
SPECIFICATION Spec
INVARIANTS
  InOrder
  CacheIsComplete
  FalseIsTheEnd
