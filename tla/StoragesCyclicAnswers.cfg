CONSTANTS
  Nodes = {1, 2, 3, 4, 5}
  Far = 9
  Components <- MCComponents
  Windows <- MCWindows
  Uint8Max = 3
  Uint16Max = 7
  Uint32Max = 255
  Int8Max = 2
  Int32Max = 127
  VisitRatio = 130
  MaxDeletes = 1
  MaxConversions = 2
SPECIFICATION Spec
INVARIANTS
  FindIsConnected
CHECK_DEADLOCK FALSE
