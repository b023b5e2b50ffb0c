CONSTANTS
  u1 = u1
  u2 = u2
  u3 = u3
  i1 = i1
  Updates = {u1}
  Imports = {}
  Size <- MCSize
  CrashPoints <- SafePlaces
  MaxCrashes = 0
  MaxUnloads = 1
  MaxEvents = 5
  None = None
  Torn = Torn
SPECIFICATION Spec
INVARIANTS
  AckedServed
CHECK_DEADLOCK FALSE
