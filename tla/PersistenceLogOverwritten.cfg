CONSTANTS
  u1 = u1
  u2 = u2
  u3 = u3
  i1 = i1
  Updates = {u1, u2}
  Imports = {}
  Size <- MCSize
  CrashPoints <- SafePlaces
  MaxCrashes = 1
  MaxUnloads = 0
  MaxEvents = 5
  None = None
  Torn = Torn
SPECIFICATION Spec
INVARIANTS
  AckedSurvive
CHECK_DEADLOCK FALSE
