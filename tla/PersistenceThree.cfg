CONSTANTS
  u1 = u1
  u2 = u2
  u3 = u3
  i1 = i1
  Updates = {u1, u2, u3}
  Imports = {i1}
  Size <- MCSize
  CrashPoints <- Places
  MaxCrashes = 2
  MaxUnloads = 1
  MaxEvents = 7
  None = None
  Torn = Torn
SPECIFICATION Spec
INVARIANTS
  TypeOK
  RecoveryIntact
  CheckpointSurvives
  LostOnlyIfAtRisk
  MemoryServes
  RepairableByHand
PROPERTIES
  BackupRemovedLate
CHECK_DEADLOCK FALSE
