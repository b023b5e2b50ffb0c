CONSTANTS
  u1 = u1
  u2 = u2
  u3 = u3
  i1 = i1
  Updates = {u1, u2, u3}
  Imports = {i1}
  Size <- MCSize
  CrashPoints <- Places
  MaxCrashes = 2
  MaxUnloads = 1
  MaxEvents = 5
  None = None
  Torn = Torn
SPECIFICATION FairSpec
INVARIANTS
  TypeOK
  RecoveryIntact
  CheckpointSurvives
  LostOnlyIfAtRisk
  MemoryServes
  RepairableByHand
PROPERTIES
  BackupRemovedLate
  WritersFinish
  BackupGoesAway
CHECK_DEADLOCK FALSE
