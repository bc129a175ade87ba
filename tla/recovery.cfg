SPECIFICATION RecoverySpec
CONSTANTS
  k1 = k1
  k2 = k2
  None = None
  NumPaths = 1
  Keys <- MCKeys
  Opened <- MCOpened
  RecoveryCapacity = 1
  RecoveryResultCapacity = 1
  MaxEdits = 3
  MaxSessions = 2
  MaxFaults = 1
  MaxCrashes = 1
INVARIANTS RestoresAnExport
PROPERTIES LastIsCheckpointed
CHECK_DEADLOCK FALSE
