SPECIFICATION DeliverySpec
CONSTANTS
  k1 = k1
  None = None
  NumPaths = 2
  Keys <- MCKeys
  Opened <- MCOpened
  DeliveryCapacity = 1
  DeliveryResultCapacity = 1
  MaxEdits = 2
  MaxSessions = 2
  MaxRestarts = 1
  MaxFaults = 1
INVARIANTS PublishedIsSnapshot
PROPERTIES DeliveryArrives
CHECK_DEADLOCK FALSE
