SPECIFICATION StoreSpec
CONSTANTS
  k1 = k1
  k2 = k2
  None = None
  NumPaths = 2
  Keys <- MCKeys
  Opened <- MCOpened
  MailboxCapacity = 2
  ResponseCapacity = 2
  MaxEdits = 2
  MaxSessions = 2
  MaxFaults = 1
INVARIANTS FollowsStage StoreReplays
CHECK_DEADLOCK FALSE
