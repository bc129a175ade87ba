SPECIFICATION StreamSpec
CONSTANTS
  None = None
  MaxClients = 2
  FrameCapacity = 1
  QueueCapacity = 1
  MaxGeneration = 3
  Resizers = {1}
  Watchers = {1}
INVARIANTS CapsFitFrame TargetsFollowShared
PROPERTIES AcceptedIsApplied
