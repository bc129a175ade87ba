SPECIFICATION Spec
CONSTANTS
  Root = Root
  a = a
  b = b
  child = child
  Prims <- MCPrims
  Parent <- MCParent
  Opened <- MCOpened
  MaxEdits = 2
  MaxSessions = 2
  MaxFaults = 1
INVARIANTS Faithful
PROPERTIES EventuallyShown
CHECK_DEADLOCK FALSE
