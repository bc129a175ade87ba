CONSTANTS
  p = p
  q = q
  a = a
  b = b
  d = d
  root = root
  model = model
  None = None
  Writers = {1, 2}
  Projects = {p, q}
  Scenes = {a, b, d}
  Others = {root, model}
  ProjectOf <- MCProjectOf
  Rank <- MCRank
  Writes <- MCWrites
  QueueCapacity = 1
  LatestCapacity = 3
  DirtyCapacity = 1
  MaxWrites <- MCMaxWrites
  MaxFaults = 1
SPECIFICATION Spec
INVARIANTS ScheduledIsHeld IdleIsQuiet UsableIsCurrent WaiterHasWaker
CHECK_DEADLOCK FALSE
