CONSTANTS
  t1 = t1
  t2 = t2
  h1 = h1
  p1 = p1
  p2 = p2
  s1 = s1
  s2 = s2
  Txns = {t1, t2}
  Processes = {h1}
  ProcessOf <- OneProcess
  Scenes = {s1, s2}
  Projects = {p1, p2}
  ProjectOf <- SceneProjects
  Target <- SameTarget
  Closure <- BothScope
  None = None
  MaxGen = 1
  MaxSession = 2
  MaxRenewals = 1
  MaxRestarts = 1
SPECIFICATION BoundedSpec
INVARIANTS HistoryNeverRegresses FrozenIffLeased
PROPERTIES FinishedIsCurrent AuthoringResumes OperationsEnd
CHECK_DEADLOCK FALSE
