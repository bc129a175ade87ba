CONSTANTS
  first = first
  second = second
  a1 = a1
  a2 = a2
  b1 = b1
  b2 = b2
  X = X
  Y = Y
  EmptyRoot = EmptyRoot
  None = None
  Sessions = {first, second}
  Requests = {a1, a2, b2}
  Scenes = {X, Y}
  SessionOf <- MCSessionOf
  GenerationOf <- MCGenerationOf
  TargetOf <- MCTargetOf
  PreparedCapacity = 2
  ResultCapacity = 3
  FallbackUpdates = 3
  MaxCacheGeneration = 1
SPECIFICATION Spec
INVARIANTS ScreenIsBacked AnsweredOnce
PROPERTIES StageNeverGoesBack NewestIsAnswered
CHECK_DEADLOCK FALSE
