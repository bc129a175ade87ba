SPECIFICATION Spec
CONSTANTS
  None = None
  NumKeys = 2
  Animated <- MCAnimated
  Cameras <- MCCameras
  Selections <- MCSelections
  Geometry <- MCGeometry
  Animation <- MCAnimation
  Decoded <- MCDecoded
  CpuBudget = 3
  GpuBudget = 2
  UploadBudget = 1
  LoaderCapacity = 1
  WorkerCapacity = 1
  RepairCapacity = 1
  PersistenceCapacity = 1
  MaxChanges = 3
  MaxGeneration = 2
INVARIANTS HeldWithinBudget Accounted ReadyExactly FirstLoadIsUnderWay
CHECK_DEADLOCK FALSE
