CONSTANTS
  w1 = w1
  w2 = w2
  i1 = i1
  i2 = i2
  i3 = i3
  Writers = {w1, w2}
  Items = {i1, i2, i3}
  Existing = {i1}
  Kinds = {"create", "adopt", "import", "delete", "rename"}
  None = None
  Capacity = 2
  MaxFaults = 1
SPECIFICATION Spec
INVARIANTS CanonicalConsistent LockedWritesStay StageAgrees
PROPERTIES HandoffConsumed
CHECK_DEADLOCK FALSE
