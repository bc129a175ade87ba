CONSTANTS
  Calls = {c1, c2}
  SnapshotCalls = {c1}
  NoCall = NoCall
SPECIFICATION Spec
INVARIANTS OneClaimWinner AnswerIsTrue
PROPERTIES KeepsContract EveryCallCloses
CHECK_DEADLOCK FALSE
