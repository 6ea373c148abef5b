SPECIFICATION Spec
CONSTANTS
  Runs <- ThreeRuns
  Bases <- OneBase
  Promotion = "promote-bytes"
  Serialized = TRUE
  PolicyFloors = {0}
  BuildLimit = 6
  MaxSequence = 2
  MaxAttempts = 2
  MaxDeletions = 1
CHECK_DEADLOCK FALSE
INVARIANTS
  StableOrder
PROPERTIES
  PublicMovesForward
