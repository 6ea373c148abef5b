SPECIFICATION Spec
CONSTANTS
  Runs <- TwoRuns
  Bases <- OneBase
  Promotion = "promote-bytes"
  Serialized = TRUE
  PolicyFloors = {0}
  BuildLimit = 3
  MaxSequence = 1
  MaxAttempts = 2
  MaxDeletions = 0
CHECK_DEADLOCK FALSE
INVARIANTS
  MissingLedgerHasHistory
