SPECIFICATION Spec
CONSTANTS
  Runs <- TwoRuns
  Bases <- OneBase
  Promotion = "final-build"
  Serialized = FALSE
  PolicyFloors = {0, 2}
  BuildLimit = 4
  MaxSequence = 2
  MaxAttempts = 3
  MaxDeletions = 1
CHECK_DEADLOCK FALSE
INVARIANTS
  NumbersSound
  PackagesDistinct
PROPERTIES
  ImplementsAllocator
