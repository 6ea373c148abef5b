SPECIFICATION Spec
CHECK_DEADLOCK FALSE
CONSTANTS
  \* Slow requests may use up all of the deadline but one sleep.
  Deadline = 5
  MaxSlow = 4
  \* A child with one chunk more than expected, and perhaps a descendant that keeps its pipes.
  Chunks = 4
  Expected = 3
  Noise = 1
  QueueSize = 2
  PipeSize = 1
  Inherited = TRUE
  \* The allowance of one full inventory per attempt.
  Assets = {"f1", "f2", "f3"}
  AssetSize <- Sizes
  MaxAttempts = 3
  MaxBytes = 12
  \* Two operators race for one output while its input is replaced.
  Operators = {"o1", "o2"}
  MaxReplaced = 2
  MaxKills = 1
  \* Two originals, written to while they are cut into parts.
  NumFiles = 2
  PayloadBytes = 3
  PartSizes = {1, 2}
  MaxWrites = 2
  \* Two publications of two images, and two kills or outside changes.
  Invocations = {"i1", "i2"}
  Images <- TwoImages
  Versions = {"1.0", "1.1"}
  MaxOutside = 2
INVARIANTS
  WaitSound
  CompleteOnReturn
  DownloadSound
  ReceiptIsTrue
  PayloadSound
  RegistryKept
PROPERTIES
  HealthyAccepted
  TransferEnds
