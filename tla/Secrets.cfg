SPECIFICATION Spec
CONSTANTS
  Invocations = {"i1", "i2", "i3"}
  Operation <- TwoOperations
  Secrets <- TwoSecrets
  JournalFaults = 3
  MaxOutside = 2
  Runs = {"r1", "r2"}
  Names = {"n1", "n2"}
  MaxGeneration = 2
  MaxRevision = 2
  HcpValues = {"a", "b"}
  HcpFaults = 1
  NoRun = "nobody"
  Operators = {"o1", "o2", "o3"}
  MaxKills = 1
CHECK_DEADLOCK FALSE
INVARIANTS
  JournalTruth
  HcpRevisionTellsValue
  SecretFilesSound
PROPERTIES
  NothingTakenBack
