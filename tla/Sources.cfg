SPECIFICATION Spec
CHECK_DEADLOCK FALSE
CONSTANTS
  \* Two deliveries and two events around them.
  Deliveries = {"d1", "d2"}
  Followed = "d1"
  VendorEvents = 2
  MaxHeight = 1
  \* Two files, one kill, one edit by somebody else.
  Paths = {"f1", "f2"}
  Policies <- SmallPolicies
  MaxKills = 1
  MaxEdits = 1
  \* Documents of eight lines.
  MaxLines = 8
  \* Two preparations and one event.
  Preparers = {"p1", "p2"}
  Limit = 2
  VersionEvents = 1
  \* Two targets, two attempts, two faults.
  Targets = {"linux", "oci"}
  ImageTarget = "oci"
  MaxAttempts = 2
  MaxFaults = 2
  \* Two changes while a reader looks.
  MaxChanges = 2
INVARIANTS
  DeliveredIsQualified
  VersionFilesTrue
  TomlScanTrue
  ChosenIsFree
  AcceptedIsAttested
  AcceptedEvidenceHeld
PROPERTIES
  RetriesFinish
  OthersKept
