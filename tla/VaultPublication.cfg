SPECIFICATION Spec
CONSTANTS
  old = old
  mid = mid
  new = new
  a = a
  b = b
  Foreign = 0
  Revision <- Catalogs
  Value <- Payloads
  Publishers <- ThreePublishers
  Batch <- TwoTargets
  MaxReads = 2
  MaxFaults = 1
CHECK_DEADLOCK FALSE
INVARIANTS
  PublicationSound
PROPERTIES
  RevisionMonotone
  NewestDelivered
