SPECIFICATION Spec
CONSTANTS
  a1 = a1
  a2 = a2
  Assets <- TwoAssets
  Extra = extra
  Ids <- FourIds
  Automatic = TRUE
  Reconciles = TRUE
  MaxOutside = 3
CHECK_DEADLOCK FALSE
INVARIANTS
  DraftSound
