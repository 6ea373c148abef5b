SPECIFICATION Spec
CONSTANTS
  p1 = p1
  p2 = p2
  s1 = s1
  s2 = s2
  Pods <- TwoPods
  Slots <- TwoSlots
  Poll = 1
  DiscoveryEvery = 2
  FirewallEvery = 1
  MaxFaults = 2
SYMMETRY Interchange
CHECK_DEADLOCK FALSE
INVARIANTS
  AdmissionSound
