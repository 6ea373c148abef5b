SPECIFICATION Spec
CONSTANTS
  p1 = p1
  p2 = p2
  s1 = s1
  s2 = s2
  Pods <- TwoPods
  Slots <- OneSlot
  Poll = 1
  DiscoveryEvery = 1
  FirewallEvery = 1
  MaxFaults = 1
CHECK_DEADLOCK FALSE
PROPERTY
  StableAdmitted
