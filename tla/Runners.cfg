SPECIFICATION Spec
CHECK_DEADLOCK FALSE
CONSTANTS
  \* Two invocations of the switch and one change by others.
  Switches = {"i1", "i2"}
  Clients = {"app"}
  App = "app"
  Outsider = "outsider"
  MaxOutside = 1
  \* Every job, and every consumer with three workflow files.
  Workflows = {"f1", "f2", "f3"}
  \* Two invocations over one log root.
  Invocations = {"p1", "p2"}
  Repositories = 2
  \* Two platforms; how the archive of one of them differs from a sound one.
  Variants = {"sound", "flat", "legacy", "bare", "stray", "corrupt", "missing", "size", "arch", "version", "diff", "statement", "spare", "inventory", "subject", "twice", "unproved", "imageless", "second", "deep"}
  MaxDepth = 2
  MaxVisits = 6
  \* Three entries over two directories.
  ImagePaths <- TwoFolders
  Anchor <- AnchorPath
  Inventory <- OnePackage
  MaxEntries = 3
  MaxLayers = 3
  \* Images that lack at most one component.
  Lacking = {{}, {"libbpf"}, {"gstreamer"}, {"headers"}, {"runc"}}
  \* Scans that find nothing, assessed advisories, or new ones.
  Reports = {{}, {"headerBpf", "runc", "gst"}, {"header", "new"}}
  MaxTampers = 1
INVARIANTS
  RoutedByTrust
  NightlyTruth
  AcceptedIsSound
  LayersShown
  ImageBuildSound
PROPERTIES
  SwitchIsCurrent
  InvocationsEnd
  OthersKept
