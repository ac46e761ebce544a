SPECIFICATION Spec
CONSTANTS
  a1 = a1
  k1 = k1
  c1 = c1
  c2 = c2
  c3 = c3
  None = None
  Apps <- OneApp
  Clients <- OneClient
  Conns <- ThreeConns
  MaxVersion = 3
  MaxContent = 1
  MaxRestarts = 0
  MaxFaults = 0
  SlowFrames = TRUE
  ManifestBreaks = FALSE
SYMMETRY AnyOrder
INVARIANTS
  QueueIsNewest
  QueueHasReader
  SupersededIsClosing
PROPERTY
  OnlyOwnerUnregisters
