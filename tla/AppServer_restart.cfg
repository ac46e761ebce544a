SPECIFICATION Spec
CONSTANTS
  a1 = a1
  k1 = k1
  c1 = c1
  c2 = c2
  c3 = c3
  None = None
  Apps <- OneApp
  Clients <- OneClient
  Conns <- TwoConns
  MaxVersion = 2
  MaxContent = 2
  MaxRestarts = 2
  MaxFaults = 1
  SlowFrames = TRUE
  ManifestBreaks = TRUE
INVARIANTS
  TypeOK
  VersionNamesOneContent
PROPERTY
  NothingForgotten
