SPECIFICATION CooperativeSpec
CONSTANTS
  a1 = a1
  k1 = k1
  c1 = c1
  c2 = c2
  c3 = c3
  None = None
  Apps <- OneApp
  Clients <- OneClient
  Conns <- TwoConns
  MaxVersion = 2
  MaxContent = 1
  MaxRestarts = 0
  MaxFaults = 0
  SlowFrames = TRUE
  ManifestBreaks = FALSE
PROPERTIES
  AckWaitEnds
  SupersededEnds
