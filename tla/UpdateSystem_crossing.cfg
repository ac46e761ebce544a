SPECIFICATION Spec
CONSTANTS
  a1 = a1
  a2 = a2
  c1 = c1
  c2 = c2
  None = None
  Client = Client
  Apps <- OneApp
  Conns <- TwoConns
  MaxVersion = 2
  MaxContent = 2
  MaxRestarts = 1
  MaxFaults = 0
SYMMETRY AnyOrder
INVARIANTS
  TypeOK
  ContentMatchesVersion
  NewestOnItsWay
  ClientNotAhead
PROPERTY
  TransfersInOrder
