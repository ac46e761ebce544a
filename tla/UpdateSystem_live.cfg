SPECIFICATION FairSpec
CONSTANTS
  a1 = a1
  a2 = a2
  c1 = c1
  c2 = c2
  None = None
  Client = Client
  Apps <- TwoApps
  Conns <- OneConn
  MaxVersion = 2
  MaxContent = 2
  MaxRestarts = 0
  MaxFaults = 0
PROPERTIES
  Converges
  SilentClientIsServed
CHECK_DEADLOCK FALSE
