SPECIFICATION FairSpec
CONSTANTS
  a1 = a1
  Apps <- OneApp
  MaxVersion = 2
  MaxOutages = 1
  MaxFaults = 0
  Garbled = Garbled
PROPERTIES
  OrphansCleared
  PendingApplied
