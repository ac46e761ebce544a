SPECIFICATION Spec
CONSTANTS
  a1 = a1
  Apps <- OneApp
  MaxVersion = 3
  MaxOutages = 2
  MaxFaults = 1
  Garbled = Garbled
INVARIANTS
  TypeOK
  PendingPaired
  RecordNotAhead
  RecordedIsInstalled
  MetaNotAhead
  ReportedIsDurable
PROPERTIES
  PendingLeavesByInstall
  RetryRespectsLock
  SlotsSpec
