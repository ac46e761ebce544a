SPECIFICATION Spec
CONSTANTS
  a1 = a1
  Apps <- OneApp
  MaxVersion = 2
  MaxOutages = 0
  MaxFaults = 0
  Garbled = Garbled
PROPERTY NoDowngrade
