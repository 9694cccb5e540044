SPECIFICATION FairSpec
CONSTANTS
  Ids <- MCIds
  NoId = NoId
  VarNames <- MCVarNames
  NoValue = NoValue
  Readings <- MCReadings
  MaxNodes = 2
  MaxVars = 2
  MaxAlerts = 2
  InactiveAfter = 1
  MaxSeq = 1
  MaxTime = 3
  MaxUdp = 2
  MaxRaised = 2
  n1 = n1
  n2 = n2
  n3 = n3
PROPERTIES
  SilentNodeDetected
  AlertLogSpec
