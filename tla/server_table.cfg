SPECIFICATION Spec
CONSTANTS
  Ids <- MCThreeIds
  NoId = NoId
  VarNames <- MCVarNames
  NoValue = NoValue
  Readings <- MCThreeReadings
  MaxNodes = 2
  MaxVars = 1
  MaxAlerts = 2
  InactiveAfter = 1
  MaxSeq = 3
  MaxTime = 3
  MaxUdp = 2
  MaxRaised = 2
  n1 = n1
  n2 = n2
  n3 = n3
SYMMETRY MCSymmetry
INVARIANTS
  TypeOK
  TableConsistent
  ActiveIffNotAlerted
  MeasuresBounded
  CountersAgree
PROPERTIES
  MarkedInactiveRightly
  SweepAlertsOnce
  MeasuresKept
