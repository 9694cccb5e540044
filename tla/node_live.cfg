SPECIFICATION FairSpec
CONSTANTS
  Burst = 2
  Reorder = FALSE
  Duplicate = FALSE
  TableFull = TRUE
  Counting = FALSE
  MaxIssued = 5
  MaxFlight = 2
  MaxCrashes = 2
  MaxStale = 1
PROPERTIES
  NodeComesBack
  StopEnds
CHECK_DEADLOCK FALSE
