SPECIFICATION Spec
CONSTANTS
  Burst = 2
  Reorder = FALSE
  Duplicate = FALSE
  TableFull = TRUE
  Counting = TRUE
  MaxIssued = 5
  MaxFlight = 2
  MaxCrashes = 1
  MaxStale = 1
INVARIANTS
  TypeOK
  LossNotOverstated
CHECK_DEADLOCK FALSE
