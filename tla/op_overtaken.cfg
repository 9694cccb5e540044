SPECIFICATION Spec
CONSTANTS
  MaxCommands = 3
  MaxAlerts = 2
  SocketFills = FALSE
INVARIANTS
  RepliesMatch
CHECK_DEADLOCK FALSE
