SPECIFICATION FairSpec
CONSTANTS
  MaxCommands = 3
  MaxAlerts = 1
  SocketFills = TRUE
INVARIANTS
  TypeOK
  LockIsTheReaders
  RepliesMatchUnlessCrossed
  ListenersSeeAlerts
  AlertsConserved
PROPERTIES
  CommandsReturn
  AlertsShown
CHECK_DEADLOCK FALSE
