SPECIFICATION FairPeersSpec
CONSTANTS
  MaxConns = 2
  MaxSubscribers = 2
  BufferCap = 1
  MaxCommands = 2
  MaxRaised = 2
INVARIANTS
  TypeOK
  SubscribersAreServed
  NoDoubleSubscription
  OperatorsAgree
  AlertsComplete
PROPERTIES
  MutexReleased
  CommandsAnswered
CHECK_DEADLOCK FALSE
