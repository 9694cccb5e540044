SPECIFICATION Spec
CONSTANTS
  MaxConns = 2
  MaxSubscribers = 1
  BufferCap = 1
  MaxCommands = 1
  MaxRaised = 1
INVARIANTS
  SubscribedIsListed
CHECK_DEADLOCK FALSE
