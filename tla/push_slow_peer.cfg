SPECIFICATION FairSpec
CONSTANTS
  MaxConns = 2
  MaxSubscribers = 2
  BufferCap = 1
  MaxCommands = 1
  MaxRaised = 2
PROPERTIES
  MutexReleased
CHECK_DEADLOCK FALSE
