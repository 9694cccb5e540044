SPECIFICATION Spec
CONSTANTS
  NClips = 2
  Clips <- MCClips
  MinDur = 2
  MaxDur = 3
  CardEnd = 1
  CardKeep = 2
  PerSecond = 6
  MaxCues = 3
  Horizon = 4
INVARIANTS
  TypeOK
  ClipCuesOrdered
  ShortOnlyIfFollowed
  TextKept
  FinalOrder
  CardClear
  StampsExact
CHECK_DEADLOCK FALSE
