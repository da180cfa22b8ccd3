SPECIFICATION LiveSpec
CONSTANT MaxSends = 3
CHECK_DEADLOCK FALSE
INVARIANTS
  TypeOK
  FreedOnlyIdle
PROPERTIES
  StoppedIsKept
  CloseEnds
