SPECIFICATION Spec
CONSTANTS
  AppThreads = {t1, t2}
  MaxSends = 2
  MaxFrames = 2
SYMMETRY ThreadSymmetry
INVARIANTS
  TypeOK
  WriteDiscipline
  EachOnceInOrder
  FramesWhole
  FailuresReported
PROPERTIES
  WedgedIsForever
  WedgeHasCause
  ImplementsOutbox
CHECK_DEADLOCK FALSE
