SPECIFICATION Spec
CONSTANTS
  AppThreads = {t1}
  IOThreads = {h1, h2}
  MaxSends = 2
  MaxFrames = 0
INVARIANT NothingOverwritten
CHECK_DEADLOCK FALSE
