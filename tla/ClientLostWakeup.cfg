SPECIFICATION Spec
CONSTANTS
  AppThreads = {t1}
  MaxSends = 2
  MaxFrames = 0
INVARIANT NoLostWakeup
CHECK_DEADLOCK FALSE
