SPECIFICATION LiveSpec
CONSTANTS
  AppThreads = {t1, t2, t3}
  MaxSends = 1
  MaxFrames = 0
PROPERTIES
  SendResolves
CHECK_DEADLOCK FALSE
