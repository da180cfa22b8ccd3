SPECIFICATION LiveSpec
CONSTANTS
  AppThreads = {t1}
  MaxSends = 2
  MaxSessions = 4
  MaxPolls = 2
INVARIANTS
  TypeOK
  HandedToAll
  PollUndisturbed
  DeafOnlyIfReported
PROPERTIES
  AcceptedIsRun
  PollEnds
CHECK_DEADLOCK FALSE
