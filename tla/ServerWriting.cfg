SPECIFICATION LiveSpec
CONSTANTS
  AppThreads = {t1}
  IOThreads = {h1, h2}
  MaxSends = 2
  MaxFrames = 1
INVARIANTS
  TypeOK
  NoStrandedMessage
  OrderlyUnlessRaced
  FailuresReported
PROPERTIES
  SendTaken
CHECK_DEADLOCK FALSE
