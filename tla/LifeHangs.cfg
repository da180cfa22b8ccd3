SPECIFICATION LiveSpec
CONSTANTS
  IOThreads = {h1, h2, h3}
  MaxPolls = 1
CHECK_DEADLOCK FALSE
PROPERTY CloseAlwaysEnds
