SPECIFICATION Spec
CONSTANTS
  Senders = {t1}
  IOThreads = {h1, h2}
  MaxSends = 2
SYMMETRY Symmetry
CHECK_DEADLOCK FALSE
INVARIANTS
  EndToEnd
  NoSilentGap
  FramesOnce
