SPECIFICATION Spec
CONSTANTS
  Programs = {p1, p2}
  Objects = {x1, x2}
  OptionSets <- MCOptionSets
  MaxMade = 3
SYMMETRY ProgramSymmetry
CHECK_DEADLOCK FALSE
INVARIANTS
  TypeOK
  OwnedOnce
  SegmentIsMine
  OrphanedByCrash
  LookupsSucceed
PROPERTY OrphanedIsForever
