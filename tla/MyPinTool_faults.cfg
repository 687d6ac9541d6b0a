SPECIFICATION FairSpec
CONSTANTS
  Proc = {p1, p2}
  Transfer <- BoundaryTransfers
  TextBase = 1
  TextHigh = 3
  OverlappingFini = TRUE
  CanKill = TRUE
  CanFail = TRUE
INVARIANTS FileSound MemoryComplete
PROPERTIES WriteUnderLock FiniEnds
