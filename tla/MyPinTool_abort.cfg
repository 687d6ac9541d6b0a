SPECIFICATION Spec
CONSTANTS
  Proc = {p1, p2}
  Transfer <- FewTransfers
  TextBase = 1
  TextHigh = 3
  OverlappingFini = FALSE
  CanKill = TRUE
  CanFail = FALSE
SYMMETRY Symmetry
INVARIANT NoAbort
