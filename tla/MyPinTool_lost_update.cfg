SPECIFICATION Spec
CONSTANTS
  Proc = {p1, p2}
  Transfer <- FewTransfers
  TextBase = 1
  TextHigh = 3
  OverlappingFini = TRUE
  CanKill = FALSE
  CanFail = FALSE
SYMMETRY Symmetry
INVARIANT NoEdgeLost
