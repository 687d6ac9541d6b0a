SPECIFICATION Spec
CONSTANTS
  Proc = {p1, p2, p3}
  Transfer <- FewTransfers
  TextBase = 1
  TextHigh = 3
  OverlappingFini = FALSE
  CanKill = FALSE
  CanFail = FALSE
INVARIANTS NoEdgeLost NoAbort TornOnlyDuringSave
PROPERTY ImplementsGroundTruth
