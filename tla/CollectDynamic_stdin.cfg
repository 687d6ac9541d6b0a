SPECIFICATION Spec
CONSTANTS
  u1 = u1
  u2 = u2
  p1 = p1
  p2 = p2
  Url = {u1, u2}
  Pkg = {p1, p2}
  List <- PairList
  Name <- OneEach
  Packaged = {u1, u2}
  MaxSessions = 1
  CanCrash = FALSE
  CanFail = FALSE
  TestsReadStdin = TRUE
  TestsHang = FALSE
INVARIANTS SuccessMeansAll
CHECK_DEADLOCK FALSE
