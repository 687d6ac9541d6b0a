SPECIFICATION Spec
CONSTANTS
  u1 = u1
  u2 = u2
  p1 = p1
  p2 = p2
  Url = {u1, u2}
  Pkg = {p1, p2}
  List <- TwiceList
  Name <- OneEach
  Packaged = {u1}
  MaxSessions = 2
  CanCrash = TRUE
  CanFail = TRUE
  TestsReadStdin = TRUE
  TestsHang = TRUE
PROPERTIES ProcessedMeansRan ProcessedIsFinal
CHECK_DEADLOCK FALSE
