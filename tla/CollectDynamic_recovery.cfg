SPECIFICATION FairSpec
CONSTANTS
  u1 = u1
  u2 = u2
  p1 = p1
  p2 = p2
  Url = {u1, u2}
  Pkg = {p1, p2}
  List <- TwiceList
  Name <- OneEach
  Packaged = {u1, u2}
  MaxSessions = 3
  CanCrash = TRUE
  CanFail = FALSE
  TestsReadStdin = FALSE
  TestsHang = TRUE
INVARIANTS OnlyCurrentWrapped NothingLeftBehind SuccessMeansAll EveryUrlRecorded
 
CHECK_DEADLOCK FALSE
