SPECIFICATION Spec
CONSTANTS
  u1 = u1
  u2 = u2
  Url = {u1, u2}
  List <- Two
  Exe <- Names
  BatchSize = 2
  MaxJobs = 2
  RateLimit = 2
  MaxRetries = 2
  MaxSessions = 2
  CanCrash = TRUE
  CanLimit = FALSE
  CanHang = FALSE
INVARIANTS ClonedMeansBuilt
CHECK_DEADLOCK FALSE
