SPECIFICATION FairSpec
CONSTANTS
  u1 = u1
  u2 = u2
  Url = {u1, u2}
  List <- Two
  Exe <- Names
  BatchSize = 2
  MaxJobs = 2
  RateLimit = 1
  MaxRetries = 2
  MaxSessions = 2
  CanCrash = TRUE
  CanLimit = TRUE
  CanHang = TRUE
INVARIANTS TypeOK OnlyCrashHides AllRecorded RateKept
  ElfMapExact
PROPERTIES SessionEnds
CHECK_DEADLOCK FALSE
