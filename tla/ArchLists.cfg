SPECIFICATION FairSpec
CONSTANTS
  s1 = s1
  s2 = s2
  Session = {s1, s2}
  Package = {1, 2, 3}
  BaseOf <- MCBaseOf
  PageSize = 2
  Servers <- MCServers
  Selection <- MCSelection
  MaxChanges = 1
INVARIANTS TypeOK UrlsComplete ListsMatch EndsClean
PROPERTY SessionEnds
CHECK_DEADLOCK FALSE
