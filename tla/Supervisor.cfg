SPECIFICATION BothSpec
CONSTANTS
  Servers = {s1, s2}
  Intensity = 2
  Period = 2
  MaxTime = 3
  MaxDeaths = 4
  Keys <- MCKeys
  BucketCount = 4
  Taken = {1, 3}
  None = None
  NFOUND = NFOUND
  MaxInserts = 3
  MaxOptimized = 2
CHECK_DEADLOCK FALSE
INVARIANTS WindowExact ChildrenOK TableOK
PROPERTIES StopEnds RegularFind FindEnds
