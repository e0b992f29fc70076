CONSTANTS
  r1 = r1
  r2 = r2
  Reader = {r1, r2}
  None = None
  Failed = Failed
  MaxQueue = 2
  MaxBatch = 2
  MaxHead = 3
  MaxStarts = 2
SPECIFICATION FairSpec
INVARIANTS
  EveryMutationIsAccountedFor
PROPERTIES
  KeepsFeed
  RetriedWithoutRequests
CHECK_DEADLOCK FALSE
