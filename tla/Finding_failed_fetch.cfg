CONSTANTS
  w1 = w1
  w2 = w2
  c1 = c1
  c2 = c2
  Workers = {w1}
  Jobs = {1, 2}
  JobTypes <- OneTypeJobs
  Types <- MCTypes
  Refs <- OneRef
  TypeOf <- OneRefOf
  Hinted = {1}
  Contents = {c1, c2}
  NoContent = NoContent
  NoHint = NoHint
  NoItem = NoItem
  ChunkNos = {1}
  BatchSize = 1
  MaxItems = 1
  Incremental = TRUE
  MaxStamp = 2
  MaxFaults = 1
SPECIFICATION Spec
CHECK_DEADLOCK FALSE
INVARIANTS
  FailedFetchIsRetried
