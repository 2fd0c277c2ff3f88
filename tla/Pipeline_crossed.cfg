CONSTANTS
  w1 = w1
  w2 = w2
  c1 = c1
  c2 = c2
  Workers = {w1, w2}
  Jobs = {1, 2}
  JobTypes <- CrossedJobs
  Types <- MCTypes
  Refs <- ThreeRefs
  TypeOf <- ThreeOf
  Hinted = {1}
  Contents = {c1}
  NoContent = NoContent
  NoHint = NoHint
  NoItem = NoItem
  ChunkNos = {1}
  BatchSize = 1
  MaxItems = 1
  Incremental = TRUE
  MaxStamp = 1
  MaxFaults = 1
SPECIFICATION FairSpec
CHECK_DEADLOCK FALSE
INVARIANTS
  
  MarkedItemsIndexed
PROPERTIES
  JobsEnd
  DoneIsRecorded
