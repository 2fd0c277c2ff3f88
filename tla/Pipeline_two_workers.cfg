CONSTANTS
  w1 = w1
  w2 = w2
  c1 = c1
  c2 = c2
  Workers = {w1, w2}
  Jobs = {1, 2}
  JobTypes <- OneTypeJobs
  Types <- MCTypes
  Refs <- OneRef
  TypeOf <- OneRefOf
  Hinted = {1}
  Contents = {c1, c2}
  NoContent = NoContent
  NoHint = NoHint
  NoItem = NoItem
  ChunkNos = {1, 2}
  BatchSize = 1
  MaxItems = 2
  Incremental = TRUE
  MaxStamp = 3
  MaxFaults = 2
SPECIFICATION Spec
SYMMETRY Symmetry
CHECK_DEADLOCK FALSE
INVARIANTS
  TypeOK
  
  BlobsBeforeRows
  
  JobExclusive
  MarkedItemsIndexed
PROPERTIES
  TerminalIsFinal
  Mirrored
