CONSTANTS
  Parts = {"chunks"}
  DefaultTopK = 1
  HardCap = 3
  NeighborWindow = 1
  BaseChunks = 2
  MaxDocs = 2
  ExtraTotal = 2
  ExtraPerDoc = 1
  MinGain = 10
  Margin = 3
  Corpora <- MCCorpora
  Late = {2}
  Configs <- MCConfigs
  Queries <- MCQueries
  Tenant = "t"
  LexLimit = 2
  VecLimit = 3
  Threshold = 300
  NumCtx = 40
  PromptWords = 5
  HeadWords = 2
  TraceWindow = 3
  MaxRequests = 3
  Documents <- MCDocuments
  Target = 3
  Most = 4
  Least = 2
  Overlap = 1
  Users = {1, 2}
  Threads = {t1, t2}
  Window = 3
  BurstWindow = 1
  UserLimit = 2
  BurstLimit = 1
  MaxUsers = 1
  MaxTime = 4
  MaxCalls = 5
SPECIFICATION MCSpec
SYMMETRY Symmetry
CHECK_DEADLOCK FALSE
INVARIANTS
  SectionsApart
