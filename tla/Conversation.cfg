CONSTANTS
  Configs <- AllConfigs
  SummaryThreshold = 3
  MaxDepth = 2
  MaxScan = 3
  Threshold = 300
  Confidences = {200, 600, 1120}
SPECIFICATION Spec
CHECK_DEADLOCK FALSE
INVARIANTS
  TypeOK
  AnswersFollowQuestions
  RepliesAreStored
  ConflictsNeedOverlap
  
  
  SummaryKeepsUp
