CONSTANTS
  Handlers = {h1, h2}
  Kinds = {"text", "/start", "/new", "/debug", "look", "pick", "cancel"}
  Outcomes = {"answer", "low", "clarify", "raise"}
  MaxDepth = 2
  Options = 1
  KnownUser = FALSE
  Expiry = TRUE
  MaxUpdates = 7
  MaxOverlapping = 3
  MaxFaults = 1
SPECIFICATION Spec
CHECK_DEADLOCK FALSE
INVARIANTS
  TypeOK
  ProcessingExclusive
  ConversationNeverReturns
  DepthLimited
  LockIsReleased
