CONSTANTS
  Handlers = {h1}
  Kinds = {"text", "/start", "/new", "/debug", "look", "pick", "cancel"}
  Outcomes = {"answer", "low", "clarify", "raise"}
  MaxDepth = 1
  Options = 1
  KnownUser = TRUE
  Expiry = FALSE
  MaxUpdates = 3
  MaxOverlapping = 3
  MaxFaults = 0
SPECIFICATION Spec
CHECK_DEADLOCK FALSE
INVARIANTS
  OfferedOptionAccepted
