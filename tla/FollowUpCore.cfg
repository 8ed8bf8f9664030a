CONSTANTS
  MaxFollowUps = 1
  MaxHandoffs = 1
  Recipients = {x1}
  MaxAttempts = 2
  MaxClaims = 2
  MaxMessages = 1
  Dispatchers = {d1}
  Handlers = {h1}
  Alerters = {}
  Callbacks = {c1}
  Gates = {"close", "take", "handoff", "reply", "status"}
SPECIFICATION AuditSpec
INVARIANTS ProcessingHasRun CancelledNeverSent
CHECK_DEADLOCK FALSE
