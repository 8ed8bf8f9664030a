CONSTANTS
  MaxFollowUps = 1
  MaxHandoffs = 0
  Recipients = {}
  MaxAttempts = 2
  MaxClaims = 2
  MaxMessages = 2
  Dispatchers = {d1}
  Handlers = {h1}
  Alerters = {}
  Callbacks = {}
  Gates = {"close", "hours"}
SPECIFICATION AuditSpec
INVARIANTS CancelledNeverSent
CHECK_DEADLOCK FALSE
