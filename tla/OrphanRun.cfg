CONSTANTS
  MaxFollowUps = 1
  MaxHandoffs = 0
  Recipients = {}
  MaxAttempts = 2
  MaxClaims = 2
  MaxMessages = 1
  Dispatchers = {d1}
  Handlers = {h1}
  Alerters = {}
  Callbacks = {c1}
  Gates = {"close"}
SPECIFICATION AuditSpec
INVARIANTS NoOrphanRun
CHECK_DEADLOCK FALSE
