CONSTANTS
  MaxFollowUps = 1
  MaxHandoffs = 0
  Recipients = {}
  MaxAttempts = 2
  MaxClaims = 2
  MaxMessages = 1
  Dispatchers = {d1}
  Handlers = {h1}
  Alerters = {}
  Callbacks = {}
  Gates = {"close"}
SPECIFICATION AuditSpec
PROPERTIES CancellationIsComplete
CHECK_DEADLOCK FALSE
