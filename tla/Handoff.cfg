CONSTANTS
  MaxFollowUps = 0
  MaxHandoffs = 1
  Recipients = {x1, x2}
  MaxAttempts = 2
  MaxClaims = 2
  MaxMessages = 0
  Dispatchers = {d1}
  Handlers = {}
  Alerters = {a1, a2}
  Callbacks = {c1}
  Gates = {"close", "handoff"}
SPECIFICATION Spec
INVARIANTS AlertOnce SucceededAlertedAll
PROPERTIES NoRequeueWhileAlerting
CHECK_DEADLOCK FALSE
