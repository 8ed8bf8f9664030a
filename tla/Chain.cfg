CONSTANTS
  MaxFollowUps = 2
  MaxHandoffs = 0
  Recipients = {}
  MaxAttempts = 1
  MaxClaims = 3
  MaxMessages = 2
  Dispatchers = {d1}
  Handlers = {h1}
  Alerters = {}
  Callbacks = {}
  Gates = {"close", "reply"}
SPECIFICATION Spec
INVARIANTS OneLiveFollowUp
PROPERTIES ImplementsOnce
CHECK_DEADLOCK FALSE
