CONSTANTS
  MaxFollowUps = 1
  MaxHandoffs = 0
  Recipients = {}
  MaxAttempts = 2
  MaxClaims = 2
  MaxMessages = 2
  Dispatchers = {d1}
  Handlers = {h1, h2}
  Alerters = {}
  Callbacks = {c1}
  Gates = {"close", "hours"}
SPECIFICATION Spec
SYMMETRY HandlersAlike
INVARIANTS TypeOK AttemptsBudget AtMostOneSend SucceededWasSent SendInv
PROPERTIES FinalIsFinal
CHECK_DEADLOCK FALSE
