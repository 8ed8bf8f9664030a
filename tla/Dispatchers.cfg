CONSTANTS
  MaxFollowUps = 1
  MaxHandoffs = 0
  Recipients = {}
  MaxAttempts = 1
  MaxClaims = 2
  MaxMessages = 1
  Dispatchers = {d1, d2}
  Handlers = {h1}
  Alerters = {}
  Callbacks = {c1}
  Gates = {"close"}
SPECIFICATION FairSpec
PROPERTIES OutcomesAgree Settles
CHECK_DEADLOCK FALSE
