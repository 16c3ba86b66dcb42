CONSTANTS
  r1 = r1
  r2 = r2
  r3 = r3
  Request = {r1, r2, r3}
  NoRequest = NoRequest
  NumKeys = 2
  NumPriorities = 2
  Scenarios <- FairScenarios
SPECIFICATION FairSpec
CHECK_DEADLOCK FALSE
PROPERTIES
  RequestsComplete
