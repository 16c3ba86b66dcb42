CONSTANTS
  r1 = r1
  r2 = r2
  r3 = r3
  Request = {r1, r2, r3}
  NoRequest = NoRequest
  NumKeys = 3
  NumPriorities = 2
  Scenarios <- MCScenarios
SPECIFICATION Spec
SYMMETRY Symmetry
CHECK_DEADLOCK FALSE
INVARIANTS
  DispatcherMatchesJobs
  JobsMatchRequests
  NothingIsStale
  NoDanglingPointers
