CONSTANTS
  Group = {a, b, c}
  Handle = {h1, h2}
  Conn = {c1, c2}
  None = None
  NumPriorities = 1
  IgnoreLimits = {}
  max_sockets = 1
  max_sockets_per_group = 1
  BackupJobs = FALSE
  HasLowerPool = FALSE
  MaxGeneration = 0
  MaxTasks = 1
SPECIFICATION FairSpec
PROPERTIES
  CallsReturn
  RequestsAreServed
