CONSTANTS
  Group = {a, b}
  Handle = {h1, h2}
  Conn = {c1, c2, c3, c4}
  None = None
  NumPriorities = 2
  IgnoreLimits = {h1}
  max_sockets = 2
  max_sockets_per_group = 1
  BackupJobs = TRUE
  HasLowerPool = TRUE
  MaxGeneration = 1
  MaxTasks = 2
SPECIFICATION Spec
SYMMETRY Symmetry
INVARIANTS
  NoLostWakeup
PROPERTIES
  LimitsAreRespected
