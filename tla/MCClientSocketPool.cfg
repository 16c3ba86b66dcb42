CONSTANTS
  Group = {a, b}
  Handle = {h1, h2, h3}
  Conn = {c1, c2, c3}
  None = None
  NumPriorities = 2
  IgnoreLimits = {}
  max_sockets = 2
  max_sockets_per_group = 2
  BackupJobs = TRUE
  HasLowerPool = FALSE
  MaxGeneration = 1
  MaxTasks = 1
SPECIFICATION Spec
SYMMETRY Symmetry
INVARIANTS
  TypeOK
  BooksAreExact
  SocketInOnePlace
  NoLostWakeup
  GroupsAreTracked
  BackupTimerHasJob
  OnlyCurrentGeneration
PROPERTIES
  LimitsAreRespected
