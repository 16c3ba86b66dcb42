CONSTANTS
  Node = {n1, n2}
  NumLists = 2
  None = None
  MaxCrashes = 2
  CrashInRecovery = TRUE
SPECIFICATION Spec
SYMMETRY Symmetry
CHECK_DEADLOCK FALSE
INVARIANTS
  ListsAreWellFormed
