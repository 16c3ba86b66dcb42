CONSTANTS
  Node = {n1, n2, n3, n4}
  NumLists = 2
  None = None
  MaxCrashes = 2
  CrashInRecovery = FALSE
SPECIFICATION Spec
SYMMETRY Symmetry
CHECK_DEADLOCK FALSE
INVARIANTS
  ListsAreWellFormed
  DiskIsUnderstood
  CountersDriftByCrashes
PROPERTIES
  OperationsAreAtomic
