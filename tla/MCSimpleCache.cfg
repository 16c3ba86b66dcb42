CONSTANTS
  NumEntries = 3
  Scenarios <- MCScenarios
SPECIFICATION FairSpec
CHECK_DEADLOCK FALSE
INVARIANTS
  EntriesAreConsistent
  DoomsAreTracked
  FilesAreSafe
PROPERTIES
  OperationsRun
