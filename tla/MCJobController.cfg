CONSTANTS
  Scenarios <- MCScenarios
SPECIFICATION FairSpec
CHECK_DEADLOCK FALSE
INVARIANTS
  JobsAreConsistent
  AnsweredOnce
  ReportsAreRight
PROPERTIES
  RequestsEnd
