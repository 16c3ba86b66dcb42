CONSTANTS
  Trans = {t1, t2, t3}
  Nobody = Nobody
  NumEntries = 3
  MaxVersion = 2
  Scenarios <- MCScenarios
SPECIFICATION Spec
SYMMETRY Symmetry
CHECK_DEADLOCK FALSE
INVARIANTS
  EntryIsConsistent
  ResponsesAreRight
  WaitersAreServed
  ChecksHold
