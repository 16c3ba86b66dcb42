CONSTANTS
  Job = {j1, j2, j3, j4, j5}
  NumPriorities = 3
  MaxTotalJobs = 3
  Limits <- MCLimits
  MaxLoops = 2
SPECIFICATION Spec
SYMMETRY Symmetry
INVARIANTS
  TypeOK
  RunningJobsAreCounted
  JobInOnePlace
  NoStartableJobQueued
  LimitsRoundTrip
PROPERTIES
  DispatchOrder
