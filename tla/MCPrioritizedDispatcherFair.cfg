CONSTANTS
  Job = {j1, j2, j3}
  NumPriorities = 2
  MaxTotalJobs = 2
  Limits <- MCLimits
  MaxLoops = 1
SPECIFICATION FairSpec
PROPERTIES
  HighestIsServed
