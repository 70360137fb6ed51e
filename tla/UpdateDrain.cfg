SPECIFICATION FairSpec
CONSTANTS
    Outside = {cli}
    Remote = remote
    MaxJobs = 2
    MaxFaults = 1
INVARIANTS TypeOK SafeMeansIdle
  
CHECK_DEADLOCK FALSE
