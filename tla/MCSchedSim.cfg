CONSTANTS
  Jobs <- MCJobs
  MaxJobs = 3
  quantum = 2
  MaxTime = 16
SPECIFICATION FairSpec
INVARIANTS
  SchedInv
  SjfIsOptimal
  RRIsFair
PROPERTIES
  EndsIfKeptBusy
CHECK_DEADLOCK FALSE
