SPECIFICATION FairSpec
CONSTANTS
  None = None
  Requests = {r1, r2, r3}
  MaxSecond = 2
  MaxCrashes = 1
  Outcomes = {"raises", "returns"}
CHECK_DEADLOCK FALSE
INVARIANTS
  TypeOK
  NoJobLost
  StoreFollowsJobs
PROPERTIES
  ImplementsJobService
  JobsEnd
