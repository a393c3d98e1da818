CONSTANTS
  UserJobs = {j1, j2}
  Priors = {p1, p2}
  MaxConcurrent = 2
SPECIFICATION FairSpec
CHECK_DEADLOCK FALSE
INVARIANT ThrottleInvariant
PROPERTIES OvertakesOnlyTakenJobs EveryJobAnswered
