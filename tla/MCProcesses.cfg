SPECIFICATION ProcessesSpec
CONSTANTS
  Calls = {c1, c2}
  Requests <- MCRequests
  ClosedStd <- MCClosedStd
  OwnUpTo = {3, 8, 10, 11}
  IntSize = 2
  Limit = 13
  None = None
INVARIANTS
  ProgramsGetTheirFiles
  FailuresAreTold
  NothingLeaks
PROPERTIES
  SpawnReturns
