SPECIFICATION ProcessesSpec
CONSTANTS
  Calls = {c1}
  Requests <- MCRequests
  ClosedStd <- MCClosedStd
  OwnUpTo = {3}
  IntSize = 2
  Limit = 13
  None = None
INVARIANTS
  EpermIsRaised
