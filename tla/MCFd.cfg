CONSTANTS
  Fds = {f1, f2}
  NoFd = NoFd
  Descrs = {d1}
  NoDescr = NoDescr
  ReadWrite = {Read}
  Requests = {r1, r2}
  NoRequest = NoRequest
  MaxSyscalls = 1
SPECIFICATION FairSpec
CHECK_DEADLOCK FALSE
INVARIANTS SameFile CallsAccounted
PROPERTY ClosesInTheEnd
