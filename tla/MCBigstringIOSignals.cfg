SPECIFICATION Spec
CONSTANTS
  Total = 5
  PipeSize = 3
  BufSize = 2
  Window = 6
  ReadAsks <- MCReadAsks
  WriteAsks <- MCWriteAsks
  Faults = 0
  Tries = 2
  Signals = TRUE
INVARIANTS
  DeliveredInOrder
