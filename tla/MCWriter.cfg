SPECIFICATION SaveSpec
CHECK_DEADLOCK FALSE
CONSTANTS
  Settings <- MCSettings
  BufLen = 2
  Sizes = {1, 3}
  Values = {2}
  Iovecs <- MCIovecs
  MaxBytes = 4
  MaxIovecs = 2
  Requests = {r1}
  Closer = Closer
  Clients = {"save", "other"}
  SaveLength = 3
INVARIANTS
  WriterInvariant
  StreamInOrder
  ReplacesWithWhole
PROPERTY
  AnswersCome
