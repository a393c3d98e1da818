SPECIFICATION Spec
CONSTANTS
  Byte = 10
  Max_wosize = 1000
  Programs <- MCPrograms
  Cap = 13
INVARIANT ReadsWhatWasWritten
PROPERTY AllRead
