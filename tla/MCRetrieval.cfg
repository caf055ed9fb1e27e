SPECIFICATION Spec
CONSTANTS
  Files <- AllFiles
  RetrieveSize = 2
  WriteSize = 5
CHECK_DEADLOCK FALSE
INVARIANTS ClientGetsFile NoEarlyEnd
