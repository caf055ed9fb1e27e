SPECIFICATION Spec
CONSTANTS
  MAX_ARG_LENGTH = 3
  MAX_MSG_SIZE = 8
  MaxLine = 5
  Lines = 2
CHECK_DEADLOCK FALSE
INVARIANTS TypeOK ReadsLinesRight CrLfEndsLine ArgumentFits
