\* The window when fast recovery ends
CONSTANTS
  MSS_BYTES = 2
  FLOWSIZE = 11
  DUPACK_LIMIT = 3
  WORD = 256
  Modes <- MCNewReno
  PATH_CAPACITY = 4
SPECIFICATION Spec
INVARIANTS ResumesService
CHECK_DEADLOCK FALSE
