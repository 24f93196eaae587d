\* DCTCP on a FIFO path, New Reno on a path that reorders
CONSTANTS
  MSS_BYTES = 2
  FLOWSIZE = 13
  DUPACK_LIMIT = 3
  WORD = 256
  Modes <- MCModes
  PATH_CAPACITY = 2
SPECIFICATION FairSpec
INVARIANTS TypeOK TimerRunning WindowInBounds SinkList
PROPERTIES ImplementsReliableFlow FlowCompletes
CHECK_DEADLOCK FALSE
