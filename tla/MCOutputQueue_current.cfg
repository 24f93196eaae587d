\* a new queue may find anything in its memory
CONSTANTS
  Flow = {1, 2, 3}
  Size = {1, 3}
  Key = {0, 1, 2, 3}
  MAXSIZE = 7
  ECN_TH = 3
  MAX_ARRIVALS = 6
  Traffic <- MCTraffic
  NULL = NULL
  GARBAGE = GARBAGE
  UNINITIALISED = TRUE
  N_HASH = 2
  N_BUCKET = 2
  AFQ_QUEUES = 3
  BYTES_PER_ROUND = 2
  ECN_MARK_ROUND = 2
  SFQ_QUEUES = 2
  QUANTUM = 2
  RANDOM_DROP_TH = 3
SPECIFICATION Spec
INVARIANT CurrentIsServiced
CHECK_DEADLOCK FALSE
