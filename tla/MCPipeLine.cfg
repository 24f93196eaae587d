\* the simulation may end with packets in flight
CONSTANTS
  N_PIPES = 3
  Delay <- MCDelay
  Gap = {0, 1, 2, 4}
  MAX_PKTS = 5
  END_TIME = 11
SPECIFICATION Spec
INVARIANTS OneEventPerPipe ExactDelay
PROPERTY AllDelivered
CHECK_DEADLOCK FALSE
