\* both end hosts, up to four losses or delays
CONSTANTS
  N_PIPES = 2
  Delay <- MCDelay
  END_TIME = 0
  MSS_BYTES = 2
  SERVICE = 12
  QUEUE_SIZE = 4
  Extra = {30}
  MAX_DISTURBANCES = 4
  FLOWSIZE = 13
  INIT_RTO = 200
  MIN_RTO = 60
  FOREVER = 1000000
  WORD = 1048576
  INIT_BDP = 4
  MIN_GAP = 12
  Gaps = {12, 20}
  T_LOW = 40
  T_HIGH = 60
  Slow = {4, 7}
  EndHosts = {"TIMELY", "PKTPAIR"}
SPECIFICATION Spec
INVARIANTS TypeOK OneChain TimerRunning QuietPath PairIsService
PROPERTIES ImplementsReliableFlow TimelyCompletes
CHECK_DEADLOCK FALSE
