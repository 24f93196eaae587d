\* both testbeds, two servers per switch
CONSTANTS
  N_SUBTREE = 2
  N_TOR = 2
  N_AGG = 2
  N_UPLINK = 2
  N_LEAF = 3
  N_CORE = 2
  N_SERVER = 2
  MAX_PACKETS = 2
SPECIFICATION Spec
INVARIANTS RoutesConnect AcksReturn PacketsOnCourse LeavesInTurn
CHECK_DEADLOCK FALSE
