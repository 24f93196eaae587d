\* Packets of one flow share a route vector that is rewritten under them.
CONSTANTS
  leaf1 = leaf1
  leaf2 = leaf2
  fwd = fwd
  rev = rev
  Tor = {leaf1, leaf2}
  N_CORE = 2
  Dir = {fwd, rev}
  SrcTor <- OneFlowSrc
  DstTor <- OneFlowDst
  CORE_BUFFER = 2
  CE_MAX = 2
  MAX_PKTS = 2
SPECIFICATION Spec
INVARIANTS LbtagIsCore
CHECK_DEADLOCK FALSE
