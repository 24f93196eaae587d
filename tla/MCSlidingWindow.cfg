\* One flow through a ring that wraps, with packets given up.
CONSTANTS
  Flow = {f1}
  NUM_PING = 3
  BUF_SIZE = 2
  SAME_ACK_LIMIT = 2
  RX_WIN_SPAN = 65536
  FRAME_GAP = 1
  FOREIGN_FRAMES = TRUE
  MAX_EXPCD = 5
SPECIFICATION FairSpec
INVARIANTS TypeOK ClientWindow RingExact AckedIsAccountedFor BufferSpan
PROPERTIES GivesUpOnlyMissing ClientFinishes
CHECK_DEADLOCK FALSE
