\* the four ways to drive the generator
CONSTANTS
  START = 0
  STOP = 5
  END_TIME = 6
  TRACE <- MCTrace
  MAX_FLOWS = 3
  Gap = {1, 3}
  Wait = {0, 1}
  Duration = {1, 3}
SPECIFICATION Spec
INVARIANTS SlotsKept TraceReplayed
CHECK_DEADLOCK FALSE
