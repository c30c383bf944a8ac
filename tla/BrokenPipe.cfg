SPECIFICATION Spec
CONSTANTS
  Fd = {f1, f2}
  Listen = Listen
INVARIANTS WriteErrorDetected
CHECK_DEADLOCK FALSE
