SPECIFICATION Spec
CONSTANTS
  Fd = {f1, f2}
  Listen = Listen
INVARIANTS QuitOnlyDisconnects
CHECK_DEADLOCK FALSE
