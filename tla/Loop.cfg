SPECIFICATION Spec
CONSTANTS
  Fd = {f1, f2, f3}
  Listen = Listen
SYMMETRY Symmetry
INVARIANTS EvTypeOK PollSetMatchesClients NoneLeftBehind BeyondEndIsInert
PROPERTIES OnlyTheGone
CHECK_DEADLOCK FALSE
