SPECIFICATION FairSpec
CONSTANTS
  Fd = {f1, f2}
  Listen = Listen
PROPERTIES InputIsRead StopsWhenTold
CHECK_DEADLOCK FALSE
