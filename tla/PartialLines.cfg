SPECIFICATION Spec
CONSTANTS
  Letter = {x}
  NUL = NUL
  CR = CR
  LF = LF
  BufferSize = 4
  MaxStream = 4
INVARIANTS PartialMessagesKept
CHECK_DEADLOCK FALSE
