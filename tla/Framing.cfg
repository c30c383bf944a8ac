SPECIFICATION Spec
CONSTANTS
  Letter = {x, y}
  NUL = NUL
  CR = CR
  LF = LF
  BufferSize = 4
  MaxStream = 6
SYMMETRY Letters
INVARIANTS FrTypeOK WholeLines
PROPERTIES TextInOrder
CHECK_DEADLOCK FALSE
