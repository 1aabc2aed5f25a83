SPECIFICATION Spec
CONSTANTS
  MaxOperands = 4
  Avoided <- NoPair
INVARIANT RowsKept
CHECK_DEADLOCK FALSE
