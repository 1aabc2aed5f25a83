SPECIFICATION PredicatesSpec
CONSTANTS
  MaxOperands = 4
  Avoided <- WrongPair
  Column = {c}
  Host = {h}
  Family = {exact, approx}
  Approximate = {approx}
  Infinite = {2}
  Value = {1, 2}
  Null = NULL
  MaxRangeOperands = 3
  Chars <- MCChars
  Code <- MCCode
  Escapes <- MCEscapes
  MaxPattern = 4
  MaxText = 3
INVARIANTS ResultSound RowsKept TypeOK HintsImplied SameRows SameTexts
PROPERTY MergedExactly
CHECK_DEADLOCK FALSE
