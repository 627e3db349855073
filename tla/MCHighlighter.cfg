CONSTANTS
  at = at
  quote = quote
  a = a
  nl = nl
  Char <- MCChar
  LF = nl
  State <- MCState
  Move <- MCMove
  Acceptable <- MCAcceptable
  SyntaxOf <- MCSyntaxOf
  Increment = 2
  MaxLength = 4
  MaxEdits = 2
SPECIFICATION Spec
INVARIANTS SummaryDescribesEdits RangesRight
PROPERTY ColoringEnds
CHECK_DEADLOCK FALSE
