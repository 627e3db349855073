CONSTANTS
  a = a
  b = b
  Char <- MCChar
  Uninit = Uninit
  MIN_GAP_LENGTH = 1
  EXTENSION_LENGTH = 2
  MaxInsert = 2
  MaxEnd = 5
SPECIFICATION Spec
INVARIANTS TypeOK GetTextReads
PROPERTY ImplementsTextBuffer
