CONSTANTS
  x = x
  nl = nl
  j1 = j1
  j2 = j2
  n1 = n1
  n2 = n2
  Char <- MCChar
  Newline = nl
  Name <- MCName
  Job <- MCJob
  Contents <- MCOneContents
  WriteSize = 2
  ReadSize = 2
  MaxTyped = 2
  MaxLength = 3
  MaxRevision = 3
  MaxOverlap = 2
SPECIFICATION Spec
INVARIANTS TempIsOwn CheckingEnds UnmodifiedIsShared ReadonlyRestored
PROPERTIES FileWhole
SYMMETRY MCSymmetry
