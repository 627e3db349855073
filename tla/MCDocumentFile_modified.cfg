CONSTANTS
  x = x
  nl = nl
  j1 = j1
  j2 = j2
  n1 = n1
  n2 = n2
  Char <- MCChar
  Newline = nl
  Name <- MCOneName
  Job <- MCOneJob
  Contents <- MCContents
  WriteSize = 2
  ReadSize = 2
  MaxTyped = 2
  MaxLength = 3
  MaxRevision = 3
  MaxOverlap = 0
SPECIFICATION Spec
INVARIANT UnmodifiedIsText
