CONSTANTS
  Chars <- MCChars
  Infinity <- MCInfinity
  Newline <- MCNewline
  Patterns <- MCPatterns
  Searches <- MCSearches
SPECIFICATION FairSpec
INVARIANTS FindsFirstMatch
PROPERTY MatchEnds
CHECK_DEADLOCK FALSE
