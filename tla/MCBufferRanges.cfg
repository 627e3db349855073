CONSTANTS
  x = x
  nl = nl
  window = window
  script = script
  Char <- MCChar
  Newline = nl
  Texts <- MCTexts
  Holder <- MCHolder
  MaxLength = 4
SPECIFICATION RangesSpec
INVARIANTS CacheComplete AnswersRight RangesInside
PROPERTIES RangesKeepText SetTextCovers
