CONSTANTS
  x = x
  nl = nl
  keyword = keyword
  NoType = NoType
  Type <- MCType
  Char <- MCChar
  Newline = nl
  Texts <- MCTexts
  Sizes <- MCSizes
  Height = 4
  MaxLength = 3
SPECIFICATION LayoutSpec
INVARIANTS RowsShowText ViewOwned ViewUnbroken CaretShownInText
