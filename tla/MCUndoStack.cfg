CONSTANTS
  x = x
  y = y
  nl = nl
  Char <- MCChar
  Newline = nl
  Texts <- MCTexts
  LoadedText <- MCLoadedText
  MaxLength = 3
  MaxEdits = 3
  MaxGroups = 2
SPECIFICATION Spec
INVARIANTS GroupsNest UndoRestores RedoTakesUndoBack
