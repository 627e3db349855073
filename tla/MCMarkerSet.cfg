CONSTANTS
  keyword = keyword
  comment = comment
  NoType = NoType
  Type <- MCType
  MaxLength = 5
SPECIFICATION Spec
INVARIANTS MarkersApart
PROPERTIES ImplementsColors ChangesNotified
SYMMETRY Symmetry
