SPECIFICATION Spec
CONSTANTS
  Shows <- MCShows
  Total = "total"
  Blanks <- MCBlanks
  Others <- MCOthers
  Names <- MCNames
  MaxFiles = 2
INVARIANTS
  RowsHaveNames
PROPERTIES
  PlainRowsAreSafe
  BlockedForGood
