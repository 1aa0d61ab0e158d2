SPECIFICATION LexSpec
CONSTANTS
  Texts <- MCTexts
  Word = 64
  PageSize = 7
INVARIANTS
  InBounds
  LineExact
  ValueExact
  MaximalMunch
PROPERTIES
  PeekTransparent
  ReachesEnd
