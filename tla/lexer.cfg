SPECIFICATION LexSpec
CONSTANTS
  Texts <- AllTexts
  MaxInt = 98
INVARIANTS
  EveryCharacterOnce
  LongestMatch
PROPERTIES
  LexEnds
