\* Words of different letters, of repeated ones, and around 15 letters.
SPECIFICATION Spec
CONSTANTS
  Words <- MCWords
  Bytes <- MCBytes
  Strays <- MCStrays
  MaxStrays = 2
  MaxRounds = 2
  SIZE_MAX = 4095
  INT_MAX = 127
  NULL = NULL
PROPERTIES
  ScoreAsDocumented
CHECK_DEADLOCK FALSE
