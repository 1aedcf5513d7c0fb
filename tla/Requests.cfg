\* One connection, requests whole, in parts or together.
SPECIFICATION Spec
CONSTANTS
  MaxRequests = 3
  BufferSize = 4
INVARIANTS
  TypeOK
  OneEachWhenWhole
  DiesOnlyOfTwo
PROPERTIES
  AnswerComes
  HandlerEnds
CHECK_DEADLOCK FALSE
