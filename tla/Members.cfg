\* Three users, two seats, at most two datagrams on their way at once.
SPECIFICATION SettlingSpec
CONSTANTS
  Users = {u1, u2, u3}
  MAX_PLAYERS = 2
  NULL = NULL
  Unset = Unset
SYMMETRY Symmetry
VIEW View
CONSTRAINT FewOnTheirWay
INVARIANTS
  TypeOK
  RecordsSoundAlone
  PlayersAreInside
PROPERTIES
  ImplementsSet
CHECK_DEADLOCK FALSE
