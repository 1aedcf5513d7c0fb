\* Two rooms, one after the other or at once, two players and an anonymous user.
SPECIFICATION SettlingSpec
CONSTANTS
  Users = {u1, u2, u3}
  Anonymous = {u3}
  RoomThreads = {r1, r2}
  MAX_ROOMS = 2
  maxPlayers = 2
  InFlight = 2
  NULL = NULL
INVARIANTS
  TypeOK
  ServedWhenCalm
  InsideIsListed
  NotOverfullAlone
PROPERTIES
  EmptyRoomCloses
CHECK_DEADLOCK FALSE
