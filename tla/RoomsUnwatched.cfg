\* handle_room.c:167: the room without players is closed.
SPECIFICATION ApartSpec
CONSTANTS
  Users = {u1, u2, u3}
  Anonymous = {u3}
  RoomThreads = {r1, r2}
  MAX_ROOMS = 2
  maxPlayers = 2
  InFlight = 2
  NULL = NULL
INVARIANTS
  EmptyRoomWatched
