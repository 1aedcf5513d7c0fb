\* handle_client.c:36: "Remove any references to the client from any rooms."
SPECIFICATION OneByOneSpec
CONSTANTS
  Users = {u1, u2, u3}
  MAX_PLAYERS = 3
  NULL = NULL
  Unset = Unset
INVARIANTS
  DepartedNotPlayer
