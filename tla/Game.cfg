\* Three players who join and leave in the middle of pauses and of two rounds.
SPECIFICATION Spec
CONSTANTS
  Users = {u1, u2, u3}
  Words = {2}
  Threads = {t1, t2}
  Main = Main
  Stray = {0, 1}
  MaxPlayers = 3
  MaxRounds = 2
  SLEEP = 2
  ALARM = 5
  NULL = NULL
  Off = Off
INVARIANTS
  TypeOK
  NotStalled
  RoundWillEnd
  RoundHasWord
  AlarmFindsMainIdle
  
  RewardedOnce
SYMMETRY Symmetry
