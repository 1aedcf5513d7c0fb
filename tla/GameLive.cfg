\* Rounds end and choosers are named; no symmetry.
SPECIFICATION Spec
CONSTANTS
  Users = {u1, u2}
  Words = {1}
  Threads = {t1, t2}
  Main = Main
  Stray = {0}
  MaxPlayers = 2
  MaxRounds = 1
  SLEEP = 2
  ALARM = 5
  NULL = NULL
  Off = Off
PROPERTIES
  GamesEnd
  ChooserNamed
