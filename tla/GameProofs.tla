----------------------------- MODULE GameProofs -----------------------------
(* Theorems about Game, for every number of users, threads and ticks. *)
EXTENDS Game, FiniteSetTheorems, TLAPS

USE DEF Enough, SetAlarm

Labels == {"idle", "joined", "starting", "created", "revealing", "finishing",
           "scored", "cleared"}

-----------------------------------------------------------------------------
(* The helpers of the actions, each with what it leaves of the types.       *)

LEMMA SleepType ==
  ASSUME TypeOK, NEW p \in Procs, NEW l \in Labels, Sleep(p, l)
  PROVE  at' \in [Procs -> Labels] /\ left' \in [Procs -> Nat]
  BY GameAssumption DEF Sleep, TypeOK, Labels

LEMMA ReturnType ==
  ASSUME TypeOK, NEW p \in Procs, Return(p)
  PROVE  /\ at' \in [Procs -> Labels] /\ left' \in [Procs -> Nat]
         /\ who' \in [Procs -> Users \cup {NULL}]
         /\ freed' \in SUBSET Threads
         /\ fault' \in {"none", "null", "free"}
  BY DEF Return, TypeOK, Labels

LEMMA StartGameType ==
  ASSUME TypeOK, NEW p \in Procs, NEW n \in Nat, NEW b \in BOOLEAN, StartGame(p, b, n)
  PROVE  /\ at' \in [Procs -> Labels] /\ left' \in [Procs -> Nat]
         /\ who' \in [Procs -> Users \cup {NULL}]
         /\ freed' \in SUBSET Threads
         /\ fault' \in {"none", "null", "free"}
         /\ disturbed' \in BOOLEAN
<1>1. CASE ~b /\ n > 1
  <2>1. at' \in [Procs -> Labels] /\ left' \in [Procs -> Nat]
    BY <1>1, SleepType DEF StartGame, Labels
  <2>2. /\ who' = [who EXCEPT ![p] = NULL]
        /\ UNCHANGED <<freed, fault>>
        /\ disturbed' = \/ disturbed \/ alarm \notin {Off, 0}
                        \/ (Starting \cup Scored \cup Cleared) \ {p} # {}
    BY <1>1 DEF StartGame
  <2>3. disturbed' \in BOOLEAN
    BY <2>2, Zenon
  <2> QED BY <2>1, <2>2, <2>3 DEF TypeOK
<1>2. CASE b \/ n <= 1
  <2>1. ~(~b /\ n > 1)
    BY <1>2
  <2>2. Return(p) /\ disturbed' = disturbed
    BY <2>1, Zenon DEF StartGame
  <2> QED BY <2>2, ReturnType DEF TypeOK
<1> QED BY <1>1, <1>2

LEMMA CallFinishGameType ==
  ASSUME TypeOK, NEW p \in Procs, NEW u \in Users \cup {NULL}, CallFinishGame(p, u)
  PROVE  /\ at' \in [Procs -> Labels] /\ left' \in [Procs -> Nat]
         /\ who' \in [Procs -> Users \cup {NULL}]
         /\ freed' \in SUBSET Threads
         /\ fault' \in {"none", "null", "free"}
         /\ disturbed' \in BOOLEAN
<1>1. CASE inGame
  <2>1. disturbed' \in BOOLEAN
    BY <1>1 DEF CallFinishGame
  <2> QED BY <1>1, <2>1 DEF CallFinishGame, TypeOK, Labels
<1>2. CASE ~inGame
  BY <1>2, ReturnType DEF CallFinishGame, TypeOK
<1> QED BY <1>1, <1>2

(* The number of players, and what a JOINED and a LEFT make of it.          *)
LEMMA NumberIsNat == ASSUME TypeOK PROVE numberOfPlayers \in Nat
  BY FS_CardinalityType DEF TypeOK, numberOfPlayers

LEMMA PlayersJoin ==
  ASSUME TypeOK, NEW u, u \notin players, players' = players \cup {u}
  PROVE  IsFiniteSet(players') /\ numberOfPlayers' = numberOfPlayers + 1
  BY FS_AddElement DEF TypeOK, numberOfPlayers

LEMMA PlayersLeave ==
  ASSUME TypeOK, NEW u \in players, players' = players \ {u}
  PROVE  IsFiniteSet(players') /\ numberOfPlayers' = numberOfPlayers - 1
  BY FS_RemoveElement DEF TypeOK, numberOfPlayers

LEMMA PlayersOpened ==
  ASSUME NEW u, players = Opened(u)
  PROVE  IsFiniteSet(players) /\ numberOfPlayers = 1
  BY FS_Singleton DEF Opened, numberOfPlayers

LEMMA PlayersReopened ==
  ASSUME NEW u, players' = Opened(u)
  PROVE  IsFiniteSet(players') /\ numberOfPlayers' = 1
  BY FS_Singleton DEF Opened, numberOfPlayers

-----------------------------------------------------------------------------
(* Every step of Game keeps the types.                                      *)
LEMMA TypeStep == ASSUME TypeOK, [Next]_vars PROVE TypeOK'
<1> USE GameAssumption
<1> USE DEF room, revealVars, historyVars
<1>0. /\ at \in [Procs -> Labels]
      /\ Idle \subseteq Threads
      /\ Threads \subseteq Procs
      /\ Main \in Procs
      /\ numberOfPlayers \in Nat
      /\ inGame \in BOOLEAN
  BY NumberIsNat DEF TypeOK, Labels, Idle, AtLabel, Procs
<1>1. ASSUME NEW t \in Idle, NEW u \in Users, Joined(t, u) PROVE TypeOK'
  <2>1. players' \in SUBSET Users /\ IsFiniteSet(players')
    BY <1>1, PlayersJoin DEF Joined, TypeOK
  <2>2. crowded' \in BOOLEAN
    BY <1>1, Zenon DEF Joined
  <2>3. at' \in [Procs -> Labels]
    BY <1>0, <1>1 DEF Joined, Labels
  <2> QED BY <1>1, <2>1, <2>2, <2>3 DEF Joined, TypeOK, Labels
<1>2. ASSUME NEW t \in Idle, NEW u \in Users, Guessed(t, u) PROVE TypeOK'
  BY <1>0, <1>2, CallFinishGameType DEF Guessed, TypeOK, Labels
<1>3. ASSUME NEW u \in Users, Left(u) PROVE TypeOK'
  <2>1. players' \in SUBSET Users /\ IsFiniteSet(players')
    BY <1>3, PlayersLeave DEF Left, TypeOK
  <2>2. disturbed' \in BOOLEAN
    BY <1>3, Zenon DEF Left
  <2> QED BY <1>3, <2>1, <2>2 DEF Left, TypeOK
<1>4. ASSUME NEW u \in Users, Reopened(u) PROVE TypeOK'
  <2>1. players' \in SUBSET Users /\ IsFiniteSet(players')
    BY <1>4, PlayersReopened DEF Reopened, Opened
  <2>2. inGame' \in BOOLEAN /\ unlisted' \in BOOLEAN
    BY <1>4, Zenon DEF Reopened
  <2>3. disturbed' \in BOOLEAN
    BY <1>4, Zenon DEF Reopened
  <2> QED BY <1>4, <2>1, <2>2, <2>3 DEF Reopened, TypeOK
<1>t. ASSUME NEW u \in Users, NEW w \in Words, TakeWord(u, w)
      PROVE  /\ players' = players /\ chooser' = chooser /\ revealed' = revealed
             /\ rewards' = rewards
             /\ inGame' \in BOOLEAN
             /\ alarm' \in Nat \cup {Off}
             /\ word' \in Nat \cup {NULL}
             /\ asked' \in SUBSET Users
             /\ rounds' \in Nat
  <2>1. inGame' \in BOOLEAN
    BY <1>t, Zenon DEF TakeWord
  <2> QED BY <1>t, <2>1 DEF TakeWord, TypeOK
<1>5. ASSUME NEW u \in Users, NEW w \in Words, NEW r \in Idle, WordChosen(u, w, r)
      PROVE  TypeOK'
  <2>1. disturbed' = (disturbed \/ Due \/ inGame \/ u # chooser \/ alarm = Off)
    BY <1>5 DEF WordChosen
  <2>2. disturbed' \in BOOLEAN
    BY <2>1, Zenon
  <2>3. /\ at' \in [Procs -> Labels]
        /\ who' \in [Procs -> Users \cup {NULL}]
    BY <1>0, <1>5 DEF WordChosen, TypeOK, Labels
  <2>4. TakeWord(u, w) /\ UNCHANGED <<left, letters, index, freed, unlisted, fault, crowded>>
    BY <1>5 DEF WordChosen
  <2> QED BY <1>t, <2>2, <2>3, <2>4 DEF TypeOK, Labels
<1>w. ASSUME NEW u \in Users, NEW w \in Words, WordUnstarted(u, w) PROVE TypeOK'
  <2>1. TakeWord(u, w) /\ UNCHANGED <<at, left, who, letters, index, freed, fault, crowded>>
    BY <1>w DEF WordUnstarted
  <2>2. unlisted' \in BOOLEAN /\ disturbed' \in BOOLEAN
    BY <1>w, Zenon DEF WordUnstarted
  <2> QED BY <1>t, <2>1, <2>2 DEF TypeOK
<1>6. ASSUME NEW p \in Procs, NameChooser(p) PROVE TypeOK'
  <2>1. /\ chooser' \in Users \cup {NULL}
        /\ alarm' \in Nat \cup {Off}
        /\ asked' \in SUBSET Users
    BY <1>0, <1>6 DEF NameChooser, TypeOK
  <2> QED BY <1>6, <2>1, ReturnType DEF NameChooser, TypeOK, Labels
<1>7. ASSUME NEW p \in Procs, ScoreGame(p) PROVE TypeOK'
  <2>1. rewards' \in Nat
    BY <1>7 DEF ScoreGame, TypeOK
  <2>2. inGame' \in BOOLEAN
    BY <1>7, Zenon DEF ScoreGame
  <2>3. at' \in [Procs -> Labels]
    BY <1>0, <1>7 DEF ScoreGame, Labels
  <2> QED BY <1>7, <2>1, <2>2, <2>3 DEF ScoreGame, TypeOK, Labels
<1>f. ASSUME NEW p \in Procs, ScoreGameFaults(p) PROVE TypeOK'
  <2>1. inGame' \in BOOLEAN
    BY <1>f, Zenon DEF ScoreGameFaults
  <2> QED BY <1>f, <2>1 DEF ScoreGameFaults, TypeOK
<1>c. ASSUME NEW p \in Procs, ClearGame(p) PROVE TypeOK'
  <2>1. at' \in [Procs -> Labels]
    BY <1>0, <1>c DEF ClearGame, Labels
  <2> QED BY <1>c, <2>1 DEF ClearGame, TypeOK, Labels
<1>n. ASSUME NEW p \in Procs, NextGame(p) PROVE TypeOK'
  <2>1. StartGame(p, inGame, numberOfPlayers)
    BY <1>n DEF NextGame
  <2> QED BY <1>0, <1>n, <2>1, StartGameType DEF NextGame, TypeOK, Labels
<1>j. ASSUME NEW t \in Threads, JoinGoesOn(t) PROVE TypeOK'
  <2>1. CASE StartGame(t, inGame, numberOfPlayers)
    BY <1>0, <1>j, <2>1, StartGameType DEF JoinGoesOn, TypeOK, Labels
  <2>2. CASE Return(t) /\ disturbed' = disturbed
    BY <1>0, <1>j, <2>2, ReturnType DEF JoinGoesOn, TypeOK, Labels
  <2> QED BY <1>j, <2>1, <2>2 DEF JoinGoesOn
<1>8. ASSUME NEW p \in Threads, RevealBeginFaults(p) \/ RevealFaults(p) \/ JoinFaults(p)
      PROVE  TypeOK'
  BY <1>8 DEF RevealBeginFaults, RevealFaults, JoinFaults, TypeOK
<1>9. ASSUME NEW r \in Threads, RevealBegins(r) PROVE TypeOK'
  <2>1. CASE inGame
    <3>1. word \in Nat
      BY <1>9 DEF RevealBegins, TypeOK
    <3>2. Sleep(r, "revealing") /\ UNCHANGED <<who, freed, fault>>
      BY <1>9, <2>1 DEF RevealBegins
    <3>3. at' \in [Procs -> Labels] /\ left' \in [Procs -> Nat]
      BY <1>0, <3>2, SleepType DEF Labels
    <3>4. letters' \in [Threads -> Nat] /\ index' \in [Threads -> Nat]
      BY <1>9, <2>1, <3>1 DEF RevealBegins, FirstLetter, TypeOK
    <3> QED BY <1>9, <3>2, <3>3, <3>4 DEF RevealBegins, TypeOK, Labels
  <2>2. CASE ~inGame
    BY <1>0, <1>9, <2>2, ReturnType DEF RevealBegins, TypeOK, Labels
  <2> QED BY <2>1, <2>2
<1>10. ASSUME NEW r \in Threads, RevealStops(r) PROVE TypeOK'
  BY <1>0, <1>10, ReturnType DEF RevealStops, FreeLetters, TypeOK, Labels
<1>11. ASSUME NEW r \in Threads, RevealLetter(r) PROVE TypeOK'
  <2>1. at' \in [Procs -> Labels] /\ left' \in [Procs -> Nat]
    BY <1>0, <1>11, SleepType DEF RevealLetter, Labels
  <2>2. revealed' \in Nat
    BY <1>11 DEF RevealLetter, AppendLetter, TypeOK
  <2> QED BY <1>11, <2>1, <2>2 DEF RevealLetter, TypeOK, Labels
<1>12. ASSUME NEW r \in Threads, RevealLast(r) PROVE TypeOK'
  <2>1. disturbed' = (disturbed \/ Finishing \cup Created # {})
    BY <1>12 DEF RevealLast
  <2>2. disturbed' \in BOOLEAN
    BY <2>1, Zenon
  <2>3. revealed' \in Nat \cup {NULL}
    BY <1>12 DEF RevealLast, AppendLetter, TypeOK
  <2>4. at' \in [Procs -> Labels]
    BY <1>0, <1>12 DEF RevealLast, Labels
  <2> QED BY <1>12, <2>2, <2>3, <2>4 DEF RevealLast, FreeLetters, TypeOK, Labels
<1>13. CASE AlarmRings
  <2>1. CASE inGame
    <3>1. CallFinishGame(Main, chooser)
      BY <1>13, <2>1 DEF AlarmRings
    <3> QED BY <1>0, <1>13, <3>1, CallFinishGameType DEF AlarmRings, TypeOK, Labels
  <2>2. CASE ~inGame
    <3>1. StartGame(Main, inGame, numberOfPlayers)
      BY <1>13, <2>2 DEF AlarmRings
    <3> QED BY <1>0, <1>13, <3>1, StartGameType DEF AlarmRings, TypeOK, Labels
  <2> QED BY <2>1, <2>2
<1>14. CASE Tick
  <2>1. alarm' \in Nat \cup {Off}
    BY <1>14 DEF Tick, Due, TypeOK
  <2>2. left' \in [Procs -> Nat]
    BY <1>14 DEF Tick, Due, Asleep, TypeOK
  <2> QED BY <1>14, <2>1, <2>2 DEF Tick, TypeOK
<1>15. CASE UNCHANGED vars
  BY <1>15 DEF vars, TypeOK
<1> QED
  BY <1>1, <1>2, <1>3, <1>4, <1>5, <1>w, <1>6, <1>7, <1>f, <1>c, <1>n, <1>j, <1>8, <1>9,
     <1>10, <1>11, <1>12, <1>13, <1>14, <1>15 DEF Next, Dead, Client, Disconnected, Server, Runs

LEMMA InitTypes == ASSUME Init PROVE TypeOK
<1>1. PICK u \in Users : players = Opened(u)
  BY DEF Init
<1>2. players \in SUBSET Users /\ IsFiniteSet(players)
  BY <1>1, PlayersOpened DEF Opened
<1>3. inGame \in BOOLEAN /\ disturbed \in BOOLEAN /\ unlisted \in BOOLEAN /\ crowded \in BOOLEAN
  BY Zenon DEF Init
<1>4. /\ at \in [Procs -> Labels]
      /\ left \in [Procs -> Nat]
      /\ who \in [Procs -> Users \cup {NULL}]
      /\ letters \in [Threads -> Nat]
      /\ index \in [Threads -> Nat]
  BY DEF Init, Labels
<1> QED BY <1>2, <1>3, <1>4 DEF Init, TypeOK, Labels

(* Every variable of the room and of its threads keeps its type.            *)
THEOREM TypeCorrect == Spec => []TypeOK
  BY InitTypes, TypeStep, PTL DEF Spec

-----------------------------------------------------------------------------
(* Where the threads are after the helpers of the actions.                  *)

LEMMA StartGameAsleep ==
  ASSUME TypeOK, NEW p \in Procs, NEW n \in Nat, NEW b \in BOOLEAN, StartGame(p, b, n),
         ~b, n > 1
  PROVE  p \in Starting'
  BY DEF StartGame, Sleep, Starting, AtLabel, TypeOK

(* Those who will see to the next round: asleep in start_game or about to   *)
(* call it.                                                                 *)
Starters == Starting \cup Scored \cup Cleared

LEMMA OthersKeepStarters ==
  ASSUME TypeOK, NEW p \in Procs, NEW l \in Labels, at' = [at EXCEPT ![p] = l],
         p \notin Starters
  PROVE  Starters \subseteq Starters'
  BY DEF Starters, Starting, Scored, Cleared, AtLabel, TypeOK

LEMMA OthersKeepJoining ==
  ASSUME TypeOK, NEW p \in Procs, NEW l \in Labels, at' = [at EXCEPT ![p] = l],
         p \notin Joining
  PROVE  Joining \subseteq Joining'
  BY DEF Joining, AtLabel, TypeOK

(* A pause ends in a game, in an alarm or with a single player left, and    *)
(* the alarm ends in another pause.                                         *)
LEMMA NotStalledStep == ASSUME TypeOK, NotStalled, [Next]_vars PROVE NotStalled'
<1> USE DEF room, historyVars
<1>0. /\ Idle \subseteq Threads /\ Threads \subseteq Procs /\ Main \in Procs
      /\ \A t \in Idle : at[t] = "idle"
      /\ numberOfPlayers \in Nat /\ inGame \in BOOLEAN
      /\ Idle \subseteq Procs
  BY NumberIsNat DEF TypeOK, Idle, AtLabel, Procs
<1>n. NotStalled <=> ((Alive /\ ~crowded /\ ~inGame /\ numberOfPlayers > 1) =>
                        \/ alarm # Off \/ Starters # {}
                        \/ Joining # {} /\ numberOfPlayers = 2)
  BY DEF NotStalled, Starters
<1>k. (players' = players) => (numberOfPlayers' = numberOfPlayers)
  BY DEF numberOfPlayers
(* A step that moves one thread, which is no starter and not in JOINED.     *)
<1>a. ASSUME NEW p \in Procs, NEW l \in Labels, at' = [at EXCEPT ![p] = l],
             p \notin Starters, p \notin Joining,
             UNCHANGED <<players, inGame, alarm, crowded>>, Alive
      PROVE  NotStalled'
  <2>1. Starters \subseteq Starters' /\ Joining \subseteq Joining'
    BY <1>a, OthersKeepStarters, OthersKeepJoining
  <2> QED BY <1>a, <1>k, <1>n, <2>1 DEF NotStalled, Starters
<1>s. ASSUME NEW p \in Procs, Starters' # {} PROVE NotStalled'
  BY <1>s DEF NotStalled, Starters
<1>1. ASSUME NEW t \in Idle, NEW u \in Users, Joined(t, u), Alive PROVE NotStalled'
  <2>1. /\ numberOfPlayers' = numberOfPlayers + 1 /\ inGame' = inGame /\ alarm' = alarm
        /\ at' = [at EXCEPT ![t] = "joined"]
        /\ crowded' = (crowded \/ Joining # {})
    BY <1>1, PlayersJoin DEF Joined
  <2>2. t \in Joining'
    BY <1>0, <2>1 DEF Joining, AtLabel, TypeOK
  <2>3. CASE numberOfPlayers = 1
    BY <2>1, <2>2, <2>3 DEF NotStalled
  <2>4. CASE numberOfPlayers > 1
    <3>1. Starters \subseteq Starters'
      BY <1>0, <2>1, OthersKeepStarters DEF Starters, Starting, Scored, Cleared, AtLabel, Labels
    <3>2. (~crowded' /\ ~inGame) => (alarm # Off \/ Starters # {})
      BY <1>1, <1>n, <2>1, <2>4
    <3> QED BY <2>1, <3>1, <3>2 DEF NotStalled, Starters
  <2>5. CASE numberOfPlayers = 0
    BY <2>1, <2>5 DEF NotStalled
  <2> QED BY <1>0, <2>3, <2>4, <2>5
<1>2. ASSUME NEW t \in Idle, NEW u \in Users, Guessed(t, u), Alive PROVE NotStalled'
  <2>1. t \in Procs /\ t \notin Starters /\ t \notin Joining
    BY <1>0 DEF Starters, Starting, Scored, Cleared, Joining, AtLabel
  <2>2. UNCHANGED <<players, inGame, alarm, crowded>>
    BY <1>2 DEF Guessed
  <2>3. \E l \in Labels : at' = [at EXCEPT ![t] = l]
    BY <1>2 DEF Guessed, CallFinishGame, Return, Labels
  <2> QED BY <1>2, <1>a, <2>1, <2>2, <2>3
<1>3. ASSUME NEW u \in Users, Left(u), Alive PROVE NotStalled'
  <2>1. numberOfPlayers' = numberOfPlayers - 1
    BY <1>3, PlayersLeave DEF Left
  <2>2. UNCHANGED <<inGame, alarm, crowded, at>>
    BY <1>3 DEF Left
  <2>3. Starters' = Starters
    BY <2>2 DEF Starters, Starting, Scored, Cleared, AtLabel
  <2>4. CASE numberOfPlayers > 2
    <3>1. (~crowded /\ ~inGame) => (alarm # Off \/ Starters # {})
      BY <1>0, <1>3, <1>n, <2>4
    <3> QED BY <2>2, <2>3, <3>1 DEF NotStalled, Starters
  <2>5. CASE numberOfPlayers <= 2
    BY <1>0, <2>1, <2>5 DEF NotStalled
  <2> QED BY <1>0, <2>4, <2>5
<1>4. ASSUME NEW u \in Users, Reopened(u) PROVE NotStalled'
  <2>1. numberOfPlayers' = 1
    BY <1>4, PlayersReopened DEF Reopened
  <2> QED BY <2>1 DEF NotStalled
<1>5. ASSUME NEW u \in Users, NEW w \in Words, TakeWord(u, w) PROVE NotStalled'
  BY <1>5 DEF TakeWord, NotStalled
<1>6. ASSUME NEW p \in Procs, NameChooser(p) PROVE NotStalled'
  <2>1. CASE numberOfPlayers > 1
    <3>1. alarm' = ALARM
      BY <1>0, <1>6, <2>1 DEF NameChooser
    <3> QED BY <3>1, GameAssumption DEF NotStalled
  <2>2. CASE numberOfPlayers <= 1
    <3>1. players' = players
      BY <1>6 DEF NameChooser
    <3> QED BY <1>0, <1>k, <2>2, <3>1 DEF NotStalled
  <2> QED BY <1>0, <2>1, <2>2
<1>7. ASSUME NEW p \in Procs, ScoreGame(p) \/ ClearGame(p) PROVE NotStalled'
  <2>1. p \in Starters'
    BY <1>7 DEF ScoreGame, ClearGame, Starters, Scored, Cleared, AtLabel, TypeOK
  <2> QED BY <1>s, <2>1
<1>9n. ASSUME NEW p \in Procs, NextGame(p) PROVE NotStalled'
  <2>1. StartGame(p, inGame, numberOfPlayers) /\ inGame' = inGame /\ players' = players
    BY <1>9n DEF NextGame
  <2>2. CASE ~inGame /\ numberOfPlayers > 1
    <3>1. p \in Starters'
      BY <1>0, <2>1, <2>2, StartGameAsleep DEF Starters
    <3> QED BY <1>s, <3>1
  <2>3. CASE inGame \/ numberOfPlayers <= 1
    BY <1>0, <1>k, <2>1, <2>3 DEF NotStalled
  <2> QED BY <1>0, <2>2, <2>3
<1>j. ASSUME NEW t \in Threads, JoinGoesOn(t), Alive PROVE NotStalled'
  <2>1. UNCHANGED <<players, inGame, alarm, crowded>> /\ t \in Joining /\ t \in Procs
    BY <1>0, <1>j DEF JoinGoesOn
  <2>2. CASE ~inGame /\ numberOfPlayers = 2
    <3>1. StartGame(t, inGame, numberOfPlayers)
      BY <1>j, <2>2 DEF JoinGoesOn
    <3>2. t \in Starters'
      BY <1>0, <2>1, <2>2, <3>1, StartGameAsleep DEF Starters
    <3> QED BY <1>s, <2>1, <3>2
  <2>3. CASE ~inGame /\ numberOfPlayers # 2
    <3>1. at' = [at EXCEPT ![t] = "idle"]
      BY <1>j, <2>3 DEF JoinGoesOn, Return
    <3>2. t \notin Starters
      BY <2>1 DEF Joining, Starters, Starting, Scored, Cleared, AtLabel
    <3>3. Starters \subseteq Starters'
      BY <2>1, <3>1, <3>2, OthersKeepStarters DEF Labels
    <3> QED BY <1>j, <1>k, <1>n, <2>1, <2>3, <3>3 DEF NotStalled, Starters
  <2>4. CASE inGame
    BY <2>1, <2>4 DEF NotStalled
  <2> QED BY <1>0, <2>2, <2>3, <2>4
<1>8. ASSUME fault' = "null" PROVE NotStalled'
  BY <1>8 DEF NotStalled, Alive
<1>9. ASSUME NEW r \in Threads, RevealBegins(r) \/ RevealStops(r), Alive PROVE NotStalled'
  <2>1. r \in Procs /\ r \notin Starters /\ r \notin Joining
    BY <1>0, <1>9 DEF RevealBegins, RevealStops, Created, Revealing, Starters, Starting,
                      Scored, Cleared, Joining, AtLabel
  <2>2. UNCHANGED <<players, inGame, alarm, crowded>>
    BY <1>9 DEF RevealBegins, RevealStops
  <2>3. \E l \in Labels : at' = [at EXCEPT ![r] = l]
    BY <1>9 DEF RevealBegins, RevealStops, Sleep, Return, Labels
  <2> QED BY <1>9, <1>a, <2>1, <2>2, <2>3
<1>11. ASSUME NEW r \in Threads, RevealLetter(r) \/ RevealLast(r) PROVE NotStalled'
  BY <1>11 DEF RevealLetter, RevealLast, NotStalled
<1>12. ASSUME AlarmRings PROVE NotStalled'
  <2>1. CASE inGame
    BY <1>12, <2>1 DEF AlarmRings, NotStalled
  <2>2. CASE ~inGame
    <3>1. StartGame(Main, inGame, numberOfPlayers) /\ players' = players
      BY <1>12, <2>2 DEF AlarmRings
    <3>2. numberOfPlayers > 1 => Starters' # {}
      BY <1>0, <2>2, <3>1, StartGameAsleep DEF Starters
    <3> QED BY <1>k, <3>1, <3>2 DEF NotStalled, Starters
  <2> QED BY <2>1, <2>2
<1>13. ASSUME Tick PROVE NotStalled'
  <2>1. alarm # Off => alarm' # Off
    BY <1>13, GameAssumption DEF Tick, Due, TypeOK
  <2>2. UNCHANGED <<players, inGame, crowded, at, fault>>
    BY <1>13 DEF Tick
  <2>3. Starters' = Starters /\ Joining' = Joining /\ (Alive' <=> Alive)
    BY <2>2 DEF Starters, Starting, Scored, Cleared, Joining, AtLabel, Alive
  <2> QED BY <1>k, <1>n, <2>1, <2>2, <2>3 DEF NotStalled, Starters
<1>14. ASSUME UNCHANGED vars PROVE NotStalled'
  <2>1. UNCHANGED <<players, inGame, crowded, at, fault, alarm>>
    BY <1>14 DEF vars
  <2>2. Starters' = Starters /\ Joining' = Joining /\ (Alive' <=> Alive)
    BY <2>1 DEF Starters, Starting, Scored, Cleared, Joining, AtLabel, Alive
  <2> QED BY <1>k, <1>n, <2>1, <2>2 DEF NotStalled, Starters
<1> QED
  BY <1>1, <1>2, <1>3, <1>4, <1>5, <1>6, <1>7, <1>9n, <1>j, <1>8, <1>9, <1>11, <1>12, <1>13,
     <1>14 DEF Next, Dead, Client, Disconnected, Server, Runs, WordChosen, WordUnstarted,
               ScoreGameFaults, JoinFaults, RevealBeginFaults, RevealFaults

(* A room with two players or more is not forgotten between rounds, unless  *)
(* two JOINED were counted at once.                                         *)
THEOREM NotStalledCorrect == Spec => []NotStalled
<1>1. Init => NotStalled
  BY PlayersOpened DEF Init, NotStalled
<1>2. TypeOK /\ NotStalled /\ [Next]_vars => NotStalled'
  BY NotStalledStep
<1> QED BY <1>1, <1>2, TypeCorrect, PTL DEF Spec

-----------------------------------------------------------------------------
(* The threads that will see a game to its end. *)
Working == Revealing \cup Created \cup Finishing

LEMMA ThreadMoves ==
  ASSUME TypeOK, NEW p \in Procs, NEW l \in Labels, at' = [at EXCEPT ![p] = l]
  PROVE  /\ p \notin Working => Working \subseteq Working'
         /\ l \in {"created", "revealing", "finishing"} => Working' # {}
  BY DEF Working, Revealing, Created, Finishing, AtLabel, TypeOK

LEMMA StartGameMoves ==
  ASSUME TypeOK, NEW p \in Procs, NEW n \in Nat, NEW b \in BOOLEAN, StartGame(p, b, n)
  PROVE  \E l \in Labels : at' = [at EXCEPT ![p] = l]
  BY DEF StartGame, Sleep, Return, Labels

(* Whatever ends a reveal_letters thread ends the game first.               *)
LEMMA RoundStep == ASSUME TypeOK, RoundWillEnd, [Next]_vars PROVE RoundWillEnd'
<1> USE DEF room, historyVars
<1>0. /\ Idle \subseteq Threads /\ Threads \subseteq Procs /\ Main \in Procs
      /\ \A t \in Idle : at[t] = "idle"
      /\ \A p \in Procs : at[p] \in {"idle", "joined", "starting", "scored", "cleared"}
                            => p \notin Working
      /\ numberOfPlayers \in Nat /\ inGame \in BOOLEAN
      /\ (Alive /\ inGame) => Working # {} \/ unlisted
      /\ Idle \subseteq Procs
  BY NumberIsNat DEF TypeOK, Idle, AtLabel, Procs, Working, Revealing, Created, Finishing,
                     RoundWillEnd
<1>a. ASSUME UNCHANGED <<inGame, unlisted>>, Alive, Working # {} => Working' # {}
      PROVE  RoundWillEnd'
  BY <1>0, <1>a DEF RoundWillEnd, Working
<1>b. ASSUME inGame' = FALSE PROVE RoundWillEnd'
  BY <1>b DEF RoundWillEnd
<1>f. ASSUME fault' = "null" PROVE RoundWillEnd'
  BY <1>f DEF RoundWillEnd, Alive
(* A thread that is at no work for the round moves.                         *)
<1>m. ASSUME NEW p \in Procs, \E l \in Labels : at' = [at EXCEPT ![p] = l],
             at[p] \in {"idle", "joined", "starting", "scored", "cleared"},
             UNCHANGED <<inGame, unlisted>>, Alive
      PROVE  RoundWillEnd'
  <2>1. Working \subseteq Working'
    BY <1>0, <1>m, ThreadMoves
  <2> QED BY <1>a, <1>m, <2>1
<1>1. ASSUME NEW t \in Idle, NEW u \in Users, Joined(t, u), Alive PROVE RoundWillEnd'
  <2>1. at' = [at EXCEPT ![t] = "joined"] /\ UNCHANGED <<inGame, unlisted>>
    BY <1>1 DEF Joined
  <2> QED BY <1>0, <1>1, <1>m, <2>1 DEF Labels
<1>2. ASSUME NEW t \in Idle, NEW u \in Users, Guessed(t, u), Alive PROVE RoundWillEnd'
  <2>1. (\E l \in Labels : at' = [at EXCEPT ![t] = l]) /\ UNCHANGED <<inGame, unlisted>>
    BY <1>2 DEF Guessed, CallFinishGame, Return, Labels
  <2> QED BY <1>0, <1>2, <1>m, <2>1
<1>3. ASSUME NEW u \in Users, Left(u), Alive PROVE RoundWillEnd'
  <2>1. Working' = Working /\ UNCHANGED <<inGame, unlisted>>
    BY <1>3 DEF Left, Working, Revealing, Created, Finishing, AtLabel
  <2> QED BY <1>3, <1>a, <2>1
<1>4. ASSUME NEW u \in Users, Reopened(u) PROVE RoundWillEnd'
  BY <1>4, <1>b DEF Reopened
<1>5. ASSUME NEW u \in Users, NEW w \in Words, NEW r \in Idle, WordChosen(u, w, r)
      PROVE  RoundWillEnd'
  <2>1. Working' # {}
    BY <1>0, <1>5, ThreadMoves DEF WordChosen, Labels
  <2> QED BY <2>1 DEF RoundWillEnd, Working
<1>w. ASSUME NEW u \in Users, NEW w \in Words, WordUnstarted(u, w) PROVE RoundWillEnd'
  BY <1>w DEF WordUnstarted, RoundWillEnd
<1>6. ASSUME NEW p \in Procs, NameChooser(p), Alive PROVE RoundWillEnd'
  <2>1. /\ at[p] = "starting" /\ at' = [at EXCEPT ![p] = "idle"]
        /\ UNCHANGED <<inGame, unlisted>>
    BY <1>6 DEF NameChooser, Starting, AtLabel, Return
  <2> QED BY <1>6, <1>m, <2>1 DEF Labels
<1>7. ASSUME NEW p \in Procs, ScoreGame(p) PROVE RoundWillEnd'
  BY <1>7, <1>b DEF ScoreGame
<1>c. ASSUME NEW p \in Procs, ClearGame(p), Alive PROVE RoundWillEnd'
  <2>1. /\ at[p] = "scored" /\ at' = [at EXCEPT ![p] = "cleared"]
        /\ UNCHANGED <<inGame, unlisted>>
    BY <1>c DEF ClearGame, Scored, AtLabel
  <2> QED BY <1>c, <1>m, <2>1 DEF Labels
<1>n. ASSUME NEW p \in Procs, NextGame(p), Alive PROVE RoundWillEnd'
  <2>1. /\ at[p] = "cleared" /\ StartGame(p, inGame, numberOfPlayers)
        /\ UNCHANGED <<inGame, unlisted>>
    BY <1>n DEF NextGame, Cleared, AtLabel
  <2> QED BY <1>0, <1>n, <1>m, <2>1, StartGameMoves
<1>j. ASSUME NEW t \in Threads, JoinGoesOn(t), Alive PROVE RoundWillEnd'
  <2>1. at[t] = "joined" /\ UNCHANGED <<inGame, unlisted>>
    BY <1>j DEF JoinGoesOn, Joining, AtLabel
  <2>2. \E l \in Labels : at' = [at EXCEPT ![t] = l]
    <3>1. CASE StartGame(t, inGame, numberOfPlayers)
      BY <1>0, <3>1, StartGameMoves
    <3>2. CASE Return(t)
      BY <3>2 DEF Return, Labels
    <3> QED BY <1>j, <3>1, <3>2 DEF JoinGoesOn
  <2> QED BY <1>0, <1>j, <1>m, <2>1, <2>2
<1>9. ASSUME NEW r \in Threads, RevealBegins(r), Alive PROVE RoundWillEnd'
  <2>1. CASE inGame
    <3>1. Working' # {}
      BY <1>0, <1>9, <2>1, ThreadMoves DEF RevealBegins, Sleep, Labels
    <3> QED BY <1>9, <1>a, <3>1 DEF RevealBegins
  <2>2. CASE ~inGame
    BY <1>0, <1>9, <1>b, <2>2 DEF RevealBegins
  <2> QED BY <2>1, <2>2
<1>10. ASSUME NEW r \in Threads, RevealStops(r) PROVE RoundWillEnd'
  <2>1. inGame' = FALSE
    BY <1>0, <1>10 DEF RevealStops
  <2> QED BY <1>b, <2>1
<1>11. ASSUME NEW r \in Threads, RevealLetter(r) \/ RevealLast(r), Alive PROVE RoundWillEnd'
  <2>1. Working' # {}
    BY <1>0, <1>11, ThreadMoves DEF RevealLetter, RevealLast, Sleep, Labels
  <2> QED BY <1>11, <1>a, <2>1 DEF RevealLetter, RevealLast
<1>12. ASSUME AlarmRings, Alive PROVE RoundWillEnd'
  <2>1. \E l \in Labels : at' = [at EXCEPT ![Main] = l]
    <3>1. CASE StartGame(Main, inGame, numberOfPlayers)
      BY <1>0, <3>1, StartGameMoves
    <3>2. CASE CallFinishGame(Main, chooser)
      BY <3>2 DEF CallFinishGame, Return, Labels
    <3> QED BY <1>12, <3>1, <3>2 DEF AlarmRings
  <2> QED BY <1>0, <1>12, <1>m, <2>1 DEF AlarmRings
<1>13. ASSUME UNCHANGED <<inGame, unlisted, at, fault>> PROVE RoundWillEnd'
  BY <1>13 DEF RoundWillEnd, Alive, Revealing, Created, Finishing, AtLabel
<1> QED
  BY <1>1, <1>2, <1>3, <1>4, <1>5, <1>w, <1>6, <1>7, <1>c, <1>n, <1>j, <1>f, <1>9, <1>10, <1>11,
     <1>12, <1>13
     DEF Next, Dead, Client, Disconnected, Server, Runs, Tick, vars, ScoreGameFaults, JoinFaults,
         RevealBeginFaults, RevealFaults

(* While a game is on some thread is left that will end it, unless no       *)
(* thread could be created for a round.                                     *)
THEOREM RoundWillEndCorrect == Spec => []RoundWillEnd
<1>1. Init => RoundWillEnd
  BY DEF Init, RoundWillEnd
<1>2. TypeOK /\ RoundWillEnd /\ [Next]_vars => RoundWillEnd'
  BY RoundStep
<1> QED BY <1>1, <1>2, TypeCorrect, PTL DEF Spec

-----------------------------------------------------------------------------
(* While the handler is on main, a pending alarm is farther away than the   *)
(* end of the handler's sleep.                                              *)
MainInv ==
  /\ at[Main] \in {"idle", "starting", "finishing", "scored", "cleared"}
  /\ at[Main] = "starting" => left[Main] <= SLEEP /\ (alarm = Off \/ alarm > left[Main])
  /\ at[Main] \in {"finishing", "scored", "cleared"} => alarm \in {Off, ALARM}

LEMMA MainInvImplies == ASSUME TypeOK, MainInv PROVE AlarmFindsMainIdle
<1>1. Main \in Procs
  BY DEF Procs
<1>2. CASE at[Main] = "starting"
  BY <1>1, <1>2, GameAssumption DEF MainInv, AlarmFindsMainIdle, TypeOK
<1>3. CASE at[Main] \in {"finishing", "scored", "cleared"}
  BY <1>3, GameAssumption DEF MainInv, AlarmFindsMainIdle
<1>4. CASE at[Main] = "idle"
  BY <1>4 DEF AlarmFindsMainIdle
<1> QED BY <1>2, <1>3, <1>4 DEF MainInv

(* Only its own steps move main, only ticks bring the alarm nearer, and     *)
(* they bring the end of main's sleep nearer too.                           *)
LEMMA MainStep == ASSUME TypeOK, MainInv, [Next]_vars PROVE MainInv'
<1> USE GameAssumption
<1>0. /\ Idle \subseteq Procs \ {Main} /\ Threads \subseteq Procs \ {Main} /\ Main \in Procs
      /\ left \in [Procs -> Nat] /\ at \in [Procs -> Labels]
  BY DEF TypeOK, Idle, AtLabel, Procs, Labels
<1>a. ASSUME at'[Main] = at[Main], left'[Main] = left[Main], alarm' \in {alarm, Off}
      PROVE  MainInv'
  BY <1>a DEF MainInv
<1>b. ASSUME at'[Main] = "idle" PROVE MainInv'
  BY <1>b DEF MainInv
<1>3. ASSUME NEW t \in Idle, NEW u \in Users, Joined(t, u) \/ Guessed(t, u)
      PROVE  MainInv'
  <2>1. at'[Main] = at[Main] /\ left'[Main] = left[Main]
    BY <1>0, <1>3 DEF Joined, Guessed, CallFinishGame, Return
  <2> QED BY <1>3, <1>a, <2>1 DEF Joined, Guessed
<1>4. ASSUME NEW u \in Users, Left(u) \/ Reopened(u) PROVE MainInv'
  BY <1>4, <1>a DEF Left, Reopened
<1>5. ASSUME NEW u \in Users, NEW w \in Words,
             WordUnstarted(u, w) \/ \E r \in Idle : WordChosen(u, w, r)
      PROVE  MainInv'
  BY <1>0, <1>5, <1>a DEF WordChosen, WordUnstarted, TakeWord
<1>j. ASSUME NEW t \in Threads, JoinGoesOn(t) PROVE MainInv'
  <2>1. at'[Main] = at[Main] /\ left'[Main] = left[Main]
    BY <1>0, <1>j DEF JoinGoesOn, StartGame, Sleep, Return
  <2> QED BY <1>j, <1>a, <2>1 DEF JoinGoesOn
<1>6. ASSUME NEW p \in Procs, NameChooser(p) PROVE MainInv'
  <2>1. /\ Return(p) /\ at[p] = "starting" /\ alarm' \in {alarm, ALARM}
    BY <1>6 DEF NameChooser, Starting, AtLabel
  <2>2. CASE p = Main
    BY <1>0, <1>b, <2>1, <2>2 DEF Return
  <2>3. CASE p # Main
    <3>1. at'[Main] = at[Main] /\ left'[Main] = left[Main]
      BY <1>0, <2>1, <2>3 DEF Return
    <3> QED BY <1>0, <2>1, <3>1 DEF MainInv
  <2> QED BY <2>2, <2>3
<1>7. ASSUME NEW p \in Procs, ScoreGame(p) \/ ClearGame(p) PROVE MainInv'
  <2>1. /\ at[p] \in {"finishing", "scored"} /\ alarm' = alarm /\ left' = left
        /\ at' = [at EXCEPT ![p] = "scored"] \/ at' = [at EXCEPT ![p] = "cleared"]
    BY <1>7 DEF ScoreGame, ClearGame, Finishing, Scored, AtLabel
  <2>2. CASE p = Main
    BY <1>0, <2>1, <2>2 DEF MainInv
  <2>3. CASE p # Main
    <3>1. at'[Main] = at[Main]
      BY <1>0, <2>1, <2>3
    <3> QED BY <1>a, <2>1, <3>1
  <2> QED BY <2>2, <2>3
<1>n. ASSUME NEW p \in Procs, NextGame(p) PROVE MainInv'
  <2>1. StartGame(p, inGame, numberOfPlayers) /\ alarm' = alarm /\ at[p] = "cleared"
    BY <1>n DEF NextGame, Cleared, AtLabel
  <2>2. CASE p = Main /\ Sleep(Main, "starting")
    <3>1. at'[Main] = "starting" /\ left'[Main] = SLEEP
      BY <1>0, <2>2 DEF Sleep
    <3>2. alarm \in {Off, ALARM}
      BY <2>1, <2>2 DEF MainInv
    <3> QED BY <2>1, <3>1, <3>2 DEF MainInv
  <2>3. CASE p = Main /\ Return(Main)
    BY <1>0, <1>b, <2>3 DEF Return
  <2>4. CASE p # Main
    <3>1. at'[Main] = at[Main] /\ left'[Main] = left[Main]
      BY <1>0, <2>1, <2>4 DEF StartGame, Sleep, Return
    <3> QED BY <1>a, <2>1, <3>1
  <2> QED BY <2>1, <2>2, <2>3, <2>4 DEF StartGame
<1>8. ASSUME UNCHANGED <<at, left, alarm>> PROVE MainInv'
  BY <1>8, <1>a
<1>9. ASSUME NEW r \in Threads, RevealBegins(r) \/ RevealStops(r) \/ RevealLetter(r)
                                 \/ RevealLast(r)
      PROVE  MainInv'
  <2>1. at'[Main] = at[Main] /\ left'[Main] = left[Main]
    BY <1>0, <1>9 DEF RevealBegins, RevealStops, RevealLetter, RevealLast, Sleep, Return
  <2> QED BY <1>9, <1>a, <2>1 DEF RevealBegins, RevealStops, RevealLetter, RevealLast
<1>10. ASSUME AlarmRings PROVE MainInv'
  <2>1. alarm' = Off /\ at[Main] = "idle"
    BY <1>10 DEF AlarmRings
  <2>2. CASE at'[Main] = "starting" /\ left'[Main] = SLEEP
    BY <2>1, <2>2 DEF MainInv
  <2>3. CASE at'[Main] \in {"idle", "finishing"}
    BY <2>1, <2>3 DEF MainInv
  <2> QED
    BY <1>0, <1>10, <2>2, <2>3 DEF AlarmRings, CallFinishGame, StartGame, Sleep, Return
<1>11. ASSUME Tick PROVE MainInv'
  <2>1. CASE Main \in Starting
    BY <1>0, <1>11, <2>1 DEF Tick, Asleep, Starting, AtLabel, MainInv, TypeOK
  <2>2. CASE Main \notin Starting
    <3>1. at[Main] = "idle"
      BY <1>0, <1>11, <2>2
         DEF Tick, Due, Finishing, Scored, Cleared, Starting, AtLabel, MainInv
    <3> QED BY <1>11, <1>b, <3>1 DEF Tick
  <2> QED BY <2>1, <2>2
<1> QED
  BY <1>3, <1>4, <1>5, <1>j, <1>6, <1>7, <1>n, <1>8, <1>9, <1>10, <1>11
     DEF Next, Dead, Client, Disconnected, Server, Runs, vars, ScoreGameFaults, JoinFaults,
         RevealBeginFaults, RevealFaults

LEMMA MainInvCorrect == Spec => []MainInv
<1>1. Init => MainInv
  BY DEF Init, MainInv, Procs
<1>2. TypeOK /\ MainInv /\ [Next]_vars => MainInv'
  BY MainStep
<1> QED BY <1>1, <1>2, TypeCorrect, PTL DEF Spec

(* SIGALRM is never delivered while its handler is still asleep on main.    *)
THEOREM AlarmFindsMainIdleCorrect == Spec => []AlarmFindsMainIdle
<1>1. TypeOK /\ MainInv => AlarmFindsMainIdle
  BY MainInvImplies
<1> QED BY <1>1, MainInvCorrect, TypeCorrect, PTL

-----------------------------------------------------------------------------
(* What keeps a round calm until it is disturbed: at most one thread is     *)
(* about to reveal or to finish, and only in a game, or to start the next   *)
(* pause, and only between games; at most one pause, and none beside a      *)
(* running alarm; what a reveal thread of an earlier round has left to      *)
(* sleep is over before the pause is, so that it has seen the game end      *)
(* before the next word can be chosen; and nobody leaves under a JOINED.    *)

Ending == Created \cup Finishing
Closing == Scored \cup Cleared

OneEnding == /\ \A p, q \in Ending \cup Closing : p = q
             /\ Ending # {} => inGame
             /\ Closing # {} => ~inGame /\ alarm = Off /\ Starting = {}

OnePause == /\ \A p, q \in Starting : p = q
            /\ alarm \notin {Off, 0} => Starting = {}

OneReveal ==
  inGame =>
    /\ alarm = Off /\ Starting = {}
    /\ chooser \in Users /\ word \in Nat
    /\ Created = {} => revealed \in Nat
    /\ \A p, q \in Revealing \cup Created : p = q
    /\ \A p \in Revealing \cup Ending : who[p] \in Users
    /\ \A r \in Revealing : /\ revealed \in Nat /\ index[r] <= revealed
                            /\ letters[r] = word
                            /\ index[r] < word \/ word = 0

RevealsEndFirst ==
  /\ alarm # Off => \A r \in Revealing : left[r] = 0
  /\ \A p \in Starting, r \in Revealing : left[r] <= left[p]
  /\ \A r \in Revealing : left[r] <= SLEEP

RewardsPaid == rewards <= rounds - (IF inGame THEN 1 ELSE 0)

JoinedStay == Joining # {} => players # {}

Calm == /\ fault # "null"
        /\ OneEnding /\ OnePause /\ OneReveal /\ RevealsEndFirst /\ RewardsPaid /\ JoinedStay

CalmInv == ~disturbed => Calm

(* Where every other thread is when one has moved.                          *)
LEMMA Moves ==
  ASSUME TypeOK, NEW p \in Procs, NEW l \in Labels, at' = [at EXCEPT ![p] = l]
  PROVE  \A m \in Labels :
           AtLabel(m)' = IF m = l THEN AtLabel(m) \cup {p} ELSE AtLabel(m) \ {p}
  BY DEF AtLabel, TypeOK

LEMMA Stays ==
  ASSUME at' = at
  PROVE  /\ Starting' = Starting /\ Created' = Created /\ Revealing' = Revealing
         /\ Finishing' = Finishing /\ Scored' = Scored /\ Cleared' = Cleared
         /\ Joining' = Joining
  BY DEF Starting, Created, Revealing, Finishing, Scored, Cleared, Joining, AtLabel

(* What a step that only takes threads away from a round has to leave alone. *)
LEMMA CalmKept ==
  ASSUME TypeOK, Calm, fault' # "null", alarm' \in {alarm, Off},
         Created' \subseteq Created, Finishing' \subseteq Finishing,
         Scored' \subseteq Scored, Cleared' \subseteq Cleared,
         Starting' \subseteq Starting, Revealing' \subseteq Revealing,
         \/ inGame' = FALSE /\ Ending' = {}
         \/ Created' = Created /\ UNCHANGED <<inGame, chooser, word, revealed>>,
         \A p \in Starting' \cup Revealing' : left'[p] = left[p],
         \A p \in Revealing' \cup Ending' : who'[p] = who[p],
         \A r \in Revealing' : index'[r] = index[r] /\ letters'[r] = letters[r],
         UNCHANGED <<rewards, rounds>>, JoinedStay'
  PROVE  Calm'
<1>1. OneEnding'
  BY DEF Calm, OneEnding, Ending, Closing
<1>2. OnePause'
  BY DEF Calm, OnePause
<1>3. OneReveal'
  BY DEF Calm, OneReveal, Ending
<1>4. RevealsEndFirst'
  BY DEF Calm, RevealsEndFirst
<1>5. RewardsPaid'
  BY DEF Calm, RewardsPaid, TypeOK
<1> QED BY <1>1, <1>2, <1>3, <1>4, <1>5 DEF Calm

(* A step that disturbs a round says so; every other keeps the round calm.  *)
LEMMA CalmStep ==
  ASSUME TypeOK, MainInv, CalmInv, [Next]_vars PROVE CalmInv'
<1> SUFFICES ASSUME ~disturbed' PROVE Calm'
  BY DEF CalmInv
<1> USE GameAssumption
<1> USE DEF room, revealVars, historyVars
<1>0. /\ Idle \subseteq Threads /\ Threads \subseteq Procs /\ Main \in Procs
      /\ Idle \subseteq AtLabel("idle")
      /\ numberOfPlayers \in Nat /\ inGame \in BOOLEAN
  BY NumberIsNat DEF TypeOK, Idle, AtLabel, Procs
<1>t. TypeOK'
  BY TypeStep
<1>d. ASSUME disturbed' = disturbed PROVE Calm
  BY <1>d DEF CalmInv
<1>m. ASSUME NEW p \in Procs, NEW l \in Labels, at' = [at EXCEPT ![p] = l]
      PROVE  /\ Starting' = IF l = "starting" THEN Starting \cup {p} ELSE Starting \ {p}
             /\ Created' = IF l = "created" THEN Created \cup {p} ELSE Created \ {p}
             /\ Revealing' = IF l = "revealing" THEN Revealing \cup {p} ELSE Revealing \ {p}
             /\ Finishing' = IF l = "finishing" THEN Finishing \cup {p} ELSE Finishing \ {p}
             /\ Scored' = IF l = "scored" THEN Scored \cup {p} ELSE Scored \ {p}
             /\ Cleared' = IF l = "cleared" THEN Cleared \cup {p} ELSE Cleared \ {p}
             /\ Joining' = IF l = "joined" THEN Joining \cup {p} ELSE Joining \ {p}
  BY <1>m, Moves DEF Starting, Created, Revealing, Finishing, Scored, Cleared, Joining, Labels
<1>i. ASSUME NEW p \in Procs, at' = [at EXCEPT ![p] = "idle"]
      PROVE  /\ Starting' = Starting \ {p} /\ Created' = Created \ {p}
             /\ Revealing' = Revealing \ {p} /\ Finishing' = Finishing \ {p}
             /\ Scored' = Scored \ {p} /\ Cleared' = Cleared \ {p}
             /\ Joining' = Joining \ {p}
  BY <1>i, <1>m DEF Labels
(* A thread that returns takes itself out of the sets, and nothing else.    *)
<1>r. ASSUME NEW p \in Procs, Return(p), Calm, p \notin Created, alarm' \in {alarm, Off},
             UNCHANGED <<players, inGame, chooser, word, revealed, rewards, rounds>>,
             \A r \in Revealing \ {p} : index'[r] = index[r] /\ letters'[r] = letters[r]
      PROVE  Calm'
  <2>1. /\ Starting' = Starting \ {p} /\ Created' = Created
        /\ Revealing' = Revealing \ {p} /\ Finishing' = Finishing \ {p}
        /\ Scored' = Scored \ {p} /\ Cleared' = Cleared \ {p} /\ Joining' = Joining \ {p}
    <3>1. at' = [at EXCEPT ![p] = "idle"]
      BY <1>r DEF Return
    <3>2. Created' = Created \ {p}
      BY <1>i, <3>1
    <3>3. Created \ {p} = Created
      BY <1>r
    <3> QED BY <1>i, <3>1, <3>2, <3>3
  <2>2. \A q \in Procs \ {p} : left'[q] = left[q] /\ who'[q] = who[q]
    BY <1>r DEF Return, TypeOK
  <2>3. fault' # "null"
    BY <1>r DEF Return
  <2>4. \A q \in Starting' \cup Revealing' \cup Ending' : q \in Procs \ {p}
    BY <1>r, <2>1 DEF Starting, Revealing, Created, Finishing, AtLabel, Ending
  <2>5. JoinedStay'
    BY <1>r, <2>1 DEF Calm, JoinedStay
  <2> QED BY <1>r, <2>1, <2>2, <2>3, <2>4, <2>5, CalmKept
(* A thread that starts a pause: no other pause, no alarm that is running.  *)
<1>s. ASSUME NEW p \in Procs, Sleep(p, "starting"), fault' # "null",
             Starting = {}, alarm' \in {Off, 0}, inGame' = FALSE, players' = players,
             alarm' # Off => alarm' = alarm,
             p \notin Revealing, Ending \cup Closing \subseteq {p}, Calm,
             rewards' <= rounds'
      PROVE  Calm'
  <2>1. /\ Starting' = {p} /\ Ending' = {} /\ Closing' = {}
        /\ Revealing' = Revealing /\ Joining' \subseteq Joining
    <3>1. at' = [at EXCEPT ![p] = "starting"]
      BY <1>s DEF Sleep
    <3>2. /\ Starting' = Starting \cup {p} /\ Created' = Created \ {p}
          /\ Revealing' = Revealing \ {p} /\ Finishing' = Finishing \ {p}
          /\ Scored' = Scored \ {p} /\ Cleared' = Cleared \ {p} /\ Joining' = Joining \ {p}
      BY <1>m, <1>s, <3>1 DEF Labels
    <3> QED BY <1>s, <3>2 DEF Ending, Closing
  <2>2. left'[p] = SLEEP /\ \A q \in Procs \ {p} : left'[q] = left[q]
    BY <1>s DEF Sleep, TypeOK
  <2>3. OneEnding' /\ OnePause' /\ OneReveal'
    BY <1>s, <2>1 DEF OneEnding, OnePause, OneReveal
  <2>4. \A r \in Revealing : left'[r] = left[r]
    BY <1>s, <2>2 DEF Revealing, AtLabel
  <2>5. RevealsEndFirst'
    BY <1>s, <2>1, <2>2, <2>4 DEF Calm, RevealsEndFirst
  <2>6. RewardsPaid'
    <3>1. rewards' \in Nat /\ rounds' \in Nat
      BY <1>t DEF TypeOK
    <3>2. rewards' <= rounds'
      BY <1>s
    <3>3. ASSUME NEW m \in Nat, NEW n \in Nat, m <= n PROVE m <= n - 0
      BY <3>3
    <3>4. rewards' <= rounds' - 0
      BY <3>1, <3>2, <3>3
    <3>5. inGame' = FALSE
      BY <1>s
    <3> QED BY <3>4, <3>5 DEF RewardsPaid
  <2>7. JoinedStay'
    BY <1>s, <2>1 DEF Calm, JoinedStay
  <2> QED BY <1>s, <2>3, <2>5, <2>6, <2>7 DEF Calm
<1>1. ASSUME NEW t \in Idle, NEW u \in Users, Joined(t, u), Alive PROVE Calm'
  <2>1. /\ t \in Procs /\ at[t] = "idle" /\ at' = [at EXCEPT ![t] = "joined"]
        /\ UNCHANGED <<inGame, chooser, word, revealed, alarm, left, who, index, letters,
                       rewards, rounds, fault, disturbed>>
        /\ players' # {}
    BY <1>0, <1>1 DEF Joined, AtLabel
  <2>2. /\ Starting' = Starting /\ Created' = Created /\ Revealing' = Revealing
        /\ Finishing' = Finishing /\ Scored' = Scored /\ Cleared' = Cleared
    <3>1. t \notin Starting \cup Created \cup Revealing \cup Finishing \cup Scored \cup Cleared
      BY <2>1 DEF Starting, Created, Revealing, Finishing, Scored, Cleared, AtLabel
    <3>2. /\ Starting' = Starting \ {t} /\ Created' = Created \ {t}
          /\ Revealing' = Revealing \ {t} /\ Finishing' = Finishing \ {t}
          /\ Scored' = Scored \ {t} /\ Cleared' = Cleared \ {t}
      BY <1>m, <2>1 DEF Labels
    <3> QED BY <3>1, <3>2
  <2>3. Calm /\ fault' # "null" /\ JoinedStay'
    BY <1>d, <2>1 DEF Calm, JoinedStay
  <2> QED BY <2>1, <2>2, <2>3, CalmKept
<1>j. ASSUME NEW t \in Threads, JoinGoesOn(t), Alive PROVE Calm'
  <2>1. /\ t \in Procs /\ t \notin Revealing /\ t \notin Ending /\ t \notin Created
        /\ t \notin Starting \cup Scored \cup Cleared
    BY <1>0, <1>j DEF JoinGoesOn, Joining, AtLabel, Revealing, Ending, Created, Finishing,
                      Starting, Scored, Cleared
  <2>2. UNCHANGED <<players, inGame, chooser, word, revealed, alarm, index, letters, rewards,
                    rounds>>
    BY <1>j DEF JoinGoesOn
  <2>3. CASE ~inGame /\ Sleep(t, "starting") /\ fault' = fault
              /\ disturbed' = (\/ disturbed \/ alarm \notin {Off, 0}
                               \/ (Starting \cup Scored \cup Cleared) \ {t} # {})
    <3>1. Starting = {} /\ Closing = {} /\ alarm \in {Off, 0} /\ ~disturbed
      BY <2>1, <2>3 DEF Closing
    <3>2. Calm
      BY <3>1 DEF CalmInv
    <3>3. Ending = {} /\ rewards' <= rounds'
      BY <2>2, <2>3, <3>2 DEF Calm, OneEnding, RewardsPaid, TypeOK
    <3>4. /\ inGame' = FALSE /\ fault' # "null" /\ alarm' \in {Off, 0}
          /\ Sleep(t, "starting") /\ alarm' = alarm /\ Ending \cup Closing \subseteq {t}
      BY <1>0, <2>2, <2>3, <3>1, <3>2, <3>3 DEF Calm
    <3> QED BY <1>s, <2>1, <2>2, <3>1, <3>2, <3>3, <3>4
  <2>4. CASE Return(t) /\ disturbed' = disturbed
    BY <1>d, <1>r, <2>1, <2>2, <2>4
  <2> QED BY <1>j, <2>3, <2>4 DEF JoinGoesOn, StartGame
<1>2. ASSUME NEW t \in Idle, NEW u \in Users, Guessed(t, u), Alive PROVE Calm'
  <2>1. t \in Procs /\ t \notin Revealing /\ t \notin Created
    BY <1>0 DEF AtLabel, Revealing, Created
  <2>2. UNCHANGED <<players, inGame, chooser, word, revealed, alarm, index, letters, rewards,
                    rounds>>
    BY <1>2 DEF Guessed
  <2>3. CASE inGame
    <3>1. /\ at' = [at EXCEPT ![t] = "finishing"]
          /\ who' = [who EXCEPT ![t] = u]
          /\ disturbed' = (disturbed \/ Finishing \cup Created # {})
          /\ left' = left /\ fault' = fault
      BY <1>2, <2>3 DEF Guessed, CallFinishGame
    <3>2. Ending = {} /\ Calm /\ Closing = {} /\ Starting = {}
      BY <2>3, <3>1 DEF CalmInv, Ending, Calm, OneEnding, OneReveal
    <3>3. /\ Starting' = Starting \ {t} /\ Created' = Created \ {t}
          /\ Revealing' = Revealing \ {t} /\ Finishing' = Finishing \cup {t}
          /\ Scored' = Scored \ {t} /\ Cleared' = Cleared \ {t} /\ Joining' = Joining \ {t}
      BY <1>m, <2>1, <3>1 DEF Labels
    <3>4. /\ Ending' = {t} /\ Starting' = {} /\ Revealing' = Revealing /\ Created' = Created
          /\ Closing' = {} /\ Joining' \subseteq Joining
      BY <2>1, <3>2, <3>3 DEF Ending, Closing
    <3>5. \A q \in Revealing : who'[q] = who[q]
      BY <2>1, <3>1 DEF TypeOK, Revealing, AtLabel
    <3>6. who'[t] = u
      BY <2>1, <3>1 DEF TypeOK
    <3>7. OneEnding' /\ OnePause'
      BY <2>2, <2>3, <3>4 DEF OneEnding, OnePause
    <3>8. OneReveal'
      BY <2>2, <2>3, <3>2, <3>4, <3>5, <3>6 DEF OneReveal, Calm
    <3>9. RevealsEndFirst' /\ RewardsPaid' /\ JoinedStay'
      BY <2>2, <3>1, <3>2, <3>4 DEF Calm, RevealsEndFirst, RewardsPaid, JoinedStay
    <3> QED BY <3>1, <3>2, <3>7, <3>8, <3>9 DEF Calm
  <2>4. CASE Return(t) /\ disturbed' = disturbed
    BY <1>d, <1>r, <2>1, <2>2, <2>4
  <2> QED BY <1>2, <2>3, <2>4 DEF Guessed, CallFinishGame
<1>3. ASSUME NEW u \in Users, Left(u), Alive PROVE Calm'
  <2>1. /\ disturbed' = (disturbed \/ Joining # {})
        /\ UNCHANGED <<inGame, chooser, word, revealed, alarm, at, left, who, index, letters,
                       rewards, rounds, fault>>
    BY <1>3 DEF Left
  <2>2. Calm /\ Joining = {}
    BY <2>1 DEF CalmInv
  <2>3. /\ Starting' = Starting /\ Created' = Created /\ Revealing' = Revealing
        /\ Finishing' = Finishing /\ Scored' = Scored /\ Cleared' = Cleared
        /\ Joining' = Joining
    BY <2>1, Stays
  <2>4. fault' # "null" /\ JoinedStay'
    BY <2>1, <2>2, <2>3 DEF Calm, JoinedStay
  <2> QED BY <2>1, <2>2, <2>3, <2>4, CalmKept
<1>4. ASSUME NEW u \in Users, Reopened(u), Alive PROVE Calm'
  <2>1. /\ disturbed' = (disturbed \/ Due) /\ inGame' = FALSE /\ players' = {u}
        /\ UNCHANGED <<alarm, at, left, who, index, letters, rewards, rounds, fault>>
    BY <1>4 DEF Reopened, Opened
  <2>2. Calm /\ ~Due
    BY <2>1 DEF CalmInv
  <2>3. /\ Starting' = Starting /\ Created' = Created /\ Revealing' = Revealing
        /\ Finishing' = Finishing /\ Scored' = Scored /\ Cleared' = Cleared
    BY <2>1, Stays
  <2>4. Ending' = {}
    BY <2>2, <2>3 DEF Due, Ending
  <2>5. fault' # "null" /\ JoinedStay'
    BY <2>1, <2>2 DEF Calm, JoinedStay
  <2> QED BY <2>1, <2>2, <2>3, <2>4, <2>5, CalmKept
<1>5. ASSUME NEW u \in Users, NEW w \in Words, NEW r \in Idle, WordChosen(u, w, r), Alive
      PROVE  Calm'
  <2>1. /\ disturbed' = (disturbed \/ Due \/ inGame \/ u # chooser \/ alarm = Off)
        /\ alarm' = Off /\ inGame' = TRUE /\ word' = w
        /\ at' = [at EXCEPT ![r] = "created"]
        /\ who' = [who EXCEPT ![r] = chooser]
        /\ rounds' = rounds + 1
        /\ UNCHANGED <<players, chooser, left, index, letters, rewards, fault>>
    BY <1>5 DEF WordChosen, TakeWord
  <2>2. Calm /\ ~Due /\ ~inGame /\ chooser \in Users /\ alarm # Off
    BY <2>1 DEF CalmInv
  <2>3. Starting = {} /\ Ending = {} /\ Revealing = {} /\ Closing = {}
    BY <2>2 DEF Due, Calm, OnePause, RevealsEndFirst, Ending, Closing
  <2>4. r \in Procs
    BY <1>0
  <2>5. /\ Starting' = Starting \ {r} /\ Created' = Created \cup {r}
        /\ Revealing' = Revealing \ {r} /\ Finishing' = Finishing \ {r}
        /\ Scored' = Scored \ {r} /\ Cleared' = Cleared \ {r} /\ Joining' = Joining \ {r}
    BY <1>m, <2>1, <2>4 DEF Labels
  <2>6. /\ Starting' = {} /\ Created' = {r} /\ Revealing' = {} /\ Ending' = {r} /\ Closing' = {}
        /\ Joining' \subseteq Joining
    BY <2>3, <2>5 DEF Ending, Closing
  <2>7. who'[r] = chooser /\ w \in Nat
    BY <2>1, <2>4 DEF TypeOK
  <2>8. OneEnding' /\ OnePause' /\ RevealsEndFirst'
    BY <2>1, <2>6 DEF OneEnding, OnePause, RevealsEndFirst
  <2>9. OneReveal'
    BY <2>1, <2>2, <2>6, <2>7 DEF OneReveal
  <2>10. RewardsPaid' /\ JoinedStay'
    BY <2>1, <2>2, <2>6 DEF Calm, RewardsPaid, JoinedStay, TypeOK
  <2> QED BY <2>1, <2>2, <2>8, <2>9, <2>10 DEF Calm
<1>6. ASSUME NEW p \in Procs, NameChooser(p), Alive PROVE Calm'
  <2>1. /\ p \in Starting /\ left[p] = 0 /\ Return(p)
        /\ UNCHANGED <<players, inGame, word, revealed, index, letters, rounds, rewards,
                       disturbed>>
    BY <1>6 DEF NameChooser
  <2>2. Calm /\ ~inGame /\ p \notin Created /\ Closing = {}
    BY <2>1, <1>d DEF Calm, OneReveal, OneEnding, Starting, Created, AtLabel
  <2>3. CASE numberOfPlayers <= 1
    <3>1. UNCHANGED <<chooser, alarm>>
      BY <1>0, <1>6, <2>3 DEF NameChooser
    <3> QED BY <1>r, <2>1, <2>2, <3>1
  <2>4. CASE numberOfPlayers > 1
    <3>1. alarm' = ALARM
      BY <1>0, <1>6, <2>4 DEF NameChooser
    <3>0. at' = [at EXCEPT ![p] = "idle"]
      BY <2>1 DEF Return
    <3>2. /\ Starting' = Starting \ {p} /\ Created' = Created \ {p}
          /\ Revealing' = Revealing \ {p} /\ Finishing' = Finishing \ {p}
          /\ Scored' = Scored \ {p} /\ Cleared' = Cleared \ {p} /\ Joining' = Joining \ {p}
      BY <1>i, <3>0
    <3>3. /\ Starting' = {} /\ Ending' = {} /\ Revealing' = Revealing /\ Closing' = {}
          /\ Joining' \subseteq Joining
      <4>1. \A q \in Starting : q = p
        BY <2>1, <2>2 DEF Calm, OnePause
      <4>2. Ending = {}
        BY <2>2 DEF Calm, OneEnding
      <4>3. p \notin Revealing
        BY <2>1 DEF Starting, Revealing, AtLabel
      <4> QED BY <2>2, <3>2, <4>1, <4>2, <4>3 DEF Ending, Closing
    <3>4. \A r \in Revealing : left'[r] = left[r] /\ left[r] = 0
      <4>1. \A r \in Revealing : left[r] \in Nat /\ left[r] <= left[p] /\ r # p
        BY <2>1, <2>2 DEF Calm, RevealsEndFirst, TypeOK, Revealing, Starting, AtLabel
      <4>2. \A r \in Revealing : left'[r] = left[r]
        BY <2>1, <4>1 DEF Return, TypeOK
      <4> QED BY <2>1, <4>1, <4>2
    <3>5. fault' # "null"
      BY <2>1 DEF Return
    <3>6. OneEnding' /\ OnePause' /\ OneReveal'
      BY <2>1, <2>2, <3>3 DEF OneEnding, OnePause, OneReveal
    <3>7. RevealsEndFirst'
      BY <3>3, <3>4 DEF RevealsEndFirst
    <3> QED BY <2>1, <2>2, <3>3, <3>5, <3>6, <3>7 DEF Calm, RewardsPaid, JoinedStay
  <2> QED BY <1>0, <2>3, <2>4
<1>7. ASSUME NEW p \in Procs, ScoreGame(p), Alive PROVE Calm'
  <2>1. /\ p \in Finishing /\ inGame' = FALSE
        /\ rewards' \in {rewards, rewards + 1}
        /\ at' = [at EXCEPT ![p] = "scored"]
        /\ UNCHANGED <<players, alarm, left, index, letters, rounds, fault, disturbed>>
    BY <1>7 DEF ScoreGame
  <2>2. Calm /\ inGame
    BY <1>d, <2>1 DEF Calm, OneEnding, Ending
  <2>3. alarm = Off /\ Starting = {} /\ Closing = {} /\ Ending = {p}
    BY <2>1, <2>2 DEF Calm, OneEnding, OneReveal, Ending, Closing
  <2>4. p \notin Revealing
    BY <2>1 DEF Finishing, Revealing, AtLabel
  <2>5. /\ Starting' = Starting \ {p} /\ Created' = Created \ {p}
        /\ Revealing' = Revealing \ {p} /\ Finishing' = Finishing \ {p}
        /\ Scored' = Scored \cup {p} /\ Cleared' = Cleared \ {p} /\ Joining' = Joining \ {p}
    BY <1>m, <2>1 DEF Labels
  <2>6. /\ Starting' = {} /\ Ending' = {} /\ Revealing' = Revealing /\ Closing' = {p}
        /\ Joining' \subseteq Joining
    BY <2>3, <2>4, <2>5 DEF Ending, Closing
  <2>7. OneEnding' /\ OnePause' /\ OneReveal'
    BY <2>1, <2>3, <2>6 DEF OneEnding, OnePause, OneReveal
  <2>8. RevealsEndFirst' /\ JoinedStay'
    BY <2>1, <2>2, <2>3, <2>6 DEF Calm, RevealsEndFirst, JoinedStay
  <2>9. RewardsPaid'
    BY <2>1, <2>2 DEF Calm, RewardsPaid, TypeOK
  <2> QED BY <2>1, <2>2, <2>7, <2>8, <2>9 DEF Calm
<1>f. ASSUME NEW p \in Procs, ScoreGameFaults(p) PROVE FALSE
  <2>1. /\ p \in Finishing /\ disturbed' = disturbed
        /\ ComparesNull(who[p]) \/ MeasuresNull(who[p])
    BY <1>f DEF ScoreGameFaults
  <2>2. Calm /\ inGame /\ p \in Ending
    BY <1>d, <2>1 DEF Calm, OneEnding, Ending
  <2>3. Created = {}
    BY <2>1, <2>2 DEF Calm, OneEnding, Ending, Created, Finishing, AtLabel
  <2>4. who[p] \in Users /\ chooser \in Users /\ word \in Nat /\ revealed \in Nat
    BY <2>2, <2>3 DEF Calm, OneReveal
  <2> QED BY <2>1, <2>4 DEF ComparesNull, MeasuresNull
<1>c. ASSUME NEW p \in Procs, ClearGame(p), Alive PROVE Calm'
  <2>1. /\ p \in Scored
        /\ at' = [at EXCEPT ![p] = "cleared"]
        /\ UNCHANGED <<players, inGame, alarm, left, index, letters, rewards, rounds, fault,
                       disturbed>>
    BY <1>c DEF ClearGame
  <2>2. Calm /\ ~inGame
    BY <1>d, <2>1 DEF Calm, OneEnding, Closing
  <2>3. alarm = Off /\ Starting = {} /\ Ending = {} /\ Closing = {p}
    BY <2>1, <2>2 DEF Calm, OneEnding, Closing
  <2>4. p \notin Revealing
    BY <2>1 DEF Scored, Revealing, AtLabel
  <2>5. /\ Starting' = Starting \ {p} /\ Created' = Created \ {p}
        /\ Revealing' = Revealing \ {p} /\ Finishing' = Finishing \ {p}
        /\ Scored' = Scored \ {p} /\ Cleared' = Cleared \cup {p} /\ Joining' = Joining \ {p}
    BY <1>m, <2>1 DEF Labels, Scored, AtLabel
  <2>6. /\ Starting' = {} /\ Ending' = {} /\ Revealing' = Revealing /\ Closing' = {p}
        /\ Joining' \subseteq Joining
    BY <2>3, <2>4, <2>5 DEF Ending, Closing
  <2>7. OneEnding' /\ OnePause' /\ OneReveal'
    BY <2>1, <2>2, <2>3, <2>6 DEF OneEnding, OnePause, OneReveal
  <2>8. RevealsEndFirst' /\ JoinedStay' /\ RewardsPaid'
    BY <2>1, <2>2, <2>3, <2>6 DEF Calm, RevealsEndFirst, JoinedStay, RewardsPaid
  <2> QED BY <2>1, <2>2, <2>7, <2>8 DEF Calm
<1>n. ASSUME NEW p \in Procs, NextGame(p), Alive PROVE Calm'
  <2>1. /\ p \in Cleared /\ StartGame(p, inGame, numberOfPlayers)
        /\ UNCHANGED <<players, inGame, chooser, word, revealed, alarm, index, letters, rewards,
                       rounds>>
    BY <1>n DEF NextGame
  <2>2. ~disturbed
    BY <2>1 DEF StartGame
  <2>3. Calm /\ ~inGame
    BY <2>1, <2>2 DEF CalmInv, Calm, OneEnding, Closing
  <2>4. alarm = Off /\ Starting = {} /\ Ending = {} /\ Closing = {p}
    BY <2>1, <2>3 DEF Calm, OneEnding, Closing
  <2>5. p \notin Revealing /\ p \notin Created
    BY <2>1 DEF Cleared, Revealing, Created, AtLabel
  <2>6. CASE Sleep(p, "starting") /\ fault' = fault
    <3>1. rewards' <= rounds' /\ inGame' = FALSE /\ alarm' = Off /\ fault' # "null"
      BY <1>0, <2>1, <2>3, <2>4, <2>6 DEF Calm, RewardsPaid, TypeOK
    <3> QED BY <1>s, <2>1, <2>3, <2>4, <2>5, <2>6, <3>1
  <2>7. CASE Return(p)
    BY <1>r, <2>1, <2>3, <2>5, <2>7
  <2> QED BY <2>1, <2>6, <2>7 DEF StartGame
<1>8. ASSUME NEW t \in Threads, JoinFaults(t) PROVE FALSE
  BY <1>8, <1>d DEF JoinFaults, Calm, JoinedStay
<1>9. ASSUME NEW r \in Threads, RevealBegins(r), Alive PROVE Calm'
  <2>1. /\ r \in Created /\ r \in Procs
        /\ UNCHANGED <<players, inGame, chooser, word, alarm, rewards, rounds, disturbed>>
    BY <1>0, <1>9 DEF RevealBegins
  <2>2. /\ Calm /\ inGame /\ Ending = {r} /\ Revealing \subseteq {r} /\ Starting = {}
        /\ alarm = Off /\ Closing = {}
    BY <2>1, <1>d DEF Calm, OneEnding, OneReveal, Ending
  <2>a. /\ letters' = [letters EXCEPT ![r] = word]
        /\ index' = [index EXCEPT ![r] = 0]
        /\ revealed' = 0 /\ Sleep(r, "revealing")
        /\ UNCHANGED <<who, fault>>
    BY <1>9, <2>2 DEF RevealBegins, FirstLetter
  <2>3. /\ Starting' = Starting \ {r} /\ Created' = Created \ {r}
        /\ Revealing' = Revealing \cup {r} /\ Finishing' = Finishing \ {r}
        /\ Scored' = Scored \ {r} /\ Cleared' = Cleared \ {r} /\ Joining' = Joining \ {r}
    BY <1>m, <2>1, <2>a DEF Sleep, Labels
  <2>4. /\ Starting' = {} /\ Ending' = {} /\ Revealing' = {r} /\ Created' = {} /\ Closing' = {}
        /\ Joining' \subseteq Joining
    BY <2>2, <2>3 DEF Ending, Closing
  <2>5. /\ letters'[r] = word /\ index'[r] = 0 /\ left'[r] = SLEEP /\ who'[r] \in Users
        /\ chooser \in Users /\ word \in Nat
    BY <2>1, <2>2, <2>a DEF TypeOK, Sleep, Calm, OneReveal
  <2>6. OneEnding' /\ OnePause'
    BY <2>4 DEF OneEnding, OnePause
  <2>7. OneReveal'
    BY <2>1, <2>2, <2>a, <2>4, <2>5 DEF OneReveal
  <2>8. RevealsEndFirst'
    BY <2>1, <2>2, <2>4, <2>5 DEF RevealsEndFirst
  <2> QED BY <2>1, <2>2, <2>a, <2>4, <2>6, <2>7, <2>8 DEF Calm, RewardsPaid, JoinedStay
<1>10. ASSUME NEW r \in Threads, RevealBeginFaults(r) PROVE FALSE
  <2>1. /\ r \in Created /\ word = NULL /\ disturbed' = disturbed
    BY <1>10 DEF RevealBeginFaults
  <2>2. word \in Nat
    BY <1>d, <2>1 DEF Calm, OneEnding, OneReveal, Ending
  <2> QED BY <2>1, <2>2
<1>11. ASSUME NEW r \in Threads, RevealStops(r), Alive PROVE Calm'
  <2>1. \A q \in Revealing \ {r} : index'[q] = index[q] /\ letters'[q] = letters[q]
    BY <1>0, <1>11 DEF RevealStops, FreeLetters, TypeOK
  <2>2. r \in Procs /\ r \notin Created
    BY <1>0, <1>11 DEF RevealStops, Revealing, Created, AtLabel
  <2> QED BY <1>11, <1>d, <1>r, <2>1, <2>2 DEF RevealStops
<1>12. ASSUME NEW r \in Threads, RevealLetter(r), Alive PROVE Calm'
  <2>1. /\ r \in Revealing /\ r \in Procs /\ inGame
        /\ index[r] + 1 < letters[r]
        /\ index' = [index EXCEPT ![r] = @ + 1]
        /\ Sleep(r, "revealing")
        /\ UNCHANGED <<players, inGame, chooser, word, alarm, who, letters, rewards, rounds,
                       fault, disturbed>>
    BY <1>0, <1>12 DEF RevealLetter
  <2>2. /\ Calm /\ Revealing \cup Created = {r} /\ Starting = {} /\ alarm = Off
        /\ Closing = {} /\ word \in Nat /\ chooser \in Users
        /\ \A p \in Revealing \cup Ending : who[p] \in Users
        /\ revealed \in Nat /\ index[r] <= revealed /\ letters[r] = word
    BY <2>1, <1>d DEF Calm, OneEnding, OneReveal
  <2>3. /\ Starting' = Starting \ {r} /\ Created' = Created \ {r}
        /\ Revealing' = Revealing \cup {r} /\ Finishing' = Finishing \ {r}
        /\ Scored' = Scored \ {r} /\ Cleared' = Cleared \ {r} /\ Joining' = Joining \ {r}
    BY <1>m, <2>1 DEF Sleep, Labels
  <2>4. /\ Starting' = {} /\ Created' = Created /\ Ending' = Ending
        /\ Revealing' = {r} /\ Created = {} /\ Closing' = {} /\ Joining' \subseteq Joining
    <3>1. r \notin Created /\ r \notin Finishing /\ r \notin Starting
      BY <2>1 DEF Revealing, Created, Finishing, Starting, AtLabel
    <3> QED BY <2>1, <2>2, <2>3, <3>1 DEF Ending, Closing
  <2>5. /\ revealed' \in Nat /\ index'[r] <= revealed' /\ index'[r] < word
        /\ letters'[r] = word /\ left'[r] = SLEEP
    <3>1. index[r] \in Nat
      BY DEF TypeOK
    <3>2. PICK n \in Stray : revealed' = revealed + 1 + n
      BY <1>12 DEF RevealLetter, AppendLetter
    <3>3. index'[r] = index[r] + 1 /\ left'[r] = SLEEP
      BY <1>0, <2>1 DEF TypeOK, Sleep
    <3>4. n \in Nat
      OBVIOUS
    <3> QED BY <2>1, <2>2, <3>1, <3>2, <3>3, <3>4
  <2>6. OneEnding'
    BY <2>1, <2>2, <2>4 DEF Calm, OneEnding
  <2>p. OnePause'
    BY <2>4 DEF OnePause
  <2>7. OneReveal'
    BY <2>1, <2>2, <2>4, <2>5 DEF OneReveal
  <2>8. RevealsEndFirst'
    BY <2>1, <2>2, <2>4, <2>5 DEF RevealsEndFirst
  <2> QED BY <2>1, <2>2, <2>4, <2>6, <2>p, <2>7, <2>8 DEF Calm, RewardsPaid, JoinedStay
<1>13. ASSUME NEW r \in Threads, RevealLast(r), Alive PROVE Calm'
  <2>1. /\ r \in Revealing /\ r \in Procs /\ inGame
        /\ at' = [at EXCEPT ![r] = "finishing"]
        /\ disturbed' = (disturbed \/ Finishing \cup Created # {})
        /\ UNCHANGED <<players, inGame, chooser, word, alarm, left, who, rewards, rounds, fault>>
    BY <1>0, <1>13 DEF RevealLast
  <2>2. /\ Calm /\ Finishing = {} /\ Created = {}
    BY <2>1 DEF CalmInv
  <2>3. /\ Revealing = {r} /\ Starting = {} /\ alarm = Off /\ who[r] \in Users
        /\ chooser \in Users /\ word \in Nat /\ revealed \in Nat /\ Closing = {}
    BY <2>1, <2>2 DEF Calm, OneEnding, OneReveal
  <2>a. revealed' \in Nat
    BY <1>13, <2>3 DEF RevealLast, AppendLetter
  <2>4. /\ Starting' = Starting \ {r} /\ Created' = Created \ {r}
        /\ Revealing' = Revealing \ {r} /\ Finishing' = Finishing \cup {r}
        /\ Scored' = Scored \ {r} /\ Cleared' = Cleared \ {r} /\ Joining' = Joining \ {r}
    BY <1>m, <2>1 DEF Labels
  <2>5. /\ Starting' = {} /\ Created' = {} /\ Revealing' = {} /\ Ending' = {r} /\ Closing' = {}
        /\ Joining' \subseteq Joining
    BY <2>2, <2>3, <2>4 DEF Ending, Closing
  <2>6. OneEnding' /\ OnePause' /\ RevealsEndFirst'
    BY <2>1, <2>3, <2>5 DEF OneEnding, OnePause, RevealsEndFirst
  <2>7. OneReveal'
    BY <2>1, <2>3, <2>a, <2>5 DEF OneReveal
  <2> QED BY <2>1, <2>2, <2>5, <2>6, <2>7 DEF Calm, RewardsPaid, JoinedStay
<1>14. ASSUME NEW r \in Threads, RevealFaults(r) PROVE FALSE
  <2>1. /\ r \in Revealing /\ inGame /\ revealed = NULL /\ disturbed' = disturbed
    BY <1>14 DEF RevealFaults
  <2>2. revealed \in Nat
    BY <1>d, <2>1 DEF Calm, OneReveal
  <2> QED BY <2>1, <2>2
<1>15. ASSUME AlarmRings, Alive PROVE Calm'
  <2>1. /\ alarm = 0 /\ alarm' = Off /\ at[Main] = "idle"
        /\ UNCHANGED <<players, inGame, chooser, word, revealed, index, letters, rewards, rounds>>
    BY <1>15 DEF AlarmRings
  <2>2. Main \notin Revealing /\ Main \notin Created
    BY <2>1 DEF Revealing, Created, AtLabel
  <2>3. CASE inGame
    <3>1. ~disturbed
      BY <1>15, <2>3 DEF AlarmRings, CallFinishGame
    <3> QED BY <2>1, <2>3, <3>1 DEF CalmInv, Calm, OneReveal
  <2>4. CASE ~inGame
    <3>1. StartGame(Main, inGame, numberOfPlayers)
      BY <1>15, <2>4 DEF AlarmRings
    <3>0. ~disturbed
      BY <3>1 DEF StartGame
    <3>2. Calm
      BY <3>0 DEF CalmInv
    <3>3. CASE Return(Main)
      BY <1>0, <1>r, <2>1, <2>2, <3>2, <3>3
    <3>4. CASE /\ Sleep(Main, "starting") /\ fault' = fault
               /\ disturbed' = (\/ disturbed \/ alarm \notin {Off, 0}
                                \/ (Starting \cup Scored \cup Cleared) \ {Main} # {})
      <4>1. Ending = {} /\ rewards' <= rounds' /\ Closing = {}
        BY <2>1, <2>4, <3>2 DEF Calm, OneEnding, RewardsPaid, TypeOK
      <4>2. Starting = {}
        BY <2>1, <3>4 DEF Starting, AtLabel
      <4>3. inGame' = FALSE /\ fault' # "null"
        BY <1>0, <2>1, <2>4, <3>2, <3>4 DEF Calm
      <4> QED BY <1>0, <1>s, <2>1, <2>2, <3>2, <3>4, <4>1, <4>2, <4>3
    <3> QED BY <3>1, <3>3, <3>4 DEF StartGame
  <2> QED BY <2>3, <2>4
<1>16. ASSUME Tick PROVE Calm'
  <2>1. /\ ~Due /\ alarm' = IF alarm = Off THEN Off ELSE alarm - 1
        /\ left' = [p \in Procs |-> IF p \in Asleep THEN left[p] - 1 ELSE left[p]]
        /\ UNCHANGED <<players, inGame, chooser, word, revealed, at, who, index, letters, rewards,
                       rounds, fault, disturbed>>
    BY <1>16 DEF Tick
  <2>2. /\ Starting' = Starting /\ Created' = Created /\ Revealing' = Revealing
        /\ Finishing' = Finishing /\ Scored' = Scored /\ Cleared' = Cleared
        /\ Joining' = Joining /\ Calm
    BY <2>1, <1>d, Stays
  <2>3. /\ Ending = {} /\ Closing = {} /\ alarm # 0
        /\ \A p \in Starting \cup Revealing : left[p] # 0
    BY <2>1 DEF Due, Ending, Closing
  <2>4. \A p \in Starting \cup Revealing : left[p] \in Nat /\ left'[p] = left[p] - 1
    BY <2>1 DEF Asleep, Starting, Revealing, AtLabel, TypeOK
  <2>5. OneEnding' /\ OneReveal'
    BY <2>1, <2>2, <2>3 DEF Calm, OneEnding, OneReveal, Ending, Closing
  <2>6. OnePause'
    BY <2>1, <2>2, <2>3 DEF Calm, OnePause
  <2>7. RevealsEndFirst'
    <3>1. alarm' # Off => \A r \in Revealing' : left'[r] = 0
      BY <2>1, <2>2, <2>3 DEF Calm, RevealsEndFirst
    <3>2. \A p \in Starting', r \in Revealing' : left'[r] <= left'[p]
      BY <2>2, <2>4 DEF Calm, RevealsEndFirst
    <3>3. \A r \in Revealing' : left'[r] <= SLEEP
      BY <2>2, <2>4 DEF Calm, RevealsEndFirst
    <3> QED BY <3>1, <3>2, <3>3 DEF RevealsEndFirst
  <2> QED BY <2>1, <2>2, <2>5, <2>6, <2>7 DEF Calm, RewardsPaid, JoinedStay
<1>17. ASSUME UNCHANGED vars PROVE Calm'
  BY <1>17, <1>d, Stays DEF vars, Calm, OneEnding, OnePause, OneReveal, RevealsEndFirst,
     RewardsPaid, JoinedStay, Ending, Closing
<1> QED
  BY <1>1, <1>j, <1>2, <1>3, <1>4, <1>5, <1>6, <1>7, <1>f, <1>c, <1>n, <1>8, <1>9, <1>10, <1>11,
     <1>12, <1>13, <1>14, <1>15, <1>16, <1>17
     DEF Next, Dead, Client, Disconnected, Server, Runs, WordUnstarted

LEMMA CalmCorrect == Spec => [](TypeOK /\ MainInv /\ CalmInv)
<1>1. Init => CalmInv
  <2> SUFFICES ASSUME Init PROVE Calm
    BY DEF CalmInv
  <2>1. /\ Starting = {} /\ Created = {} /\ Revealing = {} /\ Finishing = {}
        /\ Scored = {} /\ Cleared = {} /\ Joining = {}
    BY DEF Init, Starting, Created, Revealing, Finishing, Scored, Cleared, Joining, AtLabel
  <2> QED BY <2>1 DEF Init, Calm, OneEnding, OnePause, OneReveal, RevealsEndFirst, RewardsPaid,
                      JoinedStay, Ending, Closing
<1>2. TypeOK /\ MainInv /\ CalmInv /\ [Next]_vars => CalmInv'
  BY CalmStep
<1> QED BY <1>1, <1>2, TypeCorrect, MainInvCorrect, PTL DEF Spec

(* While a game is on its word is there to be measured, as long as nothing  *)
(* has disturbed the round.                                                 *)
THEOREM RoundHasWordCorrect == Spec => []RoundHasWord
<1>1. CalmInv => RoundHasWord
  BY GameAssumption DEF CalmInv, Calm, OneReveal, RoundHasWord
<1> QED BY <1>1, CalmCorrect, PTL

LEMMA CalmImplies == ASSUME TypeOK, MainInv, CalmInv PROVE CalmRound /\ RewardedOnce
<1> SUFFICES ASSUME ~disturbed PROVE CalmRound /\ RewardedOnce
  BY DEF CalmRound, RewardedOnce
<1>1. Calm
  BY DEF CalmInv
<1>2. RewardedOnce
  BY <1>1 DEF Calm, RewardsPaid, RewardedOnce
<1>3. ASSUME inGame PROVE Cardinality(Revealing \cup Created) <= 1
  <2>1. \A p, q \in Revealing \cup Created : p = q
    BY <1>1, <1>3 DEF Calm, OneReveal
  <2>2. CASE Revealing \cup Created = {}
    BY <2>2, FS_EmptySet
  <2>3. CASE Revealing \cup Created # {}
    <3>1. PICK p : Revealing \cup Created = {p}
      BY <2>1, <2>3
    <3>2. Cardinality({p}) = 1
      BY FS_Singleton
    <3> QED BY <3>1, <3>2
  <2> QED BY <2>2, <2>3
<1>4. ASSUME inGame, NEW r \in Revealing
      PROVE  revealed \in Nat /\ revealed >= index[r] /\ (index[r] < word \/ word = 0)
  <2>1. /\ revealed \in Nat /\ index[r] <= revealed /\ (index[r] < word \/ word = 0)
    BY <1>1, <1>4 DEF Calm, OneReveal
  <2>2. index[r] \in Nat
    <3>1. r \in Threads
      BY DEF MainInv, Revealing, AtLabel, Procs
    <3> QED BY <3>1 DEF TypeOK
  <2> QED BY <2>1, <2>2
<1> QED BY <1>1, <1>2, <1>3, <1>4 DEF Calm, CalmRound

(* As long as no two threads are at work on one round, no null pointer is   *)
(* used and a round has one reveal thread, which keeps within the word.     *)
THEOREM CalmRoundCorrect == Spec => []CalmRound
<1>1. TypeOK /\ MainInv /\ CalmInv => CalmRound
  BY CalmImplies
<1> QED BY <1>1, CalmCorrect, PTL

(* As long as no two threads are at work on one round, a chosen word        *)
(* rewards at most one player.                                              *)
THEOREM RewardedOnceCorrect == Spec => []RewardedOnce
<1>1. TypeOK /\ MainInv /\ CalmInv => RewardedOnce
  BY CalmImplies
<1> QED BY <1>1, CalmCorrect, PTL
=============================================================================
