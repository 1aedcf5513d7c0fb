-------------------------------- MODULE Game --------------------------------
(***************************************************************************)
(* The rounds of one room, handle_room.c: start_game, finish_game,         *)
(* reveal_letters, alarm_handler and the datagram callback cb.             *)
(*                                                                         *)
(* What a thread does between two points where others can usefully come in *)
(* is one step: those points are the sleeps of 15 seconds, the start of a  *)
(* created thread, the count of a JOINED and its test for the second       *)
(* player, and in finish_game the test of inGame, the scoring, the clearing *)
(* and start_game. Time advances in ticks: sleep(15) and alarm(35) count   *)
(* down, and time stands still while finish_game runs or a sleep is over.  *)
(*                                                                         *)
(* players is the set of the users who play: the status, which is written  *)
(* and never read, is left out, and so are the score (Scoring) and the     *)
(* records with their order (Members).                                     *)
(***************************************************************************)
EXTENDS Integers, FiniteSets

CONSTANTS
  Users,       (* users of the app                                          *)
  Words,       (* lengths of the words the app may send in WORD_CHOSEN      *)
  Threads,     (* callback and reveal threads alive at once (bounds a run)  *)
  Main,        (* the main thread, on which Linux runs alarm_handler        *)
  Stray,       (* bytes strcat may copy beyond the char it is pointed to    *)
  MaxPlayers,  (* players a room takes (bounds a run)                       *)
  MaxRounds,   (* WORD_CHOSEN datagrams sent (bounds a run)                 *)
  SLEEP,       (* ticks of the sleep(15) of start_game and reveal_letters   *)
  ALARM,       (* ticks of the alarm(35) of start_game                      *)
  NULL,        (* the null pointer                                          *)
  Off          (* no alarm is pending                                       *)

ASSUME GameAssumption ==
  /\ SLEEP \in Nat \ {0} /\ ALARM \in Nat /\ SLEEP < ALARM
  /\ MaxPlayers \in Nat /\ MaxRounds \in Nat
  /\ Words \subseteq Nat /\ Stray \subseteq Nat
  /\ Main \notin Threads
  /\ NULL \notin Users /\ NULL \notin Nat /\ Off \notin Nat

VARIABLES
  players,   (* the users in room->players[0 .. numberOfPlayers - 1]        *)
  inGame,
  chooser,   (* room->chooser: a user or NULL                               *)
  word,      (* strlen of room->word and room->mixedletters, or NULL        *)
  revealed,  (* strlen of room->revealedletters, or NULL                    *)
  alarm,     (* ticks until SIGALRM, or Off                                 *)
  at,        (* where each thread is                                        *)
  left,      (* ticks left of its sleep                                     *)
  who,       (* the username finish_game or reveal_letters was given        *)
  letters,   (* reveal_letters: strlen of its copy mixedletters             *)
  index,     (* reveal_letters: the next letter                             *)
  freed,     (* reveal threads that have freed mixedletters once            *)
  asked,     (* users whose app has received NEW_CHOOSER (environment)      *)
  rounds,    (* WORD_CHOSEN datagrams so far (bound)                        *)
  rewards,   (* history: scores finish_game has given while not disturbed   *)
  unlisted,  (* close_room has taken the room off the list with its players *)
  fault,     (* none, or why the process has died: null (no address of      *)
             (* anything) or free                                           *)
  crowded,   (* history: a JOINED was counted between the count and the     *)
             (* test of another                                             *)
  disturbed  (* history: two threads were at work on one round or pause, a  *)
             (* player left under a JOINED, or a round got no reveal thread *)

Procs == Threads \cup {Main}
room == <<players, inGame, chooser, word, revealed>>
revealVars == <<letters, index>>
historyVars == <<asked, rounds, rewards>>
vars == <<room, alarm, at, left, who, revealVars, freed, historyVars,
          unlisted, fault, crowded, disturbed>>

numberOfPlayers == Cardinality(players)
AtLabel(l) == {p \in Procs : at[p] = l}
Starting == AtLabel("starting")     (* asleep in start_game                 *)
Revealing == AtLabel("revealing")   (* asleep in reveal_letters             *)
Created == AtLabel("created")       (* reveal_letters has not run yet       *)
Finishing == AtLabel("finishing")   (* in finish_game, inGame found true    *)
Scored == AtLabel("scored")         (* in finish_game, inGame made false    *)
Cleared == AtLabel("cleared")       (* in finish_game, the word is gone     *)
Joining == AtLabel("joined")        (* in JOINED, the player is counted     *)
Idle == AtLabel("idle") \ {Main}

(* A thread is ready to run, or the signal is due. *)
Due == \/ Created \cup Finishing \cup Scored \cup Cleared # {}
       \/ \E p \in Starting \cup Revealing : left[p] = 0
       \/ alarm = 0

(* NEW_ROOM: the creator is the only player; handle_room clears the rest. *)
Opened(u) == {u}

Init ==
  /\ \E u \in Users : players = Opened(u)
  /\ inGame = FALSE
  /\ chooser = NULL
  /\ word = NULL
  /\ revealed = NULL
  /\ alarm = Off
  /\ at = [p \in Procs |-> "idle"]
  /\ left = [p \in Procs |-> 0]
  /\ who = [p \in Procs |-> NULL]
  /\ letters = [t \in Threads |-> 0]
  /\ index = [t \in Threads |-> 0]
  /\ freed = {}
  /\ asked = {}
  /\ rounds = 0
  /\ rewards = 0
  /\ unlisted = FALSE
  /\ fault = "none"
  /\ crowded = FALSE
  /\ disturbed = FALSE

-----------------------------------------------------------------------------
(* start_game and finish_game, called by thread p. *)

Sleep(p, label) ==
  /\ at' = [at EXCEPT ![p] = label]
  /\ left' = [left EXCEPT ![p] = SLEEP]

(* What p was executing ends. A reveal thread that has freed mixedletters   *)
(* frees it again, which aborts the process unless the allocator has given  *)
(* the block to another owner meanwhile.                                    *)
Return(p) ==
  /\ at' = [at EXCEPT ![p] = "idle"]
  /\ left' = [left EXCEPT ![p] = 0]
  /\ who' = [who EXCEPT ![p] = NULL]
  /\ freed' = freed \ {p}
  /\ fault' \in IF p \in freed THEN {"none", "free"} ELSE {"none"}

(* Mutant of Enough: off by one. *)
MoreThanEnough(n) == n > 2

(* A game needs two players. *)
Enough(n) == n > 1

(* start_game up to its sleep, in a room with n players. *)
StartGame(p, playing, n) ==
  \/ /\ ~playing /\ Enough(n)
     /\ Sleep(p, "starting")
     /\ disturbed' = \/ disturbed \/ alarm \notin {Off, 0}
                     \/ (Starting \cup Scored \cup Cleared) \ {p} # {}
     /\ who' = [who EXCEPT ![p] = NULL]
     /\ UNCHANGED <<freed, fault>>
  \/ /\ playing \/ ~Enough(n)
     /\ Return(p)
     /\ UNCHANGED disturbed

(* Mutants: the alarm is forgotten, or goes off before start_game could     *)
(* have slept again.                                                        *)
LeaveAlarm == alarm' = alarm
SetAlarmSoon == alarm' = SLEEP - 1

(* alarm(35) replaces the alarm that is pending, if any. *)
SetAlarm == alarm' = ALARM

(* start_game after its sleep: inGame is not looked at again. The app is    *)
(* told by a datagram, which may be lost.                                   *)
NameChooser(p) ==
  /\ p \in Starting /\ left[p] = 0
  /\ \/ /\ Enough(numberOfPlayers)
        /\ \E u \in players :
             /\ chooser' = u
             /\ asked' \in {asked, asked \cup {u}}
        /\ SetAlarm
     \/ /\ ~Enough(numberOfPlayers)
        /\ UNCHANGED <<chooser, asked, alarm>>
  /\ Return(p)
  /\ UNCHANGED <<players, inGame, word, revealed, revealVars, rounds, rewards,
                 unlisted, crowded, disturbed>>

(* Mutant of CallFinishGame: inGame is not tested. *)
CallFinishGameAlways(p, u) ==
  /\ at' = [at EXCEPT ![p] = "finishing"]
  /\ who' = [who EXCEPT ![p] = u]
  /\ disturbed' = (disturbed \/ Finishing \cup Created # {})
  /\ UNCHANGED <<left, freed, fault>>

(* finish_game(u) finds inGame true, or returns. *)
CallFinishGame(p, u) ==
  \/ /\ inGame
     /\ at' = [at EXCEPT ![p] = "finishing"]
     /\ who' = [who EXCEPT ![p] = u]
     /\ disturbed' = (disturbed \/ Finishing \cup Created # {})
     /\ UNCHANGED <<left, freed, fault>>
  \/ /\ ~inGame
     /\ Return(p)
     /\ UNCHANGED disturbed

(* strcmp() of a player's name with username, or of chooser with it. *)
ComparesNull(u) == \/ u = NULL /\ players # {}
                   \/ u \in players /\ chooser = NULL

(* strlen() of the word, or of the letters revealed to a guesser. *)
MeasuresNull(u) == /\ u \in players
                   /\ word = NULL \/ (u # chooser /\ revealed = NULL)

(* inGame is cleared, and only if the user is still a player are points     *)
(* given.                                                                   *)
ScoreGame(p) ==
  /\ p \in Finishing
  /\ ~ComparesNull(who[p]) /\ ~MeasuresNull(who[p])
  /\ inGame' = FALSE
  /\ rewards' = IF who[p] \in players /\ ~disturbed THEN rewards + 1 ELSE rewards
  /\ at' = [at EXCEPT ![p] = "scored"]
  /\ UNCHANGED <<players, chooser, word, revealed, alarm, left, who, revealVars,
                 freed, asked, rounds, unlisted, fault, crowded, disturbed>>

ScoreGameFaults(p) ==
  /\ p \in Finishing
  /\ ComparesNull(who[p]) \/ MeasuresNull(who[p])
  /\ inGame' = FALSE
  /\ fault' = "null"
  /\ UNCHANGED <<players, chooser, word, revealed, alarm, at, left, who,
                 revealVars, freed, historyVars, unlisted, crowded, disturbed>>

(* The second critical section; inGame is not looked at again. *)
ClearGame(p) ==
  /\ p \in Scored
  /\ chooser' = NULL
  /\ word' = NULL
  /\ revealed' = NULL
  /\ at' = [at EXCEPT ![p] = "cleared"]
  /\ UNCHANGED <<players, inGame, alarm, left, who, revealVars, freed,
                 historyVars, unlisted, fault, crowded, disturbed>>

(* The pause before the next round. *)
NextGame(p) ==
  /\ p \in Cleared
  /\ StartGame(p, inGame, numberOfPlayers)
  /\ UNCHANGED <<room, alarm, revealVars, historyVars, unlisted, crowded>>

-----------------------------------------------------------------------------
(* The callback cb, one thread t per datagram. *)

(* SERVER_NOTIFICATION, JOINED: the player is counted. *)
Joined(t, u) ==
  /\ numberOfPlayers < MaxPlayers
  /\ u \notin players
  /\ players' = players \cup {u}
  /\ at' = [at EXCEPT ![t] = "joined"]
  /\ crowded' = (crowded \/ Joining # {})
  /\ UNCHANGED <<inGame, chooser, word, revealed, alarm, left, who, revealVars,
                 freed, historyVars, unlisted, fault, disturbed>>

(* Then the players are counted again: the second one starts the game. *)
JoinGoesOn(t) ==
  /\ t \in Joining
  /\ players # {}
  /\ \/ /\ ~inGame /\ numberOfPlayers = 2
        /\ StartGame(t, inGame, numberOfPlayers)
     \/ /\ inGame \/ numberOfPlayers # 2
        /\ Return(t)
        /\ UNCHANGED disturbed
  /\ UNCHANGED <<room, alarm, revealVars, historyVars, unlisted, crowded>>

(* The status of players[-1] is set: all have left under this JOINED. *)
JoinFaults(t) ==
  /\ t \in Joining
  /\ players = {}
  /\ fault' = "null"
  /\ UNCHANGED <<room, alarm, at, left, who, revealVars, freed, historyVars,
                 unlisted, crowded, disturbed>>

(* SERVER_NOTIFICATION, LEFT. For the chooser of a game that is on, cb calls *)
(* start_game, which does nothing because a game is on.                      *)
Left(u) ==
  /\ u \in players
  /\ players' = players \ {u}
  /\ disturbed' = (disturbed \/ Joining # {})
  /\ UNCHANGED <<inGame, chooser, word, revealed, alarm, at, left, who,
                 revealVars, freed, historyVars, unlisted, fault, crowded>>

(* handle_client at end of file removes the player just so; the LEFT it     *)
(* sends is not looped back to this process.                                *)
Disconnected(u) == Left(u)

(* SERVER_MESSAGE with isGuessed, of a user who is not the chooser. *)
Guessed(t, u) ==
  /\ u # chooser
  /\ CallFinishGame(t, u)
  /\ UNCHANGED <<room, alarm, revealVars, historyVars, unlisted, crowded>>

(* Mutant of TakeWord: the word of the datagram is not stored. *)
TakeWordForgotten(u, w) ==
  /\ rounds < MaxRounds
  /\ u \in asked
  /\ alarm' = Off
  /\ inGame' = TRUE
  /\ asked' = asked \ {u}
  /\ rounds' = rounds + 1
  /\ UNCHANGED <<players, chooser, word, revealed, rewards>>

(* WORD_CHOSEN, from an app that has been asked. Bound: MaxRounds. *)
TakeWord(u, w) ==
  /\ rounds < MaxRounds
  /\ u \in asked
  /\ alarm' = Off
  /\ word' = w
  /\ inGame' = TRUE
  /\ asked' = asked \ {u}
  /\ rounds' = rounds + 1
  /\ UNCHANGED <<players, chooser, revealed, rewards>>

(* reveal_letters is created as thread r, for the user chooser holds. *)
WordChosen(u, w, r) ==
  /\ TakeWord(u, w)
  /\ at' = [at EXCEPT ![r] = "created"]
  /\ who' = [who EXCEPT ![r] = chooser]
  /\ disturbed' = (disturbed \/ Due \/ inGame \/ u # chooser \/ alarm = Off)
  /\ UNCHANGED <<left, revealVars, freed, unlisted, fault, crowded>>

(* pthread_create fails: the game is on, and the room is closed around it. *)
WordUnstarted(u, w) ==
  /\ TakeWord(u, w)
  /\ unlisted' = TRUE
  /\ disturbed' = TRUE
  /\ UNCHANGED <<at, left, who, revealVars, freed, fault, crowded>>

-----------------------------------------------------------------------------
(* reveal_letters and alarm_handler. *)

(* Mutant of FirstLetter: one too low. *)
BeforeFirstLetter == -1

FirstLetter == 0

(* The copy of mixedletters, an empty revealedletters, and the first sleep  *)
(* unless the game is over already.                                         *)
RevealBegins(r) ==
  /\ r \in Created
  /\ word # NULL
  /\ revealed' = 0
  /\ \/ /\ inGame
        /\ letters' = [letters EXCEPT ![r] = word]
        /\ index' = [index EXCEPT ![r] = FirstLetter]
        /\ Sleep(r, "revealing")
        /\ UNCHANGED <<who, freed, fault>>
     \/ /\ ~inGame
        /\ Return(r)
        /\ UNCHANGED <<letters, index>>
  /\ UNCHANGED <<players, inGame, chooser, word, alarm, historyVars, unlisted,
                 crowded, disturbed>>

(* strlen(room->mixedletters) after a finish_game has cleared it. *)
RevealBeginFaults(r) ==
  /\ r \in Created
  /\ word = NULL
  /\ fault' = "null"
  /\ UNCHANGED <<room, alarm, at, left, who, revealVars, freed, historyVars,
                 unlisted, crowded, disturbed>>

FreeLetters(r) == /\ letters' = [letters EXCEPT ![r] = 0]
                  /\ index' = [index EXCEPT ![r] = 0]

(* Mutant of RevealStops: the thread does not look at inGame and sleeps on. *)
RevealSleepsOn(r) ==
  /\ r \in Revealing /\ left[r] = 0
  /\ ~inGame
  /\ Sleep(r, "revealing")
  /\ UNCHANGED <<room, alarm, who, revealVars, freed, historyVars, unlisted,
                 fault, crowded, disturbed>>

(* The sleep ends and no game is on: the thread ends. *)
RevealStops(r) ==
  /\ r \in Revealing /\ left[r] = 0
  /\ ~inGame
  /\ Return(r)
  /\ FreeLetters(r)
  /\ UNCHANGED <<room, alarm, historyVars, unlisted, crowded, disturbed>>

(* One more letter is appended; temp is not a string, so that strcat goes   *)
(* on with whatever follows it.                                             *)
AppendLetter == \E n \in Stray : revealed' = revealed + 1 + n

(* The sleep ends in a game: one more letter, and another sleep. *)
RevealLetter(r) ==
  /\ r \in Revealing /\ left[r] = 0
  /\ inGame /\ revealed # NULL
  /\ index[r] + 1 < letters[r]
  /\ AppendLetter
  /\ index' = [index EXCEPT ![r] = @ + 1]
  /\ Sleep(r, "revealing")
  /\ UNCHANGED <<players, inGame, chooser, word, alarm, who, letters, freed,
                 historyVars, unlisted, fault, crowded, disturbed>>

(* Mutant of RevealLast: the thread ends without finish_game. *)
RevealLastEnds(r) ==
  /\ r \in Revealing /\ left[r] = 0
  /\ inGame /\ revealed # NULL
  /\ index[r] + 1 >= letters[r]
  /\ FreeLetters(r)
  /\ Return(r)
  /\ UNCHANGED <<room, alarm, historyVars, unlisted, crowded, disturbed>>

(* The sleep ends in a game and the last letter goes out, if there is any:  *)
(* the copy is freed and the game finished for the user who chose the word. *)
RevealLast(r) ==
  /\ r \in Revealing /\ left[r] = 0
  /\ inGame
  /\ revealed # NULL \/ letters[r] = 0
  /\ index[r] + 1 >= letters[r]
  /\ IF letters[r] = 0 THEN UNCHANGED revealed ELSE AppendLetter
  /\ FreeLetters(r)
  /\ at' = [at EXCEPT ![r] = "finishing"]
  /\ freed' = freed \cup {r}
  /\ disturbed' = (disturbed \/ Finishing \cup Created # {})
  /\ UNCHANGED <<players, inGame, chooser, word, alarm, left, who,
                 historyVars, unlisted, fault, crowded>>

(* strcat() before the reveal thread of this round has set revealedletters. *)
RevealFaults(r) ==
  /\ r \in Revealing /\ left[r] = 0
  /\ inGame /\ revealed = NULL
  /\ letters[r] > 0
  /\ fault' = "null"
  /\ UNCHANGED <<room, alarm, at, left, who, revealVars, freed, historyVars,
                 unlisted, crowded, disturbed>>

(* SIGALRM, handled on the main thread. *)
AlarmRings ==
  /\ alarm = 0
  /\ at[Main] = "idle"
  /\ alarm' = Off
  /\ \/ /\ inGame
        /\ CallFinishGame(Main, chooser)
     \/ /\ ~inGame
        /\ StartGame(Main, inGame, numberOfPlayers)
  /\ UNCHANGED <<room, revealVars, historyVars, unlisted, crowded>>

-----------------------------------------------------------------------------
(* handle_room and handle_client: the room has closed, empty or not, and    *)
(* its slot of rooms[] is taken by a new one, whatever threads of the old   *)
(* one are left.                                                            *)
Reopened(u) ==
  /\ players = {} \/ unlisted
  /\ players' = Opened(u)
  /\ inGame' = FALSE
  /\ chooser' = NULL
  /\ word' = NULL
  /\ revealed' = NULL
  /\ unlisted' = FALSE
  /\ disturbed' = (disturbed \/ Due)
  /\ UNCHANGED <<alarm, at, left, who, revealVars, freed, historyVars, fault,
                 crowded>>

Asleep == Starting \cup Revealing

Tick ==
  /\ ~Due
  /\ alarm # Off \/ Asleep # {}
  /\ alarm' = IF alarm = Off THEN Off ELSE alarm - 1
  /\ left' = [p \in Procs |-> IF p \in Asleep THEN left[p] - 1 ELSE left[p]]
  /\ UNCHANGED <<room, at, who, revealVars, freed, historyVars, unlisted,
                 fault, crowded, disturbed>>

Client ==
  \/ \E t \in Idle, u \in Users : Joined(t, u) \/ Guessed(t, u)
  \/ \E u \in Users : Left(u) \/ Disconnected(u) \/ Reopened(u)
  \/ \E u \in Users, w \in Words :
       WordUnstarted(u, w) \/ \E r \in Idle : WordChosen(u, w, r)

(* The steps of a thread that is ready, of main too, and of a callback or   *)
(* reveal thread only.                                                      *)
Runs(p) ==
  \/ NameChooser(p)
  \/ ScoreGame(p) \/ ScoreGameFaults(p) \/ ClearGame(p) \/ NextGame(p)
  \/ /\ p \in Threads
     /\ \/ JoinGoesOn(p) \/ JoinFaults(p)
        \/ RevealBegins(p) \/ RevealBeginFaults(p)
        \/ RevealStops(p) \/ RevealLetter(p) \/ RevealLast(p) \/ RevealFaults(p)

Server == (\E p \in Procs : Runs(p)) \/ AlarmRings

Alive == fault = "none"

(* A process that has died takes no step. *)
Dead == ~Alive /\ UNCHANGED vars

Next == \/ Alive /\ (Client \/ Server \/ Tick)
        \/ Dead

(* Every ready thread runs and time passes; nothing makes a client act. *)
Spec == /\ Init /\ [][Next]_vars
        /\ \A p \in Procs : WF_vars(Alive /\ Runs(p))
        /\ WF_vars(Alive /\ AlarmRings)
        /\ WF_vars(Alive /\ Tick)

-----------------------------------------------------------------------------
(* Every variable of the room and of its threads keeps its type in every    *)
(* behaviour of handle_room.c.                                              *)
TypeOK ==
  /\ players \in SUBSET Users /\ IsFiniteSet(players)
  /\ inGame \in BOOLEAN
  /\ chooser \in Users \cup {NULL}
  /\ word \in Nat \cup {NULL}
  /\ revealed \in Nat \cup {NULL}
  /\ alarm \in Nat \cup {Off}
  /\ at \in [Procs -> {"idle", "joined", "starting", "created", "revealing",
                       "finishing", "scored", "cleared"}]
  /\ left \in [Procs -> Nat]
  /\ who \in [Procs -> Users \cup {NULL}]
  /\ letters \in [Threads -> Nat]
  /\ index \in [Threads -> Nat]
  /\ freed \in SUBSET Threads
  /\ asked \in SUBSET Users
  /\ rounds \in Nat
  /\ rewards \in Nat
  /\ unlisted \in BOOLEAN
  /\ fault \in {"none", "null", "free"}
  /\ crowded \in BOOLEAN
  /\ disturbed \in BOOLEAN

(* A room with two players or more is not forgotten between rounds, unless  *)
(* two JOINED were counted at once: a pause of start_game is under way or   *)
(* about to be, by the finish_game that goes on or by the JOINED of the     *)
(* second player, or the alarm will start another one.                      *)
NotStalled ==
  (Alive /\ ~crowded /\ ~inGame /\ numberOfPlayers > 1) =>
    \/ alarm # Off
    \/ Starting \cup Scored \cup Cleared # {}
    \/ Joining # {} /\ numberOfPlayers = 2

(* While a game is on, some reveal_letters thread is left that will end it, *)
(* whoever has left the room, unless pthread_create has failed for the      *)
(* thread of a round and cb has closed the room.                            *)
RoundWillEnd ==
  (Alive /\ inGame) => Revealing \cup Created \cup Finishing # {} \/ unlisted

(* While a game is on its word is there to be measured, unless two threads  *)
(* were at work on one round: a finish_game that has cleared inGame clears  *)
(* the word of a WORD_CHOSEN that comes before its second section.          *)
RoundHasWord == (inGame /\ ~disturbed) => word # NULL

(* The signal never arrives while its handler still sleeps on main, where   *)
(* the kernel would hand it to some other thread of the process.            *)
AlarmFindsMainIdle == alarm = 0 => at[Main] = "idle"

(* Unless two threads were at work on one round, no null pointer is ever    *)
(* used, a round has one reveal thread, which has revealed at least what it *)
(* has counted and counts less than the word has letters, if it has any.    *)
CalmRound ==
  ~disturbed =>
    /\ fault # "null"
    /\ inGame => Cardinality(Revealing \cup Created) <= 1
    /\ inGame => \A r \in Revealing : /\ revealed \in Nat /\ revealed >= index[r]
                                      /\ index[r] < word \/ word = 0

(* Unless two threads were at work on one round, a chosen word rewards at   *)
(* most one player, and none before its game ends.                          *)
RewardedOnce ==
  ~disturbed => rewards <= rounds - (IF inGame THEN 1 ELSE 0)

(* A game that is on ends, though nobody guesses and everybody leaves,      *)
(* unless pthread_create has failed for the thread of a round.              *)
GamesEnd == inGame ~> (~inGame \/ ~Alive \/ unlisted)

(* A room that keeps two players is given a chooser and its alarm again and *)
(* again until a game is on, whatever NEW_CHOOSER is lost, unless two       *)
(* JOINED were counted at once. Only the naming of a chooser sets the alarm *)
(* to ALARM, and no tick leaves it there.                                   *)
ChooserNamed ==
  (numberOfPlayers > 1 /\ ~inGame)
    ~> (alarm = ALARM \/ inGame \/ numberOfPlayers <= 1 \/ crowded \/ ~Alive)
=============================================================================
