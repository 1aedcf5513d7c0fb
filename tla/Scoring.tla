------------------------------ MODULE Scoring ------------------------------
(***************************************************************************)
(* The points finish_game of handle_room.c gives to a player of the room:  *)
(* as chooser when every letter has been revealed, as guesser before that. *)
(* strcat() takes the address of one char for a string, so bytes that lie  *)
(* behind it come along; that they may pass the end of revealedletters in  *)
(* the heap is left out, as is a round without its word (see Game).        *)
(***************************************************************************)
EXTENDS Integers, Sequences, FiniteSets

CONSTANTS
  Bytes,     (* the characters of strings                                   *)
  Words,     (* records [letters, mixed]: what WORD_CHOSEN brings           *)
  Strays,    (* what may lie behind the char in the stack, up to its zero   *)
  MaxStrays, (* bytes copied along in a round (bounds a run)                *)
  MaxRounds, (* words chosen (bounds a run)                                 *)
  SIZE_MAX,  (* the greatest size_t                                         *)
  INT_MAX,   (* the greatest int                                            *)
  NULL

(* A size_t is wider than an int; words come in datagrams of BUF_SIZE. The  *)
(* room does not check that mixedletters are the letters of the word.       *)
ASSUME ScoringAssumption ==
  /\ INT_MAX \in Nat /\ SIZE_MAX \in Nat /\ SIZE_MAX >= 15 /\ INT_MAX <= SIZE_MAX
  /\ \E k \in 1 .. SIZE_MAX + 1 : SIZE_MAX + 1 = k * (2 * (INT_MAX + 1))
  /\ MaxRounds \in Nat /\ MaxStrays \in Nat
  /\ Strays \subseteq Seq(Bytes) /\ NULL \notin Seq(Bytes)
  /\ \A w \in Words : /\ w.letters \in Seq(Bytes) /\ Len(w.letters) <= INT_MAX
                      /\ w.mixed \in Seq(Bytes)

VARIABLES
  word,      (* room->word and room->mixedletters                           *)
  revealed,  (* room->revealedletters                                       *)
  index,     (* of the reveal thread: letters revealed                      *)
  inGame,
  score,     (* the player's score                                          *)
  fault,     (* none, or why the process has died                           *)
  smeared,   (* history: a byte copied along was a letter of the word       *)
  rounds     (* words chosen so far (bound)                                 *)

vars == <<word, revealed, index, inGame, score, fault, smeared, rounds>>

(* Conversions of C: to size_t and to int, modulo the number of values.     *)
ToSize(n) == n % (SIZE_MAX + 1)
ToInt(n) == LET ints == 2 * (INT_MAX + 1)
            IN  IF n % ints <= INT_MAX THEN n % ints ELSE (n % ints) - ints

(* score += n, the sum in size_t *)
AddSize(s, n) == ToInt(ToSize(ToSize(s) + ToSize(n)))

(* 15 - strlen(word) is a size_t: it is > 0 unless it is 0. *)
ChooserScore(s, w) == IF ToSize(15 - Len(w)) > 0 THEN AddSize(s, 15 - Len(w)) ELSE s

(* Mutant of Matches: the inner loop stops before the last revealed byte.   *)
MatchesButLast(w, r) ==
  Cardinality({m \in (DOMAIN w) \X (DOMAIN r) : m[2] < Len(r) /\ w[m[1]] = r[m[2]]})

(* The two loops: pairs of a place in the word and a revealed byte equal.   *)
Matches(w, r) == Cardinality({m \in (DOMAIN w) \X (DOMAIN r) : w[m[1]] = r[m[2]]})

GuesserScore(s, w, r) ==
  IF r = <<>> THEN AddSize(s, Len(w)) ELSE s + (Len(w) - Matches(w, r))

InWord(w, b) == \E i \in DOMAIN w : w[i] = b

Init ==
  /\ \E w \in Words : word = w
  /\ revealed = NULL
  /\ index = 0
  /\ inGame = TRUE
  /\ score = 0
  /\ fault = "none"
  /\ smeared = FALSE
  /\ rounds = 1

(* cb on WORD_CHOSEN *)
WordChosen(w) ==
  /\ ~inGame /\ rounds < MaxRounds
  /\ word' = w
  /\ inGame' = TRUE
  /\ rounds' = rounds + 1
  /\ UNCHANGED <<revealed, index, score, fault, smeared>>

(* The first section of reveal_letters. *)
RevealStarts ==
  /\ inGame /\ revealed = NULL
  /\ revealed' = <<>>
  /\ index' = 0
  /\ smeared' = FALSE
  /\ UNCHANGED <<word, inGame, score, fault, rounds>>

(* One wake up of reveal_letters: a char is appended, and what follows it. *)
RevealLetter(stray) ==
  /\ inGame /\ revealed # NULL /\ index < Len(word.mixed)
  /\ Len(revealed) + Len(stray) <= index + MaxStrays
  /\ revealed' = revealed \o <<word.mixed[index + 1]>> \o stray
  /\ index' = index + 1
  /\ smeared' = (smeared \/ \E j \in DOMAIN stray : InWord(word.letters, stray[j]))
  /\ UNCHANGED <<word, inGame, score, fault, rounds>>

(* finish_game, to its end *)
Finish(points) ==
  /\ inGame' = FALSE
  /\ score' = points
  /\ revealed' = NULL
  /\ UNCHANGED <<word, index, fault, smeared, rounds>>

(* The reveal thread calls finish_game for the chooser. *)
TimeIsUp ==
  /\ inGame /\ revealed # NULL /\ index = Len(word.mixed)
  /\ Finish(ChooserScore(score, word.letters))

(* cb calls finish_game for a guesser. *)
Guess ==
  /\ inGame /\ revealed # NULL
  /\ Finish(GuesserScore(score, word.letters, revealed))

(* No letters yet: strlen() of a null pointer comes before the test for it. *)
GuessFaults ==
  /\ inGame /\ revealed = NULL
  /\ fault' = "null"
  /\ UNCHANGED <<word, revealed, index, inGame, score, smeared, rounds>>

Next == /\ fault = "none"
        /\ \/ \E w \in Words : WordChosen(w)
           \/ RevealStarts
           \/ \E stray \in Strays : RevealLetter(stray)
           \/ TimeIsUp
           \/ Guess
           \/ GuessFaults

Spec == Init /\ [][Next]_vars

-----------------------------------------------------------------------------
(* A word of different letters, of which alone the mixed ones are.          *)
Proper(w) == /\ \A i, j \in DOMAIN w.letters : w.letters[i] = w.letters[j] => i = j
             /\ \A i \in DOMAIN w.mixed : InWord(w.letters, w.mixed[i])

Fits(n) == n \in (-INT_MAX - 1) .. INT_MAX

(* The rule of handle_room.c:17-21, in the integers, where the code keeps   *)
(* it: the chooser of a word of up to 15 letters scores 15 minus its length *)
(* and a guesser the length minus the number of letters revealed, if no     *)
(* letter repeats, the mixed letters are letters of the word and no byte    *)
(* copied along is one. No guess ever scores more than the length. (A sum   *)
(* that is no int is excluded.)                                             *)
ScoreAsDocumented ==
  [][LET chooser == score + (15 - Len(word.letters))
         guesser == score + (Len(word.letters) - index)
         most    == score + Len(word.letters) IN
     /\ TimeIsUp /\ Len(word.letters) <= 15 /\ Fits(chooser) => score' = chooser
     /\ Guess /\ Proper(word) /\ ~smeared /\ Fits(most) => score' = guesser
     /\ Guess /\ Fits(most) => score' <= most]_vars
=============================================================================
