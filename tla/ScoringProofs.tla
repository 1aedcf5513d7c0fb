--------------------------- MODULE ScoringProofs ---------------------------
(***************************************************************************)
(* A theorem about Scoring: for any words, mixed letters, bytes copied     *)
(* along and widths of int and size_t, the points are those of the comment *)
(* where ScoreAsDocumented says that they are.                             *)
(***************************************************************************)
EXTENDS Scoring, FiniteSetTheorems, TLAPS

(* Remainders.                                                              *)
LEMMA Remainder ==
  ASSUME NEW n \in Int, NEW b \in Nat \ {0}
  PROVE  n % b \in 0 .. b - 1 /\ \E q \in Int : n = b * q + (n % b)
<1>1. n % b \in 0 .. b - 1
  OBVIOUS
<1>2. n \div b \in Int /\ n = b * (n \div b) + (n % b)
  OBVIOUS
<1> QED BY <1>1, <1>2

LEMMA RemainderIs ==
  ASSUME NEW b \in Nat \ {0}, NEW q \in Int, NEW r \in 0 .. b - 1
  PROVE  (b * q + r) % b = r
  OBVIOUS

(* An int comes back from a sum that is off by the values of an int, some   *)
(* number of times.                                                         *)
LEMMA ToIntIs ==
  ASSUME NEW n \in (-INT_MAX - 1) .. INT_MAX, NEW k \in Int
  PROVE  ToInt((2 * (INT_MAX + 1)) * k + n) = n
<1>1. PICK b \in Nat \ {0} : b = 2 * (INT_MAX + 1)
  BY ScoringAssumption
<1>2. CASE n >= 0
  <2>1. n \in 0 .. b - 1 /\ n <= INT_MAX
    BY <1>1, <1>2, ScoringAssumption
  <2>2. (b * k + n) % b = n
    BY <2>1, RemainderIs
  <2> QED BY <1>1, <2>1, <2>2 DEF ToInt
<1>3. CASE n < 0
  <2>1. n + b \in 0 .. b - 1 /\ n + b > INT_MAX /\ k - 1 \in Int
    BY <1>1, <1>3, ScoringAssumption
  <2>2. b * k + n = b * (k - 1) + (n + b)
    BY <1>1, <2>1
  <2>3. (b * k + n) % b = n + b
    BY <2>1, <2>2, RemainderIs
  <2> QED BY <1>1, <2>1, <2>3, ScoringAssumption DEF ToInt
<1> QED BY <1>2, <1>3, ScoringAssumption

LEMMA ToSizeIs ==
  ASSUME NEW c \in Nat \ {0}, c = SIZE_MAX + 1, NEW n \in Int
  PROVE  \E x \in 0 .. c - 1, q \in Int : x = ToSize(n) /\ n = c * q + x
<1>1. PICK x \in 0 .. c - 1 : x = n % c
  BY Remainder
<1>2. PICK q \in Int : n = c * q + x
  BY <1>1, Remainder
<1>3. x = ToSize(n)
  BY <1>1 DEF ToSize
<1> QED BY <1>2, <1>3

(* The sum of an int and a difference of sizes, computed in size_t.         *)
LEMMA SumIs ==
  ASSUME NEW s \in Int, NEW d \in Int, s + d \in (-INT_MAX - 1) .. INT_MAX
  PROVE  AddSize(s, d) = s + d
<1>1. PICK c \in Nat \ {0} : c = SIZE_MAX + 1
  BY ScoringAssumption
<1>2. PICK b \in Nat \ {0} : b = 2 * (INT_MAX + 1)
  BY ScoringAssumption
<1>3. PICK m \in Int : c = m * b
  BY <1>1, <1>2, ScoringAssumption
<1>4. PICK x \in 0 .. c - 1, p \in Int : x = ToSize(s) /\ s = c * p + x
  BY <1>1, ToSizeIs
<1>5. PICK y \in 0 .. c - 1, q \in Int : y = ToSize(d) /\ d = c * q + y
  BY <1>1, ToSizeIs
<1>6. PICK t \in 0 .. c - 1, r \in Int : t = ToSize(x + y) /\ x + y = c * r + t
  <2>1. x + y \in Int
    OBVIOUS
  <2> QED BY <1>1, <2>1, ToSizeIs
<1>7. s + d = c * p + c * q + c * r + t
  BY <1>4, <1>5, <1>6
<1>8. PICK k \in Int : k = -(m * (p + q + r))
  OBVIOUS
<1>9. c * p + c * q + c * r = -(b * k)
  <2>1. c * p + c * q + c * r = c * (p + q + r)
    OBVIOUS
  <2>2. c * (p + q + r) = (m * b) * (p + q + r)
    BY <1>3
  <2>3. \A z \in Int : (m * b) * z = -(b * (-(m * z)))
    OBVIOUS
  <2>4. p + q + r \in Int
    OBVIOUS
  <2> QED BY <1>8, <2>1, <2>2, <2>3, <2>4
<1>10. b * k \in Int /\ t = b * k + (s + d)
  BY <1>7, <1>9
<1> QED BY <1>2, <1>4, <1>5, <1>6, <1>10, ToIntIs DEF AddSize

(* The points of a chooser: the test is of a difference that is no less     *)
(* than zero in size_t, and is zero for 15 letters only.                    *)
LEMMA DifferenceIs ==
  ASSUME NEW s \in Int, NEW d \in Int, d <= 15, d >= -SIZE_MAX,
         s + d \in (-INT_MAX - 1) .. INT_MAX
  PROVE  (IF ToSize(d) > 0 THEN AddSize(s, d) ELSE s) = s + d
<1>1. PICK c \in Nat \ {0} : c = SIZE_MAX + 1
  BY ScoringAssumption
<1>2. d > -c /\ d < c
  BY <1>1, ScoringAssumption
<1>3. PICK x \in 0 .. c - 1, q \in Int : x = ToSize(d) /\ d = c * q + x
  BY <1>1, ToSizeIs
<1>4. CASE x > 0
  <2>1. AddSize(s, d) = s + d
    BY SumIs
  <2> QED BY <1>3, <1>4, <2>1
<1>5. CASE x = 0
  <2>1. d = c * q
    BY <1>3, <1>5
  <2>2. q = 0
    BY <1>2, <2>1
  <2>3. d = 0
    BY <2>1, <2>2
  <2>4. ToSize(d) = 0
    BY <1>3, <1>5
  <2>5. s = s + d
    BY <2>3
  <2> QED BY <2>4, <2>5
<1> QED BY <1>4, <1>5

LEMMA ChooserIs ==
  ASSUME NEW s \in Int, NEW w, Len(w) \in 0 .. 15,
         s + (15 - Len(w)) \in (-INT_MAX - 1) .. INT_MAX
  PROVE  ChooserScore(s, w) = s + (15 - Len(w))
<1>1. PICK n \in 0 .. 15 : n = Len(w)
  OBVIOUS
<1>2. PICK d \in Int : d = 15 - n
  OBVIOUS
<1>3. d <= 15 /\ d >= -SIZE_MAX
  BY <1>2, ScoringAssumption
<1>4. s + d \in (-INT_MAX - 1) .. INT_MAX
  BY <1>1, <1>2
<1>5. (IF ToSize(d) > 0 THEN AddSize(s, d) ELSE s) = s + d
  BY <1>3, <1>4, DifferenceIs
<1>6. ChooserScore(s, w) = (IF ToSize(d) > 0 THEN AddSize(s, d) ELSE s)
  BY <1>1, <1>2 DEF ChooserScore
<1> QED BY <1>1, <1>2, <1>5, <1>6

-----------------------------------------------------------------------------
(* The revealed bytes that are letters of the word.                         *)
Hits(w, r) == {j \in DOMAIN r : InWord(w, r[j])}

(* If no letter repeats, the two loops count these: each is equal to one    *)
(* letter of the word.                                                      *)
LEMMA MatchesIs ==
  ASSUME NEW w \in Seq(Bytes), NEW r \in Seq(Bytes)
  PROVE  /\ Matches(w, r) \in Nat
         /\ (\A i, j \in DOMAIN w : w[i] = w[j] => i = j) =>
              Matches(w, r) = Cardinality(Hits(w, r))
<1> DEFINE L == DOMAIN w
           R == DOMAIN r
           P == {m \in L \X R : w[m[1]] = r[m[2]]}
           H == Hits(w, r)
           letter == [m \in P |-> m[2]]
           place == [j \in H |-> CHOOSE i \in L : w[i] = r[j]]
           own == [j \in H |-> <<place[j], j>>]
<1>1. IsFiniteSet(L) /\ IsFiniteSet(R)
  <2>1. \A n \in Nat : IsFiniteSet(1 .. n)
    BY FS_Interval
  <2>2. L = 1 .. Len(w) /\ R = 1 .. Len(r) /\ Len(w) \in Nat /\ Len(r) \in Nat
    OBVIOUS
  <2> QED BY <2>1, <2>2
<1>2. IsFiniteSet(P) /\ Cardinality(P) \in Nat
  BY <1>1, FS_Product, FS_Subset, FS_CardinalityType
<1>3. H \subseteq R /\ IsFiniteSet(H)
  BY <1>1, FS_Subset DEF Hits
<1>4. ASSUME \A i, j \in DOMAIN w : w[i] = w[j] => i = j
      PROVE  Cardinality(P) = Cardinality(H)
  <2>1. \A m \in P : letter[m] \in H
    BY DEF Hits, InWord
  <2>2. \A m, n \in P : letter[m] = letter[n] => m = n
    BY <1>4
  <2>3. letter \in Injection(P, H)
    BY <2>1, <2>2 DEF Injection, IsInjective
  <2>4. \A j \in H : place[j] \in L /\ w[place[j]] = r[j]
    BY DEF Hits, InWord
  <2>5. \A j \in H : own[j] \in P
    BY <1>3, <2>4
  <2>6. own \in Injection(H, P)
    BY <2>5 DEF Injection, IsInjective
  <2>7. Cardinality(P) <= Cardinality(H) /\ Cardinality(H) <= Cardinality(P)
    BY <1>2, <1>3, <2>3, <2>6, FS_Injection
  <2>8. Cardinality(H) \in Nat
    BY <1>3, FS_CardinalityType
  <2> QED BY <1>2, <2>7, <2>8
<1>5. Matches(w, r) = Cardinality(P)
  BY DEF Matches
<1> HIDE DEF P, H
<1> QED BY <1>2, <1>4, <1>5 DEF H

(* A letter of the word, and bytes that are none, are one hit more.         *)
LEMMA OneHitMore ==
  ASSUME NEW w \in Seq(Bytes), NEW r \in Seq(Bytes), NEW c \in Bytes, NEW t \in Seq(Bytes),
         InWord(w, c), \A j \in DOMAIN t : ~InWord(w, t[j])
  PROVE  Cardinality(Hits(w, r \o <<c>> \o t)) = Cardinality(Hits(w, r)) + 1
<1>1. PICK n \in Nat : n = Len(r)
  OBVIOUS
<1>2. PICK k \in Nat : k = Len(t)
  OBVIOUS
<1>3. PICK q \in Seq(Bytes) : q = r \o <<c>> \o t
  <2>1. <<c>> \in Seq(Bytes)
    OBVIOUS
  <2>2. r \o <<c>> \in Seq(Bytes)
    BY <2>1
  <2>3. r \o <<c>> \o t \in Seq(Bytes)
    BY <2>2
  <2> QED BY <2>3
<1>4. /\ DOMAIN q = 1 .. n + 1 + k /\ DOMAIN r = 1 .. n /\ DOMAIN t = 1 .. k
      /\ \A j \in 1 .. n : q[j] = r[j]
      /\ q[n + 1] = c
      /\ \A j \in 1 .. k : q[n + 1 + j] = t[j]
  BY <1>1, <1>2, <1>3
<1>5. \A j \in (n + 2) .. (n + 1 + k) : ~InWord(w, q[j])
  <2> SUFFICES ASSUME NEW j \in (n + 2) .. (n + 1 + k) PROVE ~InWord(w, q[j])
    OBVIOUS
  <2>1. j - (n + 1) \in 1 .. k /\ n + 1 + (j - (n + 1)) = j
    OBVIOUS
  <2>2. q[j] = t[j - (n + 1)]
    BY <1>4, <2>1
  <2> QED BY <1>4, <2>1, <2>2
<1>6. \A j \in 1 .. n + 1 + k : j \in 1 .. n \/ j = n + 1 \/ j \in (n + 2) .. (n + 1 + k)
  OBVIOUS
<1>7. n + 1 \notin 1 .. n /\ n + 1 \in 1 .. n + 1 + k /\ 1 .. n \subseteq 1 .. n + 1 + k
  OBVIOUS
<1>8. Hits(w, q) = Hits(w, r) \cup {n + 1} /\ n + 1 \notin Hits(w, r)
  BY <1>4, <1>5, <1>6, <1>7, Zenon DEF Hits
<1>9. IsFiniteSet(Hits(w, r))
  <2>1. IsFiniteSet(1 .. n)
    BY FS_Interval
  <2>2. Hits(w, r) \subseteq 1 .. n
    BY <1>4 DEF Hits
  <2> QED BY <2>1, <2>2, FS_Subset
<1> QED BY <1>3, <1>8, <1>9, FS_AddElement

LEMMA NoHits == ASSUME NEW w PROVE Cardinality(Hits(w, <<>>)) = 0
<1>1. Hits(w, <<>>) = {}
  BY DEF Hits
<1> QED BY <1>1, FS_EmptySet

(* While nothing copied along is a letter of a proper word, as many of the  *)
(* revealed bytes are letters of it as have been revealed.                  *)
Revealed ==
  /\ word \in Words /\ score \in Int
  /\ revealed # NULL =>
       /\ revealed \in Seq(Bytes) /\ index \in Nat
       /\ Proper(word) /\ ~smeared => Cardinality(Hits(word.letters, revealed)) = index
  /\ ~inGame => revealed = NULL

LEMMA WordIs ==
  ASSUME NEW w \in Words
  PROVE  w.letters \in Seq(Bytes) /\ w.mixed \in Seq(Bytes) /\ Len(w.letters) \in 0 .. INT_MAX
<1>1. w.letters \in Seq(Bytes) /\ w.mixed \in Seq(Bytes) /\ Len(w.letters) <= INT_MAX
  BY ScoringAssumption
<1>2. Len(w.letters) \in Nat
  BY <1>1
<1> QED BY <1>1, <1>2, ScoringAssumption

LEMMA AddSizeInt == ASSUME NEW s \in Int, NEW n PROVE AddSize(s, n) \in Int
<1>1. PICK b \in Nat \ {0} : b = 2 * (INT_MAX + 1)
  BY ScoringAssumption
<1>2. PICK c \in Nat \ {0} : c = SIZE_MAX + 1
  BY ScoringAssumption
<1>3. PICK x : x = ToSize(ToSize(s) + ToSize(n))
  OBVIOUS
<1>4. x \in Int
  <2>1. x = (ToSize(s) + ToSize(n)) % c
    BY <1>2, <1>3 DEF ToSize
  <2> QED BY <2>1
<1>5. x % b \in Int
  BY <1>4, Remainder
<1> QED BY <1>1, <1>3, <1>5 DEF AddSize, ToInt

LEMMA RevealedInit == Init => Revealed
BY DEF Init, Revealed

LEMMA RevealedStep == Revealed /\ [Next]_vars => Revealed'
<1> SUFFICES ASSUME Revealed, [Next]_vars PROVE Revealed'
  OBVIOUS
<1>1. ASSUME NEW w \in Words, WordChosen(w) PROVE Revealed'
  BY <1>1 DEF WordChosen, Revealed
<1>2. CASE RevealStarts
  <2>1. <<>> \in Seq(Bytes) /\ revealed' = <<>> /\ index' = 0 /\ word' = word
    BY <1>2 DEF RevealStarts
  <2> QED BY <1>2, <2>1, NoHits DEF RevealStarts, Revealed
<1>3. ASSUME NEW stray \in Strays, RevealLetter(stray) PROVE Revealed'
  <2>1. PICK r \in Seq(Bytes) : r = revealed
    BY <1>3 DEF RevealLetter, Revealed
  <2>2. PICK w \in Seq(Bytes) : w = word.letters
    BY WordIs DEF Revealed
  <2>3. PICK n \in Nat : n = index
    BY <1>3 DEF RevealLetter, Revealed
  <2>4. PICK t \in Seq(Bytes) : t = stray
    BY ScoringAssumption
  <2>5. n + 1 \in DOMAIN word.mixed /\ word.mixed[n + 1] \in Bytes
    <3>1. PICK m \in Seq(Bytes) : m = word.mixed
      BY WordIs DEF Revealed
    <3>2. n < Len(m)
      BY <1>3, <2>3, <3>1 DEF RevealLetter
    <3>3. n + 1 \in DOMAIN m /\ m[n + 1] \in Bytes
      BY <3>2
    <3> QED BY <3>1, <3>3
  <2>6. PICK c \in Bytes : c = word.mixed[n + 1]
    BY <2>5
  <2>7. /\ revealed' = r \o <<c>> \o t /\ index' = n + 1 /\ UNCHANGED <<word, score, inGame>>
        /\ smeared' = (smeared \/ \E j \in DOMAIN t : InWord(w, t[j]))
        /\ inGame /\ revealed # NULL
    BY <1>3, <2>1, <2>2, <2>3, <2>4, <2>6 DEF RevealLetter
  <2>8. revealed' \in Seq(Bytes) /\ index' \in Nat
    BY <2>7
  <2>9. ASSUME Proper(word), ~smeared'
        PROVE  Cardinality(Hits(w, revealed')) = index'
    <3>1. InWord(w, c)
      BY <2>2, <2>5, <2>6, <2>9 DEF Proper
    <3>2. ~smeared /\ \A j \in DOMAIN t : ~InWord(w, t[j])
      BY <2>7, <2>9
    <3>3. Cardinality(Hits(w, revealed')) = Cardinality(Hits(w, r)) + 1
      BY <2>7, <3>1, <3>2, OneHitMore
    <3>4. Cardinality(Hits(w, r)) = n
      BY <2>1, <2>2, <2>3, <2>7, <2>9, <3>2 DEF Revealed
    <3> QED BY <2>7, <3>3, <3>4
  <2>10. Proper(word)' = Proper(word)
    BY <2>7 DEF Proper
  <2> QED BY <2>2, <2>7, <2>8, <2>9, <2>10 DEF Revealed
<1>4. CASE TimeIsUp
  <2>1. revealed' = NULL /\ word' = word /\ score' = ChooserScore(score, word.letters)
    BY <1>4 DEF TimeIsUp, Finish
  <2>2. score' \in Int
    BY <2>1, AddSizeInt DEF ChooserScore, Revealed
  <2> QED BY <2>1, <2>2 DEF Revealed
<1>5. CASE Guess
  <2>1. /\ revealed' = NULL /\ word' = word /\ revealed # NULL
        /\ score' = GuesserScore(score, word.letters, revealed)
    BY <1>5 DEF Guess, Finish
  <2>2. Matches(word.letters, revealed) \in Nat
    BY <2>1, MatchesIs, WordIs DEF Revealed
  <2>3. score' \in Int
    BY <2>1, <2>2, WordIs, AddSizeInt DEF GuesserScore, Revealed
  <2> QED BY <2>1, <2>3 DEF Revealed
<1>6. CASE GuessFaults
  BY <1>6 DEF GuessFaults, Revealed, Proper
<1>7. CASE UNCHANGED vars
  BY <1>7 DEF vars, Revealed, Proper
<1> QED BY <1>1, <1>2, <1>3, <1>4, <1>5, <1>6, <1>7 DEF Next

LEMMA ChooserStep ==
  ASSUME Revealed, TimeIsUp, Len(word.letters) <= 15, Fits(score + (15 - Len(word.letters)))
  PROVE  score' = score + (15 - Len(word.letters))
<1>1. PICK w \in Seq(Bytes) : w = word.letters
  BY WordIs DEF Revealed
<1>2. score' = ChooserScore(score, w) /\ score \in Int
  BY <1>1 DEF TimeIsUp, Finish, Revealed
<1>3. Len(w) \in 0 .. 15
  <2>1. Len(w) <= 15
    BY <1>1, Zenon
  <2>2. \A n \in Nat : n <= 15 => n \in 0 .. 15
    OBVIOUS
  <2>3. Len(w) \in Nat
    OBVIOUS
  <2> QED BY <2>1, <2>2, <2>3, Zenon
<1> QED BY <1>1, <1>2, <1>3, ChooserIs DEF Fits

LEMMA GuesserStep ==
  ASSUME Revealed, Guess, Fits(score + Len(word.letters))
  PROVE  /\ score' <= score + Len(word.letters)
         /\ Proper(word) /\ ~smeared => score' = score + (Len(word.letters) - index)
<1>1. /\ score' = GuesserScore(score, word.letters, revealed) /\ score \in Int
      /\ revealed \in Seq(Bytes) /\ index \in Nat
  BY DEF Guess, Finish, Revealed
<1>2. word.letters \in Seq(Bytes) /\ Len(word.letters) \in Nat
  BY WordIs, ScoringAssumption DEF Revealed
<1>3. Proper(word) /\ ~smeared => Cardinality(Hits(word.letters, revealed)) = index
  BY DEF Guess, Revealed
<1>4. CASE revealed = <<>>
  <2>1. score' = score + Len(word.letters)
    BY <1>1, <1>2, <1>4, SumIs DEF GuesserScore, Fits
  <2>2. Proper(word) /\ ~smeared => index = 0
    BY <1>3, <1>4, NoHits
  <2> QED BY <1>1, <1>2, <2>1, <2>2
<1>5. CASE revealed # <<>>
  <2>1. score' = score + (Len(word.letters) - Matches(word.letters, revealed))
    BY <1>1, <1>5 DEF GuesserScore
  <2>2. Matches(word.letters, revealed) \in Nat
    BY <1>1, <1>2, MatchesIs
  <2>3. Proper(word) /\ ~smeared => Matches(word.letters, revealed) = index
    BY <1>1, <1>2, <1>3, MatchesIs DEF Proper
  <2> QED BY <1>1, <1>2, <2>1, <2>2, <2>3
<1> QED BY <1>4, <1>5

(* The points are those of the comment of finish_game, for every word, all  *)
(* mixed letters, all bytes copied along and all widths of int and size_t,  *)
(* where nothing that ScoreAsDocumented names stands against it: the        *)
(* unsigned sum comes back, and the two loops count each letter once.       *)
THEOREM ScoreCorrect == Spec => ScoreAsDocumented
<1>1. Revealed /\ TimeIsUp =>
        (Len(word.letters) <= 15 /\ Fits(score + (15 - Len(word.letters))) =>
           score' = score + (15 - Len(word.letters)))
  BY ChooserStep
<1>2. Revealed /\ Guess =>
        (Fits(score + Len(word.letters)) =>
           /\ score' <= score + Len(word.letters)
           /\ Proper(word) /\ ~smeared => score' = score + (Len(word.letters) - index))
  BY GuesserStep
<1> QED BY <1>1, <1>2, RevealedInit, RevealedStep, PTL DEF Spec, ScoreAsDocumented
=============================================================================
