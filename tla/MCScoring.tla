------------------------------ MODULE MCScoring ------------------------------
(* Words of small alphabets for the scoring of a round; a letter is a number. *)
EXTENDS Scoring

Injective(n) == {w \in [1 .. n -> 1 .. 3] : Cardinality({w[i] : i \in 1 .. n}) = n}

Strings(n, bytes) == UNION {[1 .. k -> bytes] : k \in 0 .. n}

(* Words of different letters with any mixed letters, more or fewer than    *)
(* the word has included; one in which a letter repeats; the lengths around *)
(* which the points of a chooser end.                                       *)
MCWords ==
  {[letters |-> w, mixed |-> m] : w \in Injective(1) \cup Injective(2), m \in Strings(2, 1 .. 3)}
  \cup {[letters |-> w, mixed |-> m] : w \in Injective(3), m \in Injective(3)}
  \cup {[letters |-> <<1, 1, 2>>, mixed |-> m] : m \in {<<2, 1, 1>>, <<1, 2, 1>>}}
  \cup {[letters |-> [i \in 1 .. n |-> i], mixed |-> [i \in 1 .. n |-> n + 1 - i]] :
          n \in {15, 16}}

MCBytes == 0 .. 16
MCStrays == {<<>>, <<0>>, <<1>>, <<0, 2>>}
=============================================================================
