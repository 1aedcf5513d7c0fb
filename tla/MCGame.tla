------------------------------- MODULE MCGame -------------------------------
(* Instances of Game for TLC. *)
EXTENDS Game, TLC

(* Users and threads are interchangeable (safety runs only). *)
Symmetry == Permutations(Users) \cup Permutations(Threads)
=============================================================================
