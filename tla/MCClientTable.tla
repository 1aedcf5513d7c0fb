--------------------------- MODULE MCClientTable ---------------------------
(* Instances of ClientTable for TLC. *)
EXTENDS ClientTable, TLC

(* Threads and descriptors are interchangeable (safety runs only). *)
Symmetry == Permutations(Threads) \cup Permutations(Sockets)
=============================================================================
