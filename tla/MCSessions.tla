----------------------------- MODULE MCSessions -----------------------------
(* Instances of Sessions for TLC. *)
EXTENDS Sessions, TLC

CONSTANTS c1, c2, c3, e1, e2, n1, anonymous

(* Two users that want the same name, two that have the same email, and one *)
(* that is called Anonymous.                                                *)
MCAccounts == {[email |-> e1, name |-> n1], [email |-> e2, name |-> n1],
               [email |-> e2, name |-> anonymous]}

MCConns == {c1, c2, c3}
Symmetry == Permutations(MCConns)

(* What an idle handler has freed, and the history once it is of no use.    *)
View == <<users, clients, pc, slot, crossed, fault, disturbed,
          [c \in MCConns |-> IF c \in Asking \cup Naming THEN {user[c]} ELSE {}],
          IF disturbed THEN <<>> ELSE proved>>
=============================================================================
