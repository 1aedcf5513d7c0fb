---------------------------- MODULE Connections ----------------------------
(***************************************************************************)
(* What main.c and handle_client.c promise of the clients table: a set of  *)
(* connections. One enters when it is accepted, one leaves only after its  *)
(* peer has closed, and each change concerns that one connection alone.    *)
(* Once a step has met half-done work of another, nothing is promised.     *)
(***************************************************************************)
EXTENDS Naturals, FiniteSets

CONSTANTS Sockets, Capacity

VARIABLES
  listed,   (* connections in the table            *)
  gone,     (* listed connections whose peer left  *)
  void      (* the promise no longer holds         *)

Init == listed = {} /\ gone = {} /\ void = FALSE

Lapse == void' = TRUE

(* The peer may already have closed when its connection is entered. *)
Enter(s) ==
  /\ s \notin listed
  /\ Cardinality(listed) < Capacity
  /\ listed' = listed \cup {s}
  /\ gone' \in {gone, gone \cup {s}}

PeerCloses(s) ==
  /\ s \in listed \ gone
  /\ gone' = gone \cup {s}
  /\ UNCHANGED listed

Leave(s) ==
  /\ s \in gone
  /\ listed' = listed \ {s}
  /\ gone' = gone \ {s}

Next == \/ Lapse
        \/ /\ UNCHANGED void
           /\ \E s \in Sockets : Enter(s) \/ PeerCloses(s) \/ Leave(s)

Spec == Init /\ [][Next]_<<listed, gone, void>>
=============================================================================
