----------------------------- MODULE MCReceiver -----------------------------
(* Instances of Receiver for TLC. *)
EXTENDS Receiver

MCDescriptors == 1 .. 7
=============================================================================
