----------------------------- MODULE MCMembers ------------------------------
(* Instances of Members for TLC. *)
EXTENDS Members, TLC

Symmetry == Permutations(Users)

(* Of what has overlapped or comes from a stranger only the type is claimed. *)
Settles == overlapped \/ stranger

(* Records by what they hold and the seats that share them, whatever their   *)
(* number; history, and who is inside, as long as it is of use.             *)
View == <<table, numberOfPlayers, work, sent, stage, fault, Settles,
          IF Settles THEN <<>> ELSE <<inside, strayed, shifted>>,
          [i \in Seats |->
             IF players[i] = NULL THEN <<>>
             ELSE <<{j \in Seats : players[j] = players[i]}, record[players[i]].client,
                    IF disturbed THEN NULL ELSE record[players[i]].of>>]>>

(* At most so many datagrams are on their way. *)
MaxSent == 2
FewOnTheirWay == Cardinality(sent) <= MaxSent
=============================================================================
