----------------------------- MODULE MCCluster -----------------------------
(* Clusters of two and of four computers for TLC. *)
EXTENDS CluckCluster

TwoIdentifiers == <<2, 1>>
FourIdentifiers == <<2, 1, 3, 4>>   \* 1, 2 and 3 lead first, 2 before 1

\* The lock that is granted at first.
Nobody == [c \in {} |-> 0]
ThroughOne == 11 :> 1

\* The computers of the clients.
OnOneAndTwo == 11 :> {1} @@ 12 :> {2}
OnFour == 11 :> {4}
=============================================================================
