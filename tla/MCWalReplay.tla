---------------------------- MODULE MCWalReplay -----------------------------
(* Instances of WalReplay for TLC. *)
EXTENDS WalReplay

CONSTANTS a, b, v1, v2

\* No base, and one that holds both ids.
Bases == {<<>>, <<[epoch |-> 1, caps |-> [id \in Ids |-> v1]]>>}

=============================================================================
