------------------------------ MODULE LiveMap -------------------------------
(***************************************************************************)
(* What a memory store promises its callers, without tiers, tombstones,    *)
(* epochs, runs or compaction: a map from capsule ids to the capsule a     *)
(* query may see.                                                          *)
(***************************************************************************)
CONSTANTS Ids, Capsules, NoCapsule

VARIABLE live

TypeOK == live \in [Ids -> Capsules \cup {NoCapsule}]

Init == TypeOK

\* insert: "Same id replaces the prior live version".
Put(id, c) == live' = [live EXCEPT ![id] = c]

\* delete: "Hide a capsule id from all future results".
Remove(id) == live' = [live EXCEPT ![id] = NoCapsule]

\* Sealing, compaction and checkpointing keep what the callers see.
Maintain == UNCHANGED live

Next == \E id \in Ids : Remove(id) \/ \E c \in Capsules : Put(id, c)

Spec == Init /\ [][Next]_live

=============================================================================
