--------------------------- MODULE MCDurableStore ---------------------------
(* Instances of DurableStore for TLC. *)
EXTENDS DurableStore, TLC

CONSTANTS a, b, v1, v2

\* With an empty base nothing tells two ids apart, nor two contents of which
\* the log and a segment file give back both.
Symmetry == Permutations(Ids) \cup Permutations(Capsules)

\* All embeddings have one length, or every content's has its own.
SameDimension == [c \in Capsules |-> 1]
OwnDimension == [c \in Capsules |-> IF c = v1 THEN 0 ELSE 1]

NoBase == <<>>

AllPrefixes == Prefixes

=============================================================================
