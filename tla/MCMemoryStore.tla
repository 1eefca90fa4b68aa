--------------------------- MODULE MCMemoryStore ----------------------------
(* Instances of MemoryStore for TLC. *)
EXTENDS MemoryStore

CONSTANTS a, b, v1, v2

Seg(e, x, y) == [epoch |-> e, caps |-> [id \in Ids |-> IF id = a THEN x ELSE y]]

\* No base, one segment, and two segments that share no id.
DisjointBases ==
    {<<>>,
     <<Seg(1, v1, v1)>>,
     <<Seg(1, v1, NoCapsule), Seg(1, NoCapsule, v1)>>}

=============================================================================
