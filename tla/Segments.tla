------------------------------ MODULE Segments ------------------------------
(***************************************************************************)
(* The values the store is made of.  A capsule is an id together with its  *)
(* content; the content (claim, gates, relations ...) is one value of      *)
(* Capsules here, because the storage tiers only copy it.  A tier is what  *)
(* one level of the store holds: at most one capsule per id, since         *)
(* Segment::from_capsules and Segment::open reject duplicate ids and the   *)
(* write buffer replaces by id.                                            *)
(***************************************************************************)
EXTENDS Naturals, FiniteSets, Sequences

CONSTANTS Ids,        \* capsule ids (u128 in the code)
          Capsules,   \* capsule contents
          NoCapsule   \* "this tier does not hold the id"

ASSUME IdsAssumption == IsFiniteSet(Ids)
ASSUME NoCapsuleAssumption == NoCapsule \notin Capsules

Tier == [Ids -> Capsules \cup {NoCapsule}]
EmptyTier == [id \in Ids |-> NoCapsule]

\* The ids a tier holds; its cardinality is Vec::len of the buffer.
Held(tier) == {id \in Ids : tier[id] # NoCapsule}

\* An immutable, indexed segment: its epoch and its capsules.
Segment == [epoch : Nat, caps : Tier]

\* Option<Segment>::None of the active buffer.
NoSegment == [epoch |-> 0, caps |-> EmptyTier]

Holds(segs, id) == \E i \in DOMAIN segs : segs[i].caps[id] # NoCapsule

\* The copy of id in the last segment of segs that holds one: merge_frames
\* walks the frames in tier order and a later frame overwrites the same id.
LastHeld(segs, id) ==
    IF Holds(segs, id)
    THEN segs[CHOOSE i \in DOMAIN segs :
                 /\ segs[i].caps[id] # NoCapsule
                 /\ \A j \in DOMAIN segs : j > i => segs[j].caps[id] = NoCapsule
             ].caps[id]
    ELSE NoCapsule

\* The copy of id in the first segment of segs that holds one: the closure
\* `take` of collect_live keeps the first capsule it meets for an id.
FirstHeld(segs, id) ==
    IF Holds(segs, id)
    THEN segs[CHOOSE i \in DOMAIN segs :
                 /\ segs[i].caps[id] # NoCapsule
                 /\ \A j \in DOMAIN segs : j < i => segs[j].caps[id] = NoCapsule
             ].caps[id]
    ELSE NoCapsule

\* No id is held by two of the segments.
Disjoint(segs) ==
    \A id \in Ids : \A i, j \in DOMAIN segs :
        /\ segs[i].caps[id] # NoCapsule
        /\ segs[j].caps[id] # NoCapsule
        => i = j

=============================================================================
