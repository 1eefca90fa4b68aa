-------------------------- MODULE StoreOps_proofs ---------------------------
(***************************************************************************)
(* What each method of MemoryStore does to the type of the struct, to the  *)
(* live set, and to the agreement between the buffer and its index.        *)
(***************************************************************************)
EXTENDS StoreOps, FiniteSetTheorems, WellFoundedInduction, TLAPS

-----------------------------------------------------------------------------
(* What reading a list of segments newest first, or oldest first, returns. *)

\* A nonempty set of naturals has a least element.
LEMMA LeastNat ==
    ASSUME NEW S \in SUBSET Nat, S # {}
    PROVE  \E m \in S : \A n \in S : m <= n
<1> DEFINE R == OpToRel(<, Nat)
<1>1. \E m \in S : \A n \in S : ~(<<n, m>> \in R)
  BY NatLessThanWellFounded, WFMin
<1>2. \A m, n \in Nat : <<n, m>> \in R <=> n < m
  BY DEF OpToRel
<1> HIDE DEF R
<1>3. PICK m \in S : \A n \in S : ~(<<n, m>> \in R)
  BY <1>1
<1>4. ASSUME NEW n \in S PROVE m <= n
  <2>1. m \in Nat /\ n \in Nat
    OBVIOUS
  <2>2. ~(n < m)
    BY <1>2, <1>3, <2>1
  <2> QED  BY <2>1, <2>2
<1> QED  BY <1>4

\* A nonempty set of indices of a sequence has a greatest element.
LEMMA GreatestIndex ==
    ASSUME NEW n \in Nat, NEW S \in SUBSET (1 .. n), S # {}
    PROVE  \E m \in S : \A k \in S : k <= m
<1> DEFINE T == {n - k : k \in S}
<1>1. T \in SUBSET Nat
  <2>1. \A k \in S : n - k \in Nat
    OBVIOUS
  <2> QED  BY <2>1
<1>5. T # {}
  <2>1. PICK k \in S : TRUE
    OBVIOUS
  <2>2. n - k \in T
    BY <2>1
  <2> QED  BY <2>2
<1>2. PICK t \in T : \A u \in T : t <= u
  BY <1>1, <1>5, LeastNat
<1>3. PICK m \in S : t = n - m
  OBVIOUS
<1>4. \A k \in S : n - m <= n - k
  BY <1>2, <1>3
<1> QED  BY <1>4

\* LastHeld is the copy at some index that no later segment overrides.
LEMMA LastHeldIndex ==
    ASSUME NEW segs \in Seq(Segment), NEW id \in Ids, Holds(segs, id)
    PROVE  \E i \in DOMAIN segs :
              /\ segs[i].caps[id] # NoCapsule
              /\ \A j \in DOMAIN segs : j > i => segs[j].caps[id] = NoCapsule
              /\ LastHeld(segs, id) = segs[i].caps[id]
<1> DEFINE P(i) == /\ segs[i].caps[id] # NoCapsule
                   /\ \A j \in DOMAIN segs : j > i => segs[j].caps[id] = NoCapsule
           S == {i \in DOMAIN segs : segs[i].caps[id] # NoCapsule}
           n == Len(segs)
<1>1. n \in Nat /\ DOMAIN segs = 1 .. n
  OBVIOUS
<1>2. S \in SUBSET (1 .. n) /\ S # {}
  BY <1>1 DEF Holds
<1>3. PICK m \in S : \A k \in S : k <= m
  <2> HIDE DEF S, n
  <2> QED  BY <1>1, <1>2, GreatestIndex
<1>4. m \in DOMAIN segs /\ segs[m].caps[id] # NoCapsule
  OBVIOUS
<1>5. ASSUME NEW j \in DOMAIN segs, j > m
      PROVE  segs[j].caps[id] = NoCapsule
  BY <1>1, <1>3, <1>4, <1>5
<1>6. P(m)
  BY <1>4, <1>5
<1> DEFINE c == CHOOSE i \in DOMAIN segs : P(i)
<1>7. c \in DOMAIN segs /\ P(c)
  <2> HIDE DEF P
  <2> QED  BY <1>4, <1>6
<1>8. LastHeld(segs, id) = segs[c].caps[id]
  BY DEF LastHeld
<1> HIDE DEF c
<1> QED  BY <1>7, <1>8

\* FirstHeld is the copy at some index that no earlier segment overrides.
LEMMA FirstHeldIndex ==
    ASSUME NEW segs \in Seq(Segment), NEW id \in Ids, Holds(segs, id)
    PROVE  \E i \in DOMAIN segs :
              /\ segs[i].caps[id] # NoCapsule
              /\ FirstHeld(segs, id) = segs[i].caps[id]
<1> DEFINE P(i) == /\ segs[i].caps[id] # NoCapsule
                   /\ \A j \in DOMAIN segs : j < i => segs[j].caps[id] = NoCapsule
           S == {i \in DOMAIN segs : segs[i].caps[id] # NoCapsule}
<1>1. Len(segs) \in Nat /\ DOMAIN segs = 1 .. Len(segs)
  OBVIOUS
<1>2. S \in SUBSET Nat /\ S # {}
  BY <1>1 DEF Holds
<1>3. PICK m \in S : \A k \in S : m <= k
  <2> HIDE DEF S
  <2> QED  BY <1>2, LeastNat
<1>4. m \in DOMAIN segs /\ segs[m].caps[id] # NoCapsule
  OBVIOUS
<1>5. ASSUME NEW j \in DOMAIN segs, j < m
      PROVE  segs[j].caps[id] = NoCapsule
  BY <1>1, <1>3, <1>4, <1>5
<1>6. P(m)
  BY <1>4, <1>5
<1> DEFINE c == CHOOSE i \in DOMAIN segs : P(i)
<1>7. c \in DOMAIN segs /\ P(c)
  <2> HIDE DEF P
  <2> QED  BY <1>4, <1>6
<1>8. FirstHeld(segs, id) = segs[c].caps[id]
  BY DEF FirstHeld
<1> HIDE DEF c
<1> QED  BY <1>7, <1>8

\* What the list holds is a capsule; what it does not hold is NoCapsule.
LEMMA HeldType ==
    ASSUME NEW segs \in Seq(Segment), NEW id \in Ids
    PROVE  /\ LastHeld(segs, id) \in Capsules \cup {NoCapsule}
           /\ FirstHeld(segs, id) \in Capsules \cup {NoCapsule}
           /\ Holds(segs, id) <=> LastHeld(segs, id) # NoCapsule
           /\ Holds(segs, id) <=> FirstHeld(segs, id) # NoCapsule
<1>1. ASSUME NEW i \in DOMAIN segs
      PROVE  segs[i].caps[id] \in Capsules \cup {NoCapsule}
  <2>1. segs[i] \in Segment
    OBVIOUS
  <2>2. segs[i].caps \in Tier
    BY <2>1 DEF Segment
  <2> QED  BY <2>2 DEF Tier
<1>2. CASE Holds(segs, id)
  BY <1>1, <1>2, LastHeldIndex, FirstHeldIndex
<1>3. CASE ~Holds(segs, id)
  BY <1>3 DEF LastHeld, FirstHeld
<1> QED  BY <1>2, <1>3

\* A new last segment overrides what it holds and nothing else.
LEMMA LastHeldAppend ==
    ASSUME NEW segs \in Seq(Segment), NEW seg \in Segment, NEW id \in Ids
    PROVE  /\ Holds(Append(segs, seg), id)
                  <=> seg.caps[id] # NoCapsule \/ Holds(segs, id)
           /\ LastHeld(Append(segs, seg), id) =
                  IF seg.caps[id] # NoCapsule THEN seg.caps[id]
                  ELSE LastHeld(segs, id)
<1> DEFINE new == Append(segs, seg)
           n == Len(segs)
<1>1. /\ n \in Nat
      /\ new \in Seq(Segment)
      /\ DOMAIN segs = 1 .. n
      /\ DOMAIN new = 1 .. n + 1
      /\ new[n + 1] = seg
      /\ \A i \in 1 .. n : new[i] = segs[i]
  OBVIOUS
<1> HIDE DEF new, n
<1>2. Holds(new, id) <=> seg.caps[id] # NoCapsule \/ Holds(segs, id)
  <2>1. ASSUME Holds(new, id)  PROVE seg.caps[id] # NoCapsule \/ Holds(segs, id)
    <3>1. PICK i \in 1 .. n + 1 : new[i].caps[id] # NoCapsule
      BY <1>1, <2>1 DEF Holds
    <3>2. i = n + 1 \/ i \in 1 .. n
      BY <1>1, <3>1
    <3> QED  BY <1>1, <3>1, <3>2 DEF Holds
  <2>2. ASSUME seg.caps[id] # NoCapsule  PROVE Holds(new, id)
    <3>1. n + 1 \in DOMAIN new
      BY <1>1
    <3> QED  BY <1>1, <2>2, <3>1 DEF Holds
  <2>3. ASSUME Holds(segs, id)  PROVE Holds(new, id)
    <3>1. PICK i \in 1 .. n : segs[i].caps[id] # NoCapsule
      BY <1>1, <2>3 DEF Holds
    <3>2. i \in DOMAIN new /\ new[i] = segs[i]
      BY <1>1, <3>1
    <3> QED  BY <3>1, <3>2 DEF Holds
  <2> QED  BY <2>1, <2>2, <2>3
<1>3. CASE seg.caps[id] # NoCapsule
  <2>1. PICK i \in DOMAIN new :
           /\ new[i].caps[id] # NoCapsule
           /\ \A j \in DOMAIN new : j > i => new[j].caps[id] = NoCapsule
           /\ LastHeld(new, id) = new[i].caps[id]
    BY <1>1, <1>2, <1>3, LastHeldIndex
  <2>2. i = n + 1
    BY <1>1, <1>3, <2>1
  <2> QED  BY <1>1, <1>2, <1>3, <2>1, <2>2 DEF new
<1>4. CASE seg.caps[id] = NoCapsule /\ Holds(segs, id)
  <2>1. PICK i \in DOMAIN new :
           /\ new[i].caps[id] # NoCapsule
           /\ \A j \in DOMAIN new : j > i => new[j].caps[id] = NoCapsule
           /\ LastHeld(new, id) = new[i].caps[id]
    BY <1>1, <1>2, <1>4, LastHeldIndex
  <2>2. PICK k \in DOMAIN segs :
           /\ segs[k].caps[id] # NoCapsule
           /\ \A j \in DOMAIN segs : j > k => segs[j].caps[id] = NoCapsule
           /\ LastHeld(segs, id) = segs[k].caps[id]
    BY <1>4, LastHeldIndex
  <2>3. i \in 1 .. n
    BY <1>1, <1>4, <2>1
  <2>4. k \in DOMAIN new /\ new[k] = segs[k] /\ new[i] = segs[i]
    BY <1>1, <2>2, <2>3
  <2>5. ~(k > i) /\ ~(i > k)
    BY <1>1, <2>1, <2>2, <2>3, <2>4
  <2>6. i = k
    BY <1>1, <2>2, <2>3, <2>5
  <2> QED  BY <1>2, <1>4, <2>1, <2>2, <2>4, <2>6 DEF new
<1>5. CASE seg.caps[id] = NoCapsule /\ ~Holds(segs, id)
  BY <1>2, <1>5 DEF LastHeld, new
<1> QED  BY <1>3, <1>4, <1>5

\* A list of one segment is that segment.
LEMMA HeldSingleton ==
    ASSUME NEW seg \in Segment, NEW id \in Ids
    PROVE  /\ Holds(<<seg>>, id) <=> seg.caps[id] # NoCapsule
           /\ LastHeld(<<seg>>, id) = seg.caps[id]
           /\ FirstHeld(<<seg>>, id) = seg.caps[id]
<1>1. <<seg>> \in Seq(Segment) /\ DOMAIN <<seg>> = {1} /\ <<seg>>[1] = seg
  OBVIOUS
<1>2. Holds(<<seg>>, id) <=> seg.caps[id] # NoCapsule
  BY <1>1 DEF Holds
<1>3. CASE seg.caps[id] # NoCapsule
  <2>1. PICK i \in DOMAIN <<seg>> : LastHeld(<<seg>>, id) = <<seg>>[i].caps[id]
    BY <1>1, <1>2, <1>3, LastHeldIndex
  <2>2. PICK j \in DOMAIN <<seg>> : FirstHeld(<<seg>>, id) = <<seg>>[j].caps[id]
    BY <1>1, <1>2, <1>3, FirstHeldIndex
  <2> QED  BY <1>1, <1>2, <2>1, <2>2
<1>4. CASE seg.caps[id] = NoCapsule
  BY <1>2, <1>4 DEF LastHeld, FirstHeld
<1> QED  BY <1>3, <1>4

\* The empty list holds nothing.
LEMMA HeldEmpty ==
    ASSUME NEW id
    PROVE  ~Holds(<<>>, id) /\ LastHeld(<<>>, id) = NoCapsule
<1>1. ~Holds(<<>>, id)
  BY DEF Holds
<1> QED  BY <1>1 DEF LastHeld

\* Without collisions it does not matter from which end the list is read.
LEMMA DisjointFirstIsLast ==
    ASSUME NEW segs \in Seq(Segment), Disjoint(segs), NEW id \in Ids
    PROVE  FirstHeld(segs, id) = LastHeld(segs, id)
<1>1. CASE Holds(segs, id)
  <2>1. PICK i \in DOMAIN segs : /\ segs[i].caps[id] # NoCapsule
                                 /\ LastHeld(segs, id) = segs[i].caps[id]
    BY <1>1, LastHeldIndex
  <2>2. PICK j \in DOMAIN segs : /\ segs[j].caps[id] # NoCapsule
                                 /\ FirstHeld(segs, id) = segs[j].caps[id]
    BY <1>1, FirstHeldIndex
  <2>3. i = j
    BY <2>1, <2>2 DEF Disjoint
  <2> QED  BY <2>1, <2>2, <2>3
<1>2. CASE ~Holds(segs, id)
  BY <1>2 DEF FirstHeld, LastHeld
<1> QED  BY <1>1, <1>2

-----------------------------------------------------------------------------
(* The methods. *)

\* The index of the active buffer is up to date.
Indexed(s) == s.delta_segment.caps = s.delta

-----------------------------------------------------------------------------
(* Types. *)

LEMMA EmptyTierType == EmptyTier \in Tier /\ Held(EmptyTier) = {}
BY DEF EmptyTier, Tier, Held

LEMMA NoSegmentType == NoSegment \in Segment
BY EmptyTierType DEF NoSegment, Segment

\* A tier that holds nothing is the empty tier.
LEMMA HeldNothing ==
    ASSUME NEW t \in Tier, Held(t) = {}
    PROVE  t = EmptyTier
BY DEF Held, Tier, EmptyTier

\* The length of a buffer is a natural number, 0 only when it is empty.
LEMMA HeldCardinality ==
    ASSUME NEW t \in Tier
    PROVE  /\ IsFiniteSet(Held(t))
           /\ Cardinality(Held(t)) \in Nat
           /\ Cardinality(Held(t)) = 0 <=> Held(t) = {}
<1>1. Held(t) \subseteq Ids
  BY DEF Held
<1> QED  BY <1>1, IdsAssumption, FS_Subset, FS_CardinalityType, FS_EmptySet

\* The shape of every update that replaces the delta tiers.
LEMMA DeltaUpdateType ==
    ASSUME NEW s \in Store, NEW d \in Tier, NEW g \in Segment,
           NEW x \in Seq(Segment), NEW n \in Nat
    PROVE  [s EXCEPT !.delta = d, !.delta_segment = g,
                     !.sealed_deltas = x, !.next_epoch = n] \in Store
BY DEF Store

LEMMA NextEpochType ==
    ASSUME NEW s \in Store
    PROVE  s.next_epoch + 1 \in Nat
BY DEF Store

LEMMA PushType ==
    ASSUME NEW s \in Store, NEW id \in Ids, NEW c \in Capsules
    PROVE  PushIntoBuffer(s, id, c) \in Store
<1>1. [s.delta EXCEPT ![id] = c] \in Tier
  BY DEF Store, Tier
<1> QED  BY <1>1 DEF Store, PushIntoBuffer

LEMMA RebuildType ==
    ASSUME NEW s \in Store
    PROVE  RebuildActiveSegment(s) \in Store
<1>1. [epoch |-> s.next_epoch, caps |-> s.delta] \in Segment
  BY DEF Store, Segment
<1> QED  BY <1>1, NoSegmentType DEF Store, RebuildActiveSegment

LEMMA SealType ==
    ASSUME NEW s \in Store
    PROVE  SealActiveBuffer(s) \in Store
<1>1. [epoch |-> s.next_epoch, caps |-> s.delta] \in Segment
  BY DEF Store, Segment
<1>2. Append(s.sealed_deltas, [epoch |-> s.next_epoch, caps |-> s.delta])
          \in Seq(Segment)
  BY <1>1 DEF Store
<1>3. CASE Held(s.delta) = {}
  BY <1>3 DEF SealActiveBuffer
<1>4. CASE Held(s.delta) # {}
  <2> DEFINE x == Append(s.sealed_deltas, [epoch |-> s.next_epoch, caps |-> s.delta])
  <2>1. SealActiveBuffer(s) =
          [s EXCEPT !.delta = EmptyTier, !.delta_segment = NoSegment,
                    !.sealed_deltas = x, !.next_epoch = @ + 1]
    BY <1>4 DEF SealActiveBuffer, Store
  <2>2. x \in Seq(Segment)
    BY <1>2
  <2> HIDE DEF x
  <2>3. [s EXCEPT !.delta = EmptyTier, !.delta_segment = NoSegment,
                  !.sealed_deltas = x, !.next_epoch = @ + 1] \in Store
    BY <2>2, NoSegmentType, EmptyTierType, NextEpochType, DeltaUpdateType
  <2> QED  BY <2>1, <2>3
<1> QED  BY <1>3, <1>4

LEMMA CollectType ==
    ASSUME NEW s \in Store
    PROVE  CollectDelta(s) \in Tier /\ CollectAll(s) \in Tier
<1>1. /\ s.delta \in [Ids -> Capsules \cup {NoCapsule}]
      /\ s.sealed_deltas \in Seq(Segment)
      /\ s.segments \in Seq(Segment)
  BY DEF Store, Tier
<1>2. CollectDelta(s) \in Tier
  BY <1>1, HeldType DEF CollectDelta, Tier
<1>3. CollectAll(s) \in Tier
  BY <1>1, HeldType DEF CollectAll, Tier
<1> QED  BY <1>2, <1>3

LEMMA CompactDeltaType ==
    ASSUME NEW s \in Store
    PROVE  CompactDelta(s) \in Store
<1> DEFINE seg == [epoch |-> s.next_epoch, caps |-> CollectDelta(s)]
<1>1. seg \in Segment
  BY CollectType DEF Store, Segment
<1>2. <<seg>> \in Seq(Segment) /\ <<>> \in Seq(Segment)
  BY <1>1
<1> DEFINE x == IF Held(CollectDelta(s)) = {} THEN <<>> ELSE <<seg>>
<1>3. x \in Seq(Segment)
  BY <1>2
<1>4. CASE s.sealed_deltas = <<>>
  BY <1>4 DEF CompactDelta
<1>5. CASE s.sealed_deltas # <<>>
  <2>1. CompactDelta(s) =
          [s EXCEPT !.delta = EmptyTier, !.delta_segment = NoSegment,
                    !.sealed_deltas = x, !.next_epoch = @ + 1]
    BY <1>5 DEF CompactDelta, Store
  <2> HIDE DEF x
  <2>3. [s EXCEPT !.delta = EmptyTier, !.delta_segment = NoSegment,
                  !.sealed_deltas = x, !.next_epoch = @ + 1] \in Store
    BY <1>3, NoSegmentType, EmptyTierType, NextEpochType, DeltaUpdateType
  <2> QED  BY <2>1, <2>3
<1> QED  BY <1>4, <1>5

LEMMA AdoptBaseType ==
    ASSUME NEW s \in Store, NEW t \in Tier
    PROVE  AdoptBase(s, t) \in Store
<1> DEFINE seg == [epoch |-> s.next_epoch, caps |-> t]
<1>1. seg \in Segment
  BY DEF Store, Segment
<1>2. <<seg>> \in Seq(Segment) /\ <<>> \in Seq(Segment)
  BY <1>1
<1> DEFINE x == <<seg>>
           y == <<>>
<1>3. AdoptBase(s, t) = [s EXCEPT !.segments = x, !.delta = EmptyTier,
                                  !.delta_segment = NoSegment,
                                  !.sealed_deltas = y, !.tombstones = {},
                                  !.next_epoch = @ + 1]
  BY DEF Store, AdoptBase, ClearDeltaState
<1>4. x \in Seq(Segment) /\ y \in Seq(Segment)
  BY <1>2
<1> DEFINE n == s.next_epoch + 1
<1>5. n \in Nat
  BY NextEpochType
<1> HIDE DEF x, y, n
<1>6. [s EXCEPT !.segments = x, !.delta = EmptyTier,
                !.delta_segment = NoSegment, !.sealed_deltas = y,
                !.tombstones = {}, !.next_epoch = n] \in Store
  BY <1>4, <1>5, NoSegmentType, EmptyTierType DEF Store
<1> QED  BY <1>3, <1>6 DEF n

LEMMA DeleteType ==
    ASSUME NEW s \in Store, NEW id \in Ids
    PROVE  Delete(s, id) \in Store
<1> DEFINE d == [s EXCEPT !.delta = [@ EXCEPT ![id] = NoCapsule],
                          !.tombstones = @ \cup {id}]
<1>1. [s.delta EXCEPT ![id] = NoCapsule] \in Tier
  BY DEF Store, Tier
<1>2. d \in Store
  BY <1>1 DEF Store
<1> QED  BY <1>2, RebuildType DEF Delete

LEMMA InsertType ==
    ASSUME NEW s \in Store, NEW id \in Ids, NEW c \in Capsules
    PROVE  Insert(s, id, c) \in Store /\ InsertManyTurn(s, id, c) \in Store
BY PushType, SealType, RebuildType, CompactDeltaType
   DEF Insert, InsertManyTurn, SealOrReindex, MaybeAutoCompact

LEMMA EpochType ==
    ASSUME NEW base \in Seq(Segment)
    PROVE  \A i \in DOMAIN base : base[i] \in Segment /\ base[i].epoch \in Nat
<1>1. \A i \in DOMAIN base : base[i] \in Segment
  OBVIOUS
<1> QED  BY <1>1 DEF Segment

\* The epochs of a list of segments have an upper bound.  (The prefixes that
\* have one include the empty prefix, and the longest of them is the list.)
LEMMA EpochsBounded ==
    ASSUME NEW base \in Seq(Segment)
    PROVE  \E u \in Nat : \A i \in DOMAIN base : base[i].epoch <= u
<1> DEFINE n == Len(base)
           Bounded(k) == \E u \in Nat : \A i \in 1 .. n : i < k => base[i].epoch <= u
           S == {k \in 1 .. n + 1 : Bounded(k)}
<1>1. /\ n \in Nat /\ n + 1 \in Nat /\ DOMAIN base = 1 .. n
      /\ \A i \in 1 .. n : base[i].epoch \in Nat
  BY EpochType
<1> HIDE DEF n
<1>2. 1 \in S
  <2>1. \A i \in 1 .. n : i < 1 => base[i].epoch <= 0
    BY <1>1
  <2> QED  BY <1>1, <2>1
<1>3. PICK m \in S : \A k \in S : k <= m
  <2>1. S \in SUBSET (1 .. n + 1) /\ S # {}
    BY <1>2
  <2> HIDE DEF S
  <2> QED  BY <1>1, <2>1, GreatestIndex
<1>4. PICK u \in Nat : \A i \in 1 .. n : i < m => base[i].epoch <= u
  BY <1>3
<1>5. CASE m = n + 1
  <2>1. \A i \in DOMAIN base : i \in 1 .. n /\ i < m
    BY <1>1, <1>5
  <2> QED  BY <1>4, <2>1
<1>6. CASE m # n + 1
  <2>1. m \in 1 .. n /\ m + 1 \in 1 .. n + 1
    BY <1>1, <1>6
  <2> DEFINE w == IF base[m].epoch <= u THEN u ELSE base[m].epoch
  <2>2. w \in Nat /\ u <= w /\ base[m].epoch <= w
    BY <1>1, <2>1
  <2> HIDE DEF w
  <2>3. ASSUME NEW i \in 1 .. n, i < m + 1
        PROVE  base[i].epoch <= w
    BY <1>1, <1>4, <2>1, <2>2, <2>3
  <2>4. m + 1 \in S
    BY <2>1, <2>2, <2>3
  <2>5. m + 1 <= m
    BY <1>3, <2>4
  <2> QED  BY <1>1, <2>1, <2>5
<1> QED  BY <1>5, <1>6

\* So a nonempty list has a greatest epoch.
LEMMA GreatestEpoch ==
    ASSUME NEW base \in Seq(Segment), base # <<>>
    PROVE  \E m \in DOMAIN base : \A i \in DOMAIN base : base[i].epoch <= base[m].epoch
<1> DEFINE U == {u \in Nat : \A i \in DOMAIN base : base[i].epoch <= u}
<1>1. \A i \in DOMAIN base : base[i].epoch \in Nat
  BY EpochType
<1>2. PICK u \in U : \A v \in U : u <= v
  <2>1. U \in SUBSET Nat /\ U # {}
    BY EpochsBounded
  <2> HIDE DEF U
  <2> QED  BY <2>1, LeastNat
<1>3. SUFFICES ASSUME \A i \in DOMAIN base : base[i].epoch # u
               PROVE  FALSE
  BY <1>2
<1>4. 1 \in DOMAIN base
  OBVIOUS
<1>5. u \in Nat /\ u # 0 /\ \A i \in DOMAIN base : base[i].epoch < u
  BY <1>1, <1>2, <1>3, <1>4
<1>6. u - 1 \in Nat /\ \A i \in DOMAIN base : base[i].epoch <= u - 1
  BY <1>1, <1>5
<1>7. u - 1 \in U
  BY <1>6
<1> QED  BY <1>2, <1>5, <1>7

\* Opening yields a store whose next epoch is above every epoch of the base.
LEMMA OpenType ==
    ASSUME NEW base \in Seq(Segment)
    PROVE  /\ OpenSegments(base) \in Store
           /\ \A i \in DOMAIN base : base[i].epoch < FirstEpoch(base)
<1>1. \A i \in DOMAIN base : base[i].epoch \in Nat
  BY EpochType
<1>2. FirstEpoch(base) \in Nat /\ \A i \in DOMAIN base : base[i].epoch < FirstEpoch(base)
  <2>1. CASE base = <<>>
    BY <2>1 DEF FirstEpoch
  <2>2. CASE base # <<>>
    <3> DEFINE E == {base[i].epoch : i \in DOMAIN base}
               P(e) == \A i \in DOMAIN base : base[i].epoch <= e
               g == CHOOSE e \in E : P(e)
    <3>1. \E e \in E : P(e)
      BY <2>2, GreatestEpoch
    <3>2. g \in E /\ P(g)
      <4> HIDE DEF P, E
      <4> QED  BY <3>1
    <3>3. g \in Nat
      BY <1>1, <3>2
    <3>4. FirstEpoch(base) = 1 + g
      BY <2>2 DEF FirstEpoch
    <3> HIDE DEF g
    <3> QED  BY <1>1, <3>2, <3>3, <3>4
  <2> QED  BY <2>1, <2>2
<1>3. <<>> \in Seq(Segment) /\ {} \in SUBSET Ids
  OBVIOUS
<1> DEFINE y == <<>>
<1>4. OpenSegments(base) =
        [segments |-> base, delta |-> EmptyTier, delta_segment |-> NoSegment,
         sealed_deltas |-> y, tombstones |-> {}, next_epoch |-> FirstEpoch(base)]
  BY DEF OpenSegments
<1>5. y \in Seq(Segment)
  OBVIOUS
<1> HIDE DEF y
<1> QED  BY <1>2, <1>3, <1>4, <1>5, EmptyTierType, NoSegmentType DEF Store

-----------------------------------------------------------------------------
(* The live set. *)

LEMMA LiveType ==
    ASSUME NEW s \in Store
    PROVE  Live(s) \in [Ids -> Capsules \cup {NoCapsule}]
<1>1. /\ s.delta \in [Ids -> Capsules \cup {NoCapsule}]
      /\ s.sealed_deltas \in Seq(Segment)
      /\ s.segments \in Seq(Segment)
  BY DEF Store, Tier
<1> QED  BY <1>1, HeldType DEF Live

\* The live set is a function of four fields.
LEMMA LiveDepends ==
    ASSUME NEW s, NEW r,
           r.delta = s.delta, r.tombstones = s.tombstones,
           r.sealed_deltas = s.sealed_deltas, r.segments = s.segments
    PROVE  Live(r) = Live(s)
BY DEF Live

\* Pushing replaces the pushed id and nothing else, tombstoned or not.
LEMMA PushLive ==
    ASSUME NEW s \in Store, NEW id \in Ids, NEW c \in Capsules
    PROVE  Live(PushIntoBuffer(s, id, c)) = [Live(s) EXCEPT ![id] = c]
<1> DEFINE r == PushIntoBuffer(s, id, c)
<1>1. /\ r.delta = [s.delta EXCEPT ![id] = c]
      /\ r.tombstones = s.tombstones \ {id}
      /\ r.sealed_deltas = s.sealed_deltas
      /\ r.segments = s.segments
  BY DEF PushIntoBuffer, Store
<1>2. s.delta \in [Ids -> Capsules \cup {NoCapsule}]
  BY DEF Store, Tier
<1> HIDE DEF r
<1>3. ASSUME NEW k \in Ids
      PROVE  Live(r)[k] = [Live(s) EXCEPT ![id] = c][k]
  <2>1. CASE k = id
    BY <1>1, <1>2, <2>1, NoCapsuleAssumption DEF Live
  <2>2. CASE k # id
    BY <1>1, <1>2, <2>2 DEF Live
  <2> QED  BY <2>1, <2>2
<1>4. /\ Live(r) = [k \in Ids |-> Live(r)[k]]
      /\ [Live(s) EXCEPT ![id] = c] = [k \in Ids |-> [Live(s) EXCEPT ![id] = c][k]]
  BY DEF Live
<1> QED  BY <1>3, <1>4 DEF r

\* Deleting hides the deleted id and nothing else.
LEMMA DeleteLive ==
    ASSUME NEW s \in Store, NEW id \in Ids
    PROVE  Live(Delete(s, id)) = [Live(s) EXCEPT ![id] = NoCapsule]
<1> DEFINE r == Delete(s, id)
<1>1. /\ r.delta = [s.delta EXCEPT ![id] = NoCapsule]
      /\ r.tombstones = s.tombstones \cup {id}
      /\ r.sealed_deltas = s.sealed_deltas
      /\ r.segments = s.segments
  BY DEF Delete, RebuildActiveSegment, Store
<1>2. s.delta \in [Ids -> Capsules \cup {NoCapsule}]
  BY DEF Store, Tier
<1> HIDE DEF r
<1>3. ASSUME NEW k \in Ids
      PROVE  Live(r)[k] = [Live(s) EXCEPT ![id] = NoCapsule][k]
  <2>1. CASE k = id
    BY <1>1, <1>2, <2>1 DEF Live
  <2>2. CASE k # id
    BY <1>1, <1>2, <2>2 DEF Live
  <2> QED  BY <2>1, <2>2
<1>4. /\ Live(r) = [k \in Ids |-> Live(r)[k]]
      /\ [Live(s) EXCEPT ![id] = NoCapsule]
            = [k \in Ids |-> [Live(s) EXCEPT ![id] = NoCapsule][k]]
  BY DEF Live
<1> QED  BY <1>3, <1>4 DEF r

\* Re-indexing changes no answer and brings the index up to date.
LEMMA RebuildLive ==
    ASSUME NEW s \in Store
    PROVE  /\ Live(RebuildActiveSegment(s)) = Live(s)
           /\ Indexed(RebuildActiveSegment(s))
<1> DEFINE r == RebuildActiveSegment(s)
<1>1. /\ r.delta = s.delta
      /\ r.tombstones = s.tombstones
      /\ r.sealed_deltas = s.sealed_deltas
      /\ r.segments = s.segments
      /\ r.delta_segment = IF Held(s.delta) = {} THEN NoSegment
                           ELSE [epoch |-> s.next_epoch, caps |-> s.delta]
  BY DEF RebuildActiveSegment, Store
<1>2. s.delta \in Tier
  BY DEF Store
<1>3. r.delta_segment.caps = s.delta
  BY <1>1, <1>2, HeldNothing DEF NoSegment
<1> HIDE DEF r
<1>4. Live(r) = Live(s)
  BY <1>1, LiveDepends
<1> QED  BY <1>1, <1>3, <1>4 DEF Indexed, r

\* Sealing a nonempty buffer moves it on top of the runs: no answer changes.
LEMMA SealLive ==
    ASSUME NEW s \in Store, Held(s.delta) # {}
    PROVE  /\ Live(SealActiveBuffer(s)) = Live(s)
           /\ Indexed(SealActiveBuffer(s))
<1> DEFINE r == SealActiveBuffer(s)
           seg == [epoch |-> s.next_epoch, caps |-> s.delta]
<1>1. /\ r.delta = EmptyTier
      /\ r.delta_segment = NoSegment
      /\ r.tombstones = s.tombstones
      /\ r.sealed_deltas = Append(s.sealed_deltas, seg)
      /\ r.segments = s.segments
  BY DEF SealActiveBuffer, Store
<1>2. /\ seg \in Segment
      /\ seg.caps = s.delta
      /\ s.sealed_deltas \in Seq(Segment)
  BY DEF Store, Segment
<1> HIDE DEF r, seg
<1>3. \A k \in Ids : EmptyTier[k] = NoCapsule
  BY DEF EmptyTier
<1>4. \A k \in Ids :
         /\ Holds(r.sealed_deltas, k) <=> s.delta[k] # NoCapsule \/ Holds(s.sealed_deltas, k)
         /\ LastHeld(r.sealed_deltas, k) =
              IF s.delta[k] # NoCapsule THEN s.delta[k] ELSE LastHeld(s.sealed_deltas, k)
  BY <1>1, <1>2, LastHeldAppend
<1>5. ASSUME NEW k \in Ids  PROVE Live(r)[k] = Live(s)[k]
  BY <1>1, <1>3, <1>4 DEF Live
<1>6. Live(r) = Live(s)
  BY <1>5 DEF Live
<1>7. Indexed(r)
  BY <1>1 DEF Indexed, NoSegment
<1> QED  BY <1>6, <1>7 DEF r

\* Minor compaction folds buffer and runs into one run: no answer changes,
\* because the tombstones stay and the base stays below the run.
LEMMA CompactDeltaLive ==
    ASSUME NEW s \in Store
    PROVE  /\ Live(CompactDelta(s)) = Live(s)
           /\ Indexed(s) \/ s.sealed_deltas # <<>> => Indexed(CompactDelta(s))
<1>1. CASE s.sealed_deltas = <<>>
  BY <1>1 DEF CompactDelta
<1>2. CASE s.sealed_deltas # <<>>
  <2> DEFINE r == CompactDelta(s)
             live == CollectDelta(s)
             seg == [epoch |-> s.next_epoch, caps |-> live]
  <2>1. /\ r.delta = EmptyTier
        /\ r.delta_segment = NoSegment
        /\ r.tombstones = s.tombstones
        /\ r.sealed_deltas = IF Held(live) = {} THEN <<>> ELSE <<seg>>
        /\ r.segments = s.segments
    BY <1>2 DEF CompactDelta, Store
  <2>2. seg \in Segment /\ seg.caps = live
    BY CollectType DEF Store, Segment
  <2>3. \A k \in Ids : EmptyTier[k] = NoCapsule
    BY DEF EmptyTier
  <2>4. /\ s.sealed_deltas \in Seq(Segment)
        /\ \A k \in Ids : /\ Held(live) = {} => live[k] = NoCapsule
                          /\ live[k] = IF k \in s.tombstones THEN NoCapsule
                                       ELSE IF s.delta[k] # NoCapsule THEN s.delta[k]
                                       ELSE LastHeld(s.sealed_deltas, k)
    BY DEF Store, CollectDelta, Held
  <2> HIDE DEF r, live, seg
  <2>5. ASSUME NEW k \in Ids
        PROVE  /\ Holds(r.sealed_deltas, k) <=> live[k] # NoCapsule
               /\ LastHeld(r.sealed_deltas, k) = live[k]
    <3>1. CASE Held(live) = {}
      BY <2>1, <2>4, <3>1, HeldEmpty
    <3>2. CASE Held(live) # {}
      BY <2>1, <2>2, <3>2, HeldSingleton
    <3> QED  BY <3>1, <3>2
  <2>6. ASSUME NEW k \in Ids  PROVE Live(r)[k] = Live(s)[k]
    <3>1. Holds(s.sealed_deltas, k) <=> LastHeld(s.sealed_deltas, k) # NoCapsule
      BY <2>4, HeldType
    <3> QED  BY <2>1, <2>3, <2>4, <2>5, <3>1 DEF Live
  <2>7. Live(r) = Live(s)
    BY <2>6 DEF Live
  <2>8. Indexed(r)
    BY <2>1 DEF Indexed, NoSegment
  <2> QED  BY <2>7, <2>8 DEF r
<1> QED  BY <1>1, <1>2

\* When no two base segments share an id, collect_live keeps the live set.
LEMMA CollectAllIsLive ==
    ASSUME NEW s \in Store, Disjoint(s.segments)
    PROVE  CollectAll(s) = Live(s)
<1>1. s.segments \in Seq(Segment)
  BY DEF Store
<1>2. \A k \in Ids : FirstHeld(s.segments, k) = LastHeld(s.segments, k)
  BY <1>1, DisjointFirstIsLast
<1> QED  BY <1>2 DEF CollectAll, Live

\* Adopting a tier as the sole base makes that tier the live set.
LEMMA AdoptBaseLive ==
    ASSUME NEW s \in Store, NEW t \in Tier
    PROVE  /\ Live(AdoptBase(s, t)) = t
           /\ Indexed(AdoptBase(s, t))
           /\ Disjoint(AdoptBase(s, t).segments)
<1> DEFINE r == AdoptBase(s, t)
           seg == [epoch |-> s.next_epoch, caps |-> t]
<1>1. /\ r.delta = EmptyTier
      /\ r.delta_segment = NoSegment
      /\ r.tombstones = {}
      /\ r.sealed_deltas = <<>>
      /\ r.segments = <<seg>>
  BY DEF AdoptBase, ClearDeltaState, Store
<1>2. seg \in Segment /\ seg.caps = t
  BY DEF Store, Segment
<1>3. \A k \in Ids : EmptyTier[k] = NoCapsule
  BY DEF EmptyTier
<1> HIDE DEF r, seg
<1>4. ASSUME NEW k \in Ids  PROVE Live(r)[k] = t[k]
  <2>1. ~Holds(r.sealed_deltas, k)
    BY <1>1, HeldEmpty
  <2>2. LastHeld(r.segments, k) = t[k]
    BY <1>1, <1>2, HeldSingleton
  <2> QED  BY <1>1, <1>3, <2>1, <2>2 DEF Live
<1>5. Live(r) = t
  BY <1>4 DEF Live, Tier
<1>6. Indexed(r)
  BY <1>1 DEF Indexed, NoSegment
<1>7. Disjoint(r.segments)
  BY <1>1 DEF Disjoint
<1> QED  BY <1>5, <1>6, <1>7 DEF r

LEMMA CompactLive ==
    ASSUME NEW s \in Store, Disjoint(s.segments)
    PROVE  /\ Live(Compact(s)) = Live(s)
           /\ Indexed(Compact(s))
           /\ Disjoint(Compact(s).segments)
BY CollectType, CollectAllIsLive, AdoptBaseLive DEF Compact

\* A buffer that has reached the threshold is not empty.
LEMMA FullIsNonempty ==
    ASSUME NEW s \in Store, BufferFull(s)
    PROVE  Held(s.delta) # {}
<1>1. s.delta \in Tier
  BY DEF Store
<1> QED  BY <1>1, HeldCardinality, SealThresholdAssumption DEF BufferFull

\* An insert is a push, then steps that change no answer; it leaves the index
\* up to date and the base alone.
LEMMA InsertLive ==
    ASSUME NEW s \in Store, NEW id \in Ids, NEW c \in Capsules
    PROVE  /\ Live(Insert(s, id, c)) = [Live(s) EXCEPT ![id] = c]
           /\ Indexed(Insert(s, id, c))
           /\ Insert(s, id, c).segments = s.segments
<1> DEFINE p == PushIntoBuffer(s, id, c)
           q == SealOrReindex(p)
<1>1. p \in Store /\ Live(p) = [Live(s) EXCEPT ![id] = c] /\ p.segments = s.segments
  BY PushType, PushLive DEF PushIntoBuffer, Store
<1> HIDE DEF p
<1>2. q \in Store /\ Live(q) = Live(p) /\ Indexed(q) /\ q.segments = p.segments
  <2>1. CASE BufferFull(p)
    <3>1. q = SealActiveBuffer(p) /\ Held(p.delta) # {}
      BY <1>1, <2>1, FullIsNonempty DEF SealOrReindex
    <3>2. SealActiveBuffer(p).segments = p.segments
      BY <1>1 DEF SealActiveBuffer, Store
    <3> QED  BY <1>1, <3>1, <3>2, SealType, SealLive
  <2>2. CASE ~BufferFull(p)
    <3>1. q = RebuildActiveSegment(p)
      BY <2>2 DEF SealOrReindex
    <3>2. RebuildActiveSegment(p).segments = p.segments
      BY <1>1 DEF RebuildActiveSegment, Store
    <3> QED  BY <1>1, <3>1, <3>2, RebuildType, RebuildLive
  <2> QED  BY <2>1, <2>2
<1> HIDE DEF q
<1>3. /\ Live(MaybeAutoCompact(q)) = Live(q)
      /\ Indexed(MaybeAutoCompact(q))
      /\ MaybeAutoCompact(q).segments = q.segments
  <2>1. CompactDelta(q).segments = q.segments
    BY <1>2 DEF CompactDelta, Store
  <2> QED  BY <1>2, <2>1, CompactDeltaLive DEF MaybeAutoCompact
<1>4. Insert(s, id, c) = MaybeAutoCompact(q)
  BY DEF Insert, p, q
<1> QED  BY <1>1, <1>2, <1>3, <1>4

\* A turn of insert_many does the same to the live set and to the base; only
\* the index may be left behind.
LEMMA InsertManyTurnLive ==
    ASSUME NEW s \in Store, NEW id \in Ids, NEW c \in Capsules
    PROVE  /\ Live(InsertManyTurn(s, id, c)) = [Live(s) EXCEPT ![id] = c]
           /\ InsertManyTurn(s, id, c).segments = s.segments
<1> DEFINE p == PushIntoBuffer(s, id, c)
           q == SealActiveBuffer(p)
<1>1. p \in Store /\ Live(p) = [Live(s) EXCEPT ![id] = c] /\ p.segments = s.segments
  BY PushType, PushLive DEF PushIntoBuffer, Store
<1> HIDE DEF p
<1>2. CASE BufferFull(p)
  <2>1. q \in Store /\ Live(q) = Live(p)
    BY <1>1, <1>2, FullIsNonempty, SealType, SealLive
  <2>2. q.segments = p.segments
    BY <1>1 DEF SealActiveBuffer, Store
  <2> HIDE DEF q
  <2>3. CompactDelta(q).segments = q.segments
    BY <2>1 DEF CompactDelta, Store
  <2>4. /\ Live(MaybeAutoCompact(q)) = Live(q)
        /\ MaybeAutoCompact(q).segments = q.segments
    BY <2>1, <2>3, CompactDeltaLive DEF MaybeAutoCompact
  <2>5. InsertManyTurn(s, id, c) = MaybeAutoCompact(q)
    BY <1>2 DEF InsertManyTurn, p, q
  <2> QED  BY <1>1, <2>1, <2>2, <2>4, <2>5
<1>3. CASE ~BufferFull(p)
  <2>1. InsertManyTurn(s, id, c) = p
    BY <1>3 DEF InsertManyTurn, p
  <2> QED  BY <1>1, <2>1
<1> QED  BY <1>2, <1>3

\* What queries see is the live set whenever the index is up to date.
LEMMA IndexedVisible ==
    ASSUME NEW s, Indexed(s)
    PROVE  Visible(s) = Live(s)
BY DEF Indexed, Visible, Live

-----------------------------------------------------------------------------
(* Executing a logged operation and replaying it do the same to the live set. *)

LEMMA ApplyType ==
    ASSUME NEW s \in Store, NEW op \in Ops
    PROVE  Apply(s, op) \in Store
<1>1. op.id \in Ids /\ (op.cap = NoCapsule \/ op.cap \in Capsules)
  BY DEF Ops
<1> QED  BY <1>1, InsertType, DeleteType DEF Apply

LEMMA ApplyLive ==
    ASSUME NEW s \in Store, NEW op \in Ops
    PROVE  /\ Live(Apply(s, op)) = [Live(s) EXCEPT ![op.id] = op.cap]
           /\ Indexed(Apply(s, op))
           /\ Apply(s, op).segments = s.segments
<1>1. op.id \in Ids /\ (op.cap = NoCapsule \/ op.cap \in Capsules)
  BY DEF Ops
<1>2. CASE op.cap = NoCapsule
  <2>1. Apply(s, op) = Delete(s, op.id)
    BY <1>2 DEF Apply
  <2>2. Indexed(Delete(s, op.id)) /\ Delete(s, op.id).segments = s.segments
    <3> DEFINE d == [s EXCEPT !.delta = [@ EXCEPT ![op.id] = NoCapsule],
                              !.tombstones = @ \cup {op.id}]
    <3>1. [s.delta EXCEPT ![op.id] = NoCapsule] \in Tier
      BY <1>1 DEF Store, Tier
    <3>2. d \in Store /\ d.segments = s.segments
      BY <1>1, <3>1 DEF Store
    <3>3. Delete(s, op.id) = RebuildActiveSegment(d)
      BY DEF Delete
    <3> HIDE DEF d
    <3>4. RebuildActiveSegment(d).segments = d.segments
      BY <3>2 DEF RebuildActiveSegment, Store
    <3> QED  BY <3>2, <3>3, <3>4, RebuildLive
  <2> QED  BY <1>1, <1>2, <2>1, <2>2, DeleteLive
<1>3. CASE op.cap # NoCapsule
  BY <1>1, <1>3, InsertLive DEF Apply
<1> QED  BY <1>2, <1>3

LEMMA ReplayOpFields ==
    ASSUME NEW s \in Store, NEW op \in Ops
    PROVE  /\ ReplayOp(s, op) \in Store
           /\ ReplayOp(s, op).delta = [s.delta EXCEPT ![op.id] = op.cap]
           /\ ReplayOp(s, op).tombstones = IF op.cap = NoCapsule
                                           THEN s.tombstones \cup {op.id}
                                           ELSE s.tombstones \ {op.id}
           /\ ReplayOp(s, op).segments = s.segments
           /\ ReplayOp(s, op).sealed_deltas = s.sealed_deltas
<1>1. op.id \in Ids /\ op.cap \in Capsules \cup {NoCapsule}
  BY DEF Ops
<1>2. [s.delta EXCEPT ![op.id] = op.cap] \in Tier
  BY <1>1 DEF Store, Tier
<1>3. /\ s.tombstones \cup {op.id} \in SUBSET Ids
      /\ s.tombstones \ {op.id} \in SUBSET Ids
  BY <1>1 DEF Store
<1> QED  BY <1>2, <1>3 DEF ReplayOp, Store

LEMMA ReplayOpLive ==
    ASSUME NEW s \in Store, NEW op \in Ops
    PROVE  Live(ReplayOp(s, op)) = [Live(s) EXCEPT ![op.id] = op.cap]
<1>1. op.id \in Ids /\ (op.cap = NoCapsule \/ op.cap \in Capsules)
  BY DEF Ops
<1>2. CASE op.cap = NoCapsule
  <2> DEFINE r == ReplayOp(s, op)
             d == Delete(s, op.id)
  <2>1. /\ d.delta = [s.delta EXCEPT ![op.id] = NoCapsule]
        /\ d.tombstones = s.tombstones \cup {op.id}
        /\ d.sealed_deltas = s.sealed_deltas
        /\ d.segments = s.segments
    BY DEF Delete, RebuildActiveSegment, Store
  <2>2. /\ r.delta = d.delta /\ r.tombstones = d.tombstones
        /\ r.sealed_deltas = d.sealed_deltas /\ r.segments = d.segments
    BY <1>2, <2>1, ReplayOpFields
  <2> HIDE DEF r, d
  <2>3. Live(r) = Live(d)
    BY <2>2, LiveDepends
  <2> QED  BY <1>1, <1>2, <2>3, DeleteLive DEF r, d
<1>3. CASE op.cap # NoCapsule
  <2>1. ReplayOp(s, op) = PushIntoBuffer(s, op.id, op.cap)
    BY <1>3 DEF ReplayOp, PushIntoBuffer, Store
  <2> QED  BY <1>1, <1>3, <2>1, PushLive
<1> QED  BY <1>2, <1>3

=============================================================================
