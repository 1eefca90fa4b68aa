------------------------ MODULE MemoryStore_proofs --------------------------
(***************************************************************************)
(* Theorems about MemoryStore, for every set of ids and capsules, every    *)
(* seal and auto-compaction threshold and every bound on epochs.           *)
(***************************************************************************)
EXTENDS MemoryStore, StoreOps_proofs

LEMMA InitialBase ==
    ASSUME NEW base \in InitialBases
    PROVE  base \in Seq(Segment)
BY InitialBasesAssumption

LEMMA InitType == Init => TypeOK
BY InitialBase, OpenType DEF Init, TypeOK

\* No operation, and no batch that stops half way, leaves the types.
LEMMA NextType == TypeOK /\ [Next]_vars => TypeOK'
<1> SUFFICES ASSUME TypeOK, [Next]_vars  PROVE TypeOK'
  OBVIOUS
<1> USE DEF TypeOK
<1>1. ASSUME NEW id \in Ids, NEW c \in Capsules, DoInsert(id, c)  PROVE TypeOK'
  BY <1>1, InsertType DEF DoInsert
<1>2. ASSUME NEW id \in Ids, DoDelete(id)  PROVE TypeOK'
  BY <1>2, DeleteType DEF DoDelete
<1>3. CASE DoCompact
  BY <1>3, CollectType, AdoptBaseType DEF DoCompact, Compact
<1>4. CASE DoCompactDelta
  BY <1>4, CompactDeltaType DEF DoCompactDelta
<1>5. CASE InsertManyBegin
  BY <1>5 DEF InsertManyBegin
<1>6. ASSUME NEW id \in Ids, NEW c \in Capsules, InsertManyNext(id, c)  PROVE TypeOK'
  BY <1>6, InsertType DEF InsertManyNext
<1>7. CASE InsertManyEnd
  BY <1>7, RebuildType DEF InsertManyEnd
<1>8. CASE InsertManyFail
  BY <1>8 DEF InsertManyFail
<1>9. CASE UNCHANGED vars
  BY <1>9 DEF vars
<1> QED
  BY <1>1, <1>2, <1>3, <1>4, <1>5, <1>6, <1>7, <1>8, <1>9 DEF Next

\* Every reachable struct is well typed.
THEOREM TypeCorrect == Spec => []TypeOK
<1>1. Init => TypeOK
  BY InitType
<1>2. TypeOK /\ [Next]_vars => TypeOK'
  BY NextType
<1> QED  BY <1>1, <1>2, PTL DEF Spec

-----------------------------------------------------------------------------
(* The live set. *)

\* The base never has two copies of one id: it starts so, and only a full
\* compaction replaces it, by a single segment.
DisjointInv == TypeOK /\ Disjoint(store.segments)

LEMMA NextDisjoint == DisjointInv /\ [Next]_vars => DisjointInv'
<1> SUFFICES ASSUME TypeOK, Disjoint(store.segments), [Next]_vars
             PROVE  DisjointInv'
  BY DEF DisjointInv
<1> USE DEF TypeOK
<1>0. TypeOK'
  BY NextType
<1>1. ASSUME NEW id \in Ids, NEW c \in Capsules, DoInsert(id, c)
      PROVE  store'.segments = store.segments
  BY <1>1, InsertLive DEF DoInsert
<1>2. ASSUME NEW id \in Ids, DoDelete(id)
      PROVE  store'.segments = store.segments
  BY <1>2 DEF DoDelete, Delete, RebuildActiveSegment, Store
<1>3. CASE DoCompact
  BY <1>0, <1>3, CompactLive DEF DoCompact, DisjointInv
<1>4. ASSUME DoCompactDelta  PROVE store'.segments = store.segments
  BY <1>4 DEF DoCompactDelta, CompactDelta, Store
<1>5. ASSUME NEW id \in Ids, NEW c \in Capsules, InsertManyNext(id, c)
      PROVE  store'.segments = store.segments
  BY <1>5, InsertManyTurnLive DEF InsertManyNext
<1>6. ASSUME InsertManyEnd  PROVE store'.segments = store.segments
  BY <1>6 DEF InsertManyEnd, RebuildActiveSegment, Store
<1>7. CASE InsertManyBegin \/ InsertManyFail \/ UNCHANGED vars
  BY <1>0, <1>7 DEF InsertManyBegin, InsertManyFail, vars, DisjointInv
<1>8. ASSUME store'.segments = store.segments  PROVE DisjointInv'
  BY <1>0, <1>8 DEF DisjointInv, Disjoint
<1> QED
  BY <1>1, <1>2, <1>3, <1>4, <1>5, <1>6, <1>7, <1>8 DEF Next

LEMMA InitDisjoint ==
    ASSUME \A base \in InitialBases : Disjoint(base)
    PROVE  Init => DisjointInv
<1> SUFFICES ASSUME Init  PROVE DisjointInv
  OBVIOUS
<1>1. PICK base \in InitialBases : store = OpenSegments(base)
  BY DEF Init
<1>2. store.segments = base
  BY <1>1 DEF OpenSegments
<1> QED  BY <1>1, <1>2, InitType DEF DisjointInv

\* Each operation does to the live set what LiveMap says it does.
LEMMA StepContract ==
    ASSUME DisjointInv
    PROVE  /\ \A id \in Ids, c \in Capsules :
                 DoInsert(id, c) \/ InsertManyNext(id, c) => LM!Put(id, c)
           /\ \A id \in Ids : DoDelete(id) => LM!Remove(id)
           /\ DoCompact \/ DoCompactDelta \/ InsertManyEnd => LM!Maintain
<1>0. store \in Store /\ Disjoint(store.segments)
  BY DEF DisjointInv, TypeOK
<1>1. ASSUME NEW id \in Ids, NEW c \in Capsules,
             DoInsert(id, c) \/ InsertManyNext(id, c)
      PROVE  Live(store') = [Live(store) EXCEPT ![id] = c]
  BY <1>0, <1>1, InsertLive, InsertManyTurnLive DEF DoInsert, InsertManyNext
<1>2. ASSUME NEW id \in Ids, DoDelete(id)
      PROVE  Live(store') = [Live(store) EXCEPT ![id] = NoCapsule]
  BY <1>0, <1>2, DeleteLive DEF DoDelete
<1>3. ASSUME DoCompact \/ DoCompactDelta \/ InsertManyEnd
      PROVE  Live(store') = Live(store)
  BY <1>0, <1>3, CompactLive, CompactDeltaLive, RebuildLive
     DEF DoCompact, DoCompactDelta, InsertManyEnd
<1>4. Live(store)' = Live(store')
  BY DEF Live, Holds, LastHeld
<1> QED  BY <1>1, <1>2, <1>3, <1>4 DEF LM!Put, LM!Remove, LM!Maintain

\* With a base whose segments share no id, inserting replaces exactly the
\* inserted id, deleting hides exactly the deleted one, and no compaction -
\* automatic, minor or full - changes what any id answers.
THEOREM ContractHolds ==
    ASSUME \A base \in InitialBases : Disjoint(base)
    PROVE  Spec => Contract
<1>1. Init => DisjointInv
  BY InitDisjoint
<1>2. DisjointInv /\ [Next]_vars => DisjointInv'
  BY NextDisjoint
<1> DEFINE A == /\ \A id \in Ids, c \in Capsules :
                      DoInsert(id, c) \/ InsertManyNext(id, c) => LM!Put(id, c)
                /\ \A id \in Ids : DoDelete(id) => LM!Remove(id)
                /\ DoCompact \/ DoCompactDelta \/ InsertManyEnd => LM!Maintain
<1>3. DisjointInv => A
  BY StepContract
<1>4. DisjointInv /\ [Next]_vars => [A]_vars
  BY <1>3
<1>5. Contract <=> [][A]_vars
  BY DEF Contract
<1> HIDE DEF A
<1> QED  BY <1>1, <1>2, <1>4, <1>5, PTL DEF Spec

\* So the tiered store implements the plain map.
THEOREM Refinement ==
    ASSUME \A base \in InitialBases : Disjoint(base)
    PROVE  Spec => ImplementsLiveMap
<1>1. Init => DisjointInv
  BY InitDisjoint
<1>2. DisjointInv /\ [Next]_vars => DisjointInv'
  BY NextDisjoint
<1>3. Init => LM!Init
  BY InitType, LiveType DEF TypeOK, LM!Init, LM!TypeOK
<1>4. DisjointInv /\ [Next]_vars => [LM!Next]_(Live(store))
  <2> SUFFICES ASSUME DisjointInv, [Next]_vars
               PROVE  LM!Next \/ UNCHANGED Live(store)
    OBVIOUS
  <2>1. CASE UNCHANGED store
    BY <2>1 DEF Live, Holds, LastHeld
  <2>2. CASE DoCompact \/ DoCompactDelta \/ InsertManyEnd
    BY <2>2, StepContract DEF LM!Maintain
  <2>3. ASSUME NEW id \in Ids, NEW c \in Capsules,
               DoInsert(id, c) \/ InsertManyNext(id, c)
        PROVE  LM!Next
    BY <2>3, StepContract DEF LM!Next
  <2>4. ASSUME NEW id \in Ids, DoDelete(id)  PROVE LM!Next
    BY <2>4, StepContract DEF LM!Next
  <2> QED  BY <2>1, <2>2, <2>3, <2>4
           DEF Next, vars, InsertManyBegin, InsertManyFail
<1> QED  BY <1>1, <1>2, <1>3, <1>4, PTL DEF Spec, ImplementsLiveMap, LM!Spec

-----------------------------------------------------------------------------
(* The index of the buffer. *)

\* Strengthening of QuerySeesLiveSet: between calls the index of the buffer is
\* the buffer.  Inside a batch it may lag, which is why the batch must end.
IndexInv == DisjointInv /\ (call = "none" => Indexed(store))

LEMMA NextIndexed == IndexInv /\ [Next]_vars => IndexInv'
<1> SUFFICES ASSUME IndexInv, [Next]_vars  PROVE call' = "none" => Indexed(store')
  <2>1. Indexed(store)' = Indexed(store')
    BY DEF Indexed
  <2> QED  BY <2>1, NextDisjoint DEF IndexInv
<1>0. store \in Store /\ Disjoint(store.segments) /\ (call = "none" => Indexed(store))
  BY DEF IndexInv, DisjointInv, TypeOK
<1>1. ASSUME NEW id \in Ids, NEW c \in Capsules, DoInsert(id, c)
      PROVE  Indexed(store')
  BY <1>0, <1>1, InsertLive DEF DoInsert
<1>2. ASSUME NEW id \in Ids, DoDelete(id)  PROVE Indexed(store')
  <2> DEFINE d == [store EXCEPT !.delta = [@ EXCEPT ![id] = NoCapsule],
                                !.tombstones = @ \cup {id}]
  <2>1. [store.delta EXCEPT ![id] = NoCapsule] \in Tier
    BY <1>0 DEF Store, Tier
  <2>2. d \in Store
    BY <1>0, <2>1 DEF Store
  <2>3. store' = RebuildActiveSegment(d)
    BY <1>2 DEF DoDelete, Delete
  <2> HIDE DEF d
  <2> QED  BY <2>2, <2>3, RebuildLive
<1>3. CASE DoCompact
  BY <1>0, <1>3, CompactLive DEF DoCompact
<1>4. CASE DoCompactDelta
  BY <1>0, <1>4, CompactDeltaLive DEF DoCompactDelta
<1>5. ASSUME NEW id \in Ids, NEW c \in Capsules, InsertManyNext(id, c)
      PROVE  call' # "none"
  BY <1>5 DEF InsertManyNext
<1>6. CASE InsertManyEnd
  BY <1>0, <1>6, RebuildLive DEF InsertManyEnd
<1>7. CASE InsertManyBegin \/ InsertManyFail \/ UNCHANGED vars
  BY <1>0, <1>7 DEF InsertManyBegin, InsertManyFail, vars
<1> QED
  BY <1>1, <1>2, <1>3, <1>4, <1>5, <1>6, <1>7 DEF Next

\* If the base segments share no id, then between calls, unless a failed batch
\* still shows, a query is served exactly the capsules a full compaction would
\* keep.
THEOREM QueriesSeeLiveSet ==
    ASSUME \A base \in InitialBases : Disjoint(base)
    PROVE  Spec => []QuerySeesLiveSet
<1>1. Init => IndexInv
  <2> SUFFICES ASSUME Init  PROVE IndexInv
    OBVIOUS
  <2>1. Indexed(store)
    BY DEF Init, OpenSegments, Indexed, NoSegment
  <2> QED  BY <2>1, InitDisjoint DEF IndexInv
<1>2. IndexInv /\ [Next]_vars => IndexInv'
  BY NextIndexed
<1>3. IndexInv => QuerySeesLiveSet
  BY IndexedVisible, CollectAllIsLive
     DEF IndexInv, DisjointInv, TypeOK, QuerySeesLiveSet
<1> QED  BY <1>1, <1>2, <1>3, PTL DEF Spec

-----------------------------------------------------------------------------
(* Bounds. *)

Runs(s) == Len(s.sealed_deltas)
Size(s) == Cardinality(Held(s.delta))

\* What the three ways of leaving a write do to the buffer and to the runs.
LEMMA EmptySize ==
    ASSUME NEW s, s.delta = EmptyTier
    PROVE  Size(s) = 0 /\ Size(s) < SealThreshold
<1>1. Size(s) = 0
  BY EmptyTierType, FS_EmptySet DEF Size
<1> QED  BY <1>1, SealThresholdAssumption

LEMMA CompactDeltaBounds ==
    ASSUME NEW s \in Store
    PROVE  /\ Size(s) < SealThreshold => Size(CompactDelta(s)) < SealThreshold
           /\ Runs(CompactDelta(s)) <= 1
<1>1. CASE s.sealed_deltas = <<>>
  BY <1>1 DEF CompactDelta, Runs
<1>2. CASE s.sealed_deltas # <<>>
  <2> DEFINE r == CompactDelta(s)
             seg == [epoch |-> s.next_epoch, caps |-> CollectDelta(s)]
  <2>1. /\ r.delta = EmptyTier
        /\ r.sealed_deltas = IF Held(CollectDelta(s)) = {} THEN <<>> ELSE <<seg>>
    BY <1>2 DEF CompactDelta, Store
  <2>2. Len(<<>>) = 0 /\ Len(<<seg>>) = 1
    OBVIOUS
  <2> HIDE DEF r, seg
  <2>3. Runs(r) <= 1
    BY <2>1, <2>2 DEF Runs
  <2> QED  BY <2>1, <2>3, EmptySize DEF r
<1> QED  BY <1>1, <1>2

LEMMA SealBounds ==
    ASSUME NEW s \in Store, BufferFull(s)
    PROVE  /\ Size(SealActiveBuffer(s)) < SealThreshold
           /\ Runs(SealActiveBuffer(s)) = Runs(s) + 1
<1> DEFINE r == SealActiveBuffer(s)
           seg == [epoch |-> s.next_epoch, caps |-> s.delta]
<1>1. r.delta = EmptyTier /\ r.sealed_deltas = Append(s.sealed_deltas, seg)
  BY FullIsNonempty DEF SealActiveBuffer, Store
<1>2. seg \in Segment /\ s.sealed_deltas \in Seq(Segment)
  BY DEF Store, Segment
<1> HIDE DEF r, seg
<1>3. Runs(r) = Runs(s) + 1
  BY <1>1, <1>2 DEF Runs
<1> QED  BY <1>1, <1>3, EmptySize DEF r

\* A buffer below the threshold, and an update that keeps it there.
FanOut(s) == AutoCompactRuns # 0 => Runs(s) <= 1 \/ Runs(s) < AutoCompactRuns

LEMMA AutoCompactBounds ==
    ASSUME NEW s \in Store, Size(s) < SealThreshold
    PROVE  Size(MaybeAutoCompact(s)) < SealThreshold /\ FanOut(MaybeAutoCompact(s))
<1>1. Runs(s) \in Nat
  BY DEF Runs, Store
<1>2. CASE AutoCompactRuns # 0 /\ Runs(s) >= AutoCompactRuns
  BY <1>2, CompactDeltaBounds DEF MaybeAutoCompact, FanOut, Runs
<1>3. CASE ~(AutoCompactRuns # 0 /\ Runs(s) >= AutoCompactRuns)
  BY <1>1, <1>3, AutoCompactRunsAssumption DEF MaybeAutoCompact, FanOut, Runs
<1> QED  BY <1>2, <1>3

LEMMA InsertBounds ==
    ASSUME NEW s \in Store, NEW id \in Ids, NEW c \in Capsules, FanOut(s)
    PROVE  /\ Size(Insert(s, id, c)) < SealThreshold
           /\ FanOut(Insert(s, id, c))
           /\ Size(InsertManyTurn(s, id, c)) < SealThreshold
           /\ FanOut(InsertManyTurn(s, id, c))
<1> DEFINE p == PushIntoBuffer(s, id, c)
<1>1. p \in Store /\ p.sealed_deltas = s.sealed_deltas
  BY PushType DEF PushIntoBuffer, Store
<1>2. /\ Insert(s, id, c) = MaybeAutoCompact(SealOrReindex(p))
      /\ InsertManyTurn(s, id, c) =
            IF BufferFull(p) THEN MaybeAutoCompact(SealActiveBuffer(p)) ELSE p
  BY DEF Insert, InsertManyTurn
<1> HIDE DEF p
<1>3. CASE BufferFull(p)
  BY <1>1, <1>2, <1>3, SealType, SealBounds, AutoCompactBounds DEF SealOrReindex
<1>4. CASE ~BufferFull(p)
  <2>1. Size(p) \in Nat /\ Size(p) < SealThreshold
    <3>1. p.delta \in Tier
      BY <1>1 DEF Store
    <3> QED
      BY <1>4, <3>1, HeldCardinality, SealThresholdAssumption DEF BufferFull, Size
  <2> DEFINE q == RebuildActiveSegment(p)
  <2>2. q \in Store /\ q.delta = p.delta
    BY <1>1, RebuildType DEF RebuildActiveSegment, Store
  <2>3. Size(q) < SealThreshold
    BY <2>1, <2>2 DEF Size
  <2> HIDE DEF q
  <2>4. Insert(s, id, c) = MaybeAutoCompact(q) /\ InsertManyTurn(s, id, c) = p
    BY <1>2, <1>4 DEF SealOrReindex, q
  <2>5. FanOut(p)
    BY <1>1 DEF FanOut, Runs
  <2> QED  BY <2>1, <2>2, <2>3, <2>4, <2>5, AutoCompactBounds
<1> QED  BY <1>3, <1>4

LEMMA DeleteBounds ==
    ASSUME NEW s \in Store, NEW id \in Ids
    PROVE  /\ Size(s) < SealThreshold => Size(Delete(s, id)) < SealThreshold
           /\ Runs(Delete(s, id)) = Runs(s)
<1> DEFINE r == Delete(s, id)
<1>1. /\ r.delta = [s.delta EXCEPT ![id] = NoCapsule]
      /\ r.sealed_deltas = s.sealed_deltas
  BY DEF Delete, RebuildActiveSegment, Store
<1>2. s.delta \in Tier /\ r.delta \in Tier
  BY DeleteType DEF Store
<1> HIDE DEF r
<1>3. Held(r.delta) \subseteq Held(s.delta)
  BY <1>1, <1>2 DEF Held, Tier
<1>4. Size(r) <= Size(s) /\ Size(r) \in Nat /\ Size(s) \in Nat
  BY <1>2, <1>3, HeldCardinality, FS_Subset DEF Size
<1> QED  BY <1>1, <1>4, SealThresholdAssumption DEF Runs, r

\* Every reachable buffer is below the seal threshold and, with automatic
\* compaction on, every query meets a bounded number of runs, whatever mix of
\* inserts, batches, failed batches, deletes and compactions led there.
THEOREM BoundsHold == Spec => []BoundsKept
<1> DEFINE B == Size(store) < SealThreshold /\ FanOut(store)
<1>1. Init => B
  <2> SUFFICES ASSUME Init  PROVE B
    OBVIOUS
  <2>1. store.delta = EmptyTier /\ store.sealed_deltas = <<>>
    BY DEF Init, OpenSegments
  <2>2. Len(<<>>) = 0
    OBVIOUS
  <2> QED  BY <2>1, <2>2, EmptySize DEF FanOut, Runs
<1>2. TypeOK /\ B /\ [Next]_vars => B'
  <2> SUFFICES ASSUME TypeOK, B, [Next]_vars
               PROVE  Size(store') < SealThreshold /\ FanOut(store')
    BY DEF Size, FanOut, Runs, Held
  <2>0. store \in Store
    BY DEF TypeOK
  <2>1. ASSUME NEW id \in Ids, NEW c \in Capsules,
               DoInsert(id, c) \/ InsertManyNext(id, c)
        PROVE  Size(store') < SealThreshold /\ FanOut(store')
    BY <2>0, <2>1, InsertBounds DEF DoInsert, InsertManyNext
  <2>2. ASSUME NEW id \in Ids, DoDelete(id)
        PROVE  Size(store') < SealThreshold /\ FanOut(store')
    BY <2>0, <2>2, DeleteBounds DEF DoDelete, FanOut
  <2>3. CASE DoCompact
    <3>1. store'.delta = EmptyTier /\ store'.sealed_deltas = <<>>
      BY <2>0, <2>3 DEF DoCompact, Compact, AdoptBase, ClearDeltaState, Store
    <3>2. Len(<<>>) = 0
      OBVIOUS
    <3> QED  BY <3>1, <3>2, EmptySize DEF FanOut, Runs
  <2>4. CASE DoCompactDelta
    BY <2>0, <2>4, CompactDeltaBounds DEF DoCompactDelta, FanOut
  <2>5. CASE InsertManyEnd
    <3>1. /\ store'.delta = store.delta
          /\ store'.sealed_deltas = store.sealed_deltas
      BY <2>0, <2>5 DEF InsertManyEnd, RebuildActiveSegment, Store
    <3> QED  BY <3>1 DEF Size, FanOut, Runs
  <2>6. CASE UNCHANGED store
    BY <2>6
  <2> QED  BY <2>1, <2>2, <2>3, <2>4, <2>5, <2>6
           DEF Next, vars, InsertManyBegin, InsertManyFail
<1>3. B => BoundsKept
  BY DEF Size, FanOut, Runs, BoundsKept
<1> HIDE DEF B
<1> QED  BY <1>1, <1>2, <1>3, TypeCorrect, PTL DEF Spec

-----------------------------------------------------------------------------
(* Epochs. *)

\* RecencyIsEpochOrder, of any store.
Recent(s) ==
    /\ \A i, j \in DOMAIN s.sealed_deltas :
           i < j => s.sealed_deltas[i].epoch < s.sealed_deltas[j].epoch
    /\ \A i \in DOMAIN s.sealed_deltas :
           /\ s.sealed_deltas[i].epoch < s.next_epoch
           /\ \A b \in DOMAIN s.segments :
                  s.segments[b].epoch < s.sealed_deltas[i].epoch
    /\ \A b \in DOMAIN s.segments : s.segments[b].epoch < s.next_epoch

LEMMA RecentDepends ==
    ASSUME NEW s, NEW r, Recent(s),
           r.sealed_deltas = s.sealed_deltas, r.segments = s.segments,
           r.next_epoch = s.next_epoch
    PROVE  Recent(r)
BY DEF Recent

LEMMA StoreEpochs ==
    ASSUME NEW s \in Store
    PROVE  /\ s.next_epoch \in Nat
           /\ \A i \in DOMAIN s.sealed_deltas : s.sealed_deltas[i].epoch \in Nat
           /\ \A b \in DOMAIN s.segments : s.segments[b].epoch \in Nat
<1>1. s.sealed_deltas \in Seq(Segment) /\ s.segments \in Seq(Segment)
  BY DEF Store
<1> QED  BY <1>1, EpochType DEF Store

LEMMA SealRecent ==
    ASSUME NEW s \in Store, Recent(s)
    PROVE  Recent(SealActiveBuffer(s))
<1>1. CASE Held(s.delta) = {}
  BY <1>1 DEF SealActiveBuffer
<1>2. CASE Held(s.delta) # {}
  <2> DEFINE r == SealActiveBuffer(s)
             seg == [epoch |-> s.next_epoch, caps |-> s.delta]
             n == Len(s.sealed_deltas)
  <2>1. /\ r.sealed_deltas = Append(s.sealed_deltas, seg)
        /\ r.segments = s.segments
        /\ r.next_epoch = s.next_epoch + 1
    BY <1>2 DEF SealActiveBuffer, Store
  <2>2. seg \in Segment /\ seg.epoch = s.next_epoch /\ s.sealed_deltas \in Seq(Segment)
    BY DEF Store, Segment
  <2> HIDE DEF r, seg
  <2>3. /\ n \in Nat
        /\ DOMAIN s.sealed_deltas = 1 .. n
        /\ DOMAIN r.sealed_deltas = 1 .. n + 1
        /\ r.sealed_deltas[n + 1] = seg
        /\ \A i \in 1 .. n : r.sealed_deltas[i] = s.sealed_deltas[i]
    BY <2>1, <2>2
  <2> HIDE DEF n
  <2>4. ASSUME NEW i \in 1 .. n + 1
        PROVE  \/ i = n + 1 /\ r.sealed_deltas[i].epoch = s.next_epoch
               \/ i \in 1 .. n /\ r.sealed_deltas[i] = s.sealed_deltas[i]
    BY <2>2, <2>3
  <2>5. ASSUME NEW i \in DOMAIN r.sealed_deltas, NEW j \in DOMAIN r.sealed_deltas, i < j
        PROVE  r.sealed_deltas[i].epoch < r.sealed_deltas[j].epoch
    <3>1. i \in 1 .. n /\ r.sealed_deltas[i] = s.sealed_deltas[i]
      BY <2>3, <2>4, <2>5
    <3>2. CASE j = n + 1
      BY <2>2, <2>3, <3>1, <3>2 DEF Recent
    <3>3. CASE j \in 1 .. n
      BY <2>3, <2>5, <3>1, <3>3 DEF Recent
    <3> QED  BY <2>3, <2>4, <3>2, <3>3
  <2>6. ASSUME NEW i \in DOMAIN r.sealed_deltas
        PROVE  /\ r.sealed_deltas[i].epoch < r.next_epoch
               /\ \A b \in DOMAIN r.segments : r.segments[b].epoch < r.sealed_deltas[i].epoch
    <3>1. CASE i = n + 1
      <4>1. r.sealed_deltas[i].epoch = s.next_epoch
        BY <2>2, <2>3, <3>1
      <4> QED  BY <2>1, <4>1, StoreEpochs DEF Recent
    <3>2. CASE i \in 1 .. n
      <4>1. r.sealed_deltas[i] = s.sealed_deltas[i] /\ i \in DOMAIN s.sealed_deltas
        BY <2>3, <3>2
      <4>2. s.sealed_deltas[i].epoch < s.next_epoch
        BY <4>1 DEF Recent
      <4> QED  BY <2>1, <4>1, <4>2, StoreEpochs DEF Recent
    <3> QED  BY <2>3, <2>4, <3>1, <3>2
  <2>7. \A b \in DOMAIN r.segments : r.segments[b].epoch < r.next_epoch
    BY <2>1, StoreEpochs DEF Recent
  <2> QED  BY <2>5, <2>6, <2>7 DEF Recent, r
<1> QED  BY <1>1, <1>2

LEMMA CompactDeltaRecent ==
    ASSUME NEW s \in Store, Recent(s)
    PROVE  Recent(CompactDelta(s))
<1>1. CASE s.sealed_deltas = <<>>
  BY <1>1 DEF CompactDelta
<1>2. CASE s.sealed_deltas # <<>>
  <2> DEFINE r == CompactDelta(s)
             seg == [epoch |-> s.next_epoch, caps |-> CollectDelta(s)]
  <2>1. /\ r.sealed_deltas = <<>> \/ r.sealed_deltas = <<seg>>
        /\ r.segments = s.segments
        /\ r.next_epoch = s.next_epoch + 1
    BY <1>2 DEF CompactDelta, Store
  <2>2. seg.epoch = s.next_epoch
    OBVIOUS
  <2> HIDE DEF r, seg
  <2>3. \A i \in DOMAIN r.sealed_deltas : i = 1 /\ r.sealed_deltas[i].epoch = s.next_epoch
    BY <2>1, <2>2
  <2> QED  BY <2>1, <2>3, StoreEpochs DEF Recent, r
<1> QED  BY <1>1, <1>2

LEMMA InsertRecent ==
    ASSUME NEW s \in Store, Recent(s), NEW id \in Ids, NEW c \in Capsules
    PROVE  Recent(Insert(s, id, c)) /\ Recent(InsertManyTurn(s, id, c))
<1> DEFINE p == PushIntoBuffer(s, id, c)
<1>1. p \in Store /\ Recent(p)
  <2>1. /\ p.sealed_deltas = s.sealed_deltas
        /\ p.segments = s.segments
        /\ p.next_epoch = s.next_epoch
    BY DEF PushIntoBuffer, Store
  <2> QED  BY <2>1, PushType, RecentDepends
<1>2. /\ Insert(s, id, c) = MaybeAutoCompact(SealOrReindex(p))
      /\ InsertManyTurn(s, id, c) =
            IF BufferFull(p) THEN MaybeAutoCompact(SealActiveBuffer(p)) ELSE p
  BY DEF Insert, InsertManyTurn
<1> HIDE DEF p
<1>3. RebuildActiveSegment(p) \in Store /\ Recent(RebuildActiveSegment(p))
  <2>1. /\ RebuildActiveSegment(p).sealed_deltas = p.sealed_deltas
        /\ RebuildActiveSegment(p).segments = p.segments
        /\ RebuildActiveSegment(p).next_epoch = p.next_epoch
    BY <1>1 DEF RebuildActiveSegment, Store
  <2> QED  BY <1>1, <2>1, RebuildType, RecentDepends
<1>4. SealActiveBuffer(p) \in Store /\ Recent(SealActiveBuffer(p))
  BY <1>1, SealType, SealRecent
<1>5. SealOrReindex(p) \in Store /\ Recent(SealOrReindex(p))
  BY <1>3, <1>4 DEF SealOrReindex
<1>6. \A q \in Store : Recent(q) => Recent(MaybeAutoCompact(q))
  BY CompactDeltaRecent DEF MaybeAutoCompact
<1> QED  BY <1>1, <1>2, <1>4, <1>5, <1>6

\* Position is age: the order in which collect_live and merge_frames read the
\* tiers is the order in which the tiers were made.
THEOREM RecencyHolds == Spec => []RecencyIsEpochOrder
<1>1. Init => Recent(store)
  <2> SUFFICES ASSUME Init  PROVE Recent(store)
    OBVIOUS
  <2>1. PICK base \in InitialBases : store = OpenSegments(base)
    BY DEF Init
  <2>2. /\ store.sealed_deltas = <<>>
        /\ store.segments = base
        /\ store.next_epoch = FirstEpoch(base)
    BY <2>1 DEF OpenSegments
  <2>3. \A b \in DOMAIN base : base[b].epoch < FirstEpoch(base)
    BY <2>1, InitialBase, OpenType
  <2> QED  BY <2>2, <2>3 DEF Recent
<1>2. TypeOK /\ Recent(store) /\ [Next]_vars => Recent(store)'
  <2> SUFFICES ASSUME TypeOK, Recent(store), [Next]_vars  PROVE Recent(store')
    BY DEF Recent
  <2>0. store \in Store
    BY DEF TypeOK
  <2>1. ASSUME NEW id \in Ids, NEW c \in Capsules,
               DoInsert(id, c) \/ InsertManyNext(id, c)
        PROVE  Recent(store')
    BY <2>0, <2>1, InsertRecent DEF DoInsert, InsertManyNext
  <2>2. ASSUME \/ \E id \in Ids : DoDelete(id)
               \/ InsertManyEnd
        PROVE  Recent(store')
    <3>1. /\ store'.sealed_deltas = store.sealed_deltas
          /\ store'.segments = store.segments
          /\ store'.next_epoch = store.next_epoch
      BY <2>0, <2>2
         DEF DoDelete, Delete, InsertManyEnd, RebuildActiveSegment, Store
    <3> QED  BY <3>1, RecentDepends
  <2>3. CASE DoCompact
    <3> DEFINE seg == [epoch |-> store.next_epoch, caps |-> CollectAll(store)]
    <3>1. /\ store'.sealed_deltas = <<>>
          /\ store'.segments = <<seg>>
          /\ store'.next_epoch = store.next_epoch + 1
      BY <2>0, <2>3 DEF DoCompact, Compact, AdoptBase, ClearDeltaState, Store
    <3>2. seg.epoch = store.next_epoch /\ store.next_epoch \in Nat
      BY <2>0 DEF Store
    <3> HIDE DEF seg
    <3> QED  BY <3>1, <3>2 DEF Recent
  <2>4. CASE DoCompactDelta
    BY <2>0, <2>4, CompactDeltaRecent DEF DoCompactDelta
  <2>5. CASE UNCHANGED store
    BY <2>5
  <2> QED  BY <2>1, <2>2, <2>3, <2>4, <2>5
           DEF Next, vars, InsertManyBegin, InsertManyFail
<1>3. Recent(store) => RecencyIsEpochOrder
  BY DEF Recent, RecencyIsEpochOrder
<1> QED  BY <1>1, <1>2, <1>3, TypeCorrect, PTL DEF Spec

=============================================================================
