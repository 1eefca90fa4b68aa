------------------------------ MODULE StoreOps ------------------------------
(***************************************************************************)
(* The methods of MemoryStore (crates/l5m-core/src/store.rs) as functions  *)
(* from the struct they are called on to the struct they leave behind.     *)
(* A store is the record of the fields of the struct; seal_threshold and   *)
(* auto_compact_runs never change after construction and are constants.    *)
(* The metrics counters are write-only for every method of this module and *)
(* are left out.                                                           *)
(***************************************************************************)
EXTENDS Segments

CONSTANTS SealThreshold,   \* seal_threshold: with_seal_threshold takes max(1)
          AutoCompactRuns  \* auto_compact_runs; 0 stands for None

ASSUME SealThresholdAssumption == SealThreshold \in Nat \ {0}
ASSUME AutoCompactRunsAssumption == AutoCompactRuns \in Nat

Store == [segments      : Seq(Segment),
          delta         : Tier,
          delta_segment : Segment,
          sealed_deltas : Seq(Segment),
          tombstones    : SUBSET Ids,
          next_epoch    : Nat]

\* open_segments: one above the greatest epoch of the base, 1 without a base.
FirstEpoch(base) ==
    IF base = <<>> THEN 1
    ELSE 1 + (CHOOSE e \in {base[i].epoch : i \in DOMAIN base} :
                  \A i \in DOMAIN base : base[i].epoch <= e)

\* A store opened on base segments (empty() when there are none).
OpenSegments(base) ==
    [segments      |-> base,
     delta         |-> EmptyTier,
     delta_segment |-> NoSegment,
     sealed_deltas |-> <<>>,
     tombstones    |-> {},
     next_epoch    |-> FirstEpoch(base)]

-----------------------------------------------------------------------------
(* The active buffer. *)

PushIntoBuffer(s, id, c) ==
    [s EXCEPT !.tombstones = @ \ {id},
              !.delta = [@ EXCEPT ![id] = c]]

RebuildActiveSegment(s) ==
    [s EXCEPT !.delta_segment =
        IF Held(s.delta) = {} THEN NoSegment
        ELSE [epoch |-> s.next_epoch, caps |-> s.delta]]

\* Mutant: the epoch is not advanced.
SealSameEpoch(s) ==
    IF Held(s.delta) = {} THEN s
    ELSE [s EXCEPT !.sealed_deltas =
                       Append(@, [epoch |-> s.next_epoch, caps |-> s.delta]),
                   !.delta = EmptyTier,
                   !.delta_segment = NoSegment]

SealActiveBuffer(s) ==
    IF Held(s.delta) = {} THEN s
    ELSE [s EXCEPT !.sealed_deltas =
                       Append(@, [epoch |-> s.next_epoch, caps |-> s.delta]),
                   !.delta = EmptyTier,
                   !.delta_segment = NoSegment,
                   !.next_epoch = @ + 1]

BufferFull(s) == Cardinality(Held(s.delta)) >= SealThreshold

SealOrReindex(s) ==
    IF BufferFull(s) THEN SealActiveBuffer(s) ELSE RebuildActiveSegment(s)

-----------------------------------------------------------------------------
(* Compaction. *)

\* collect_live(false): the buffer, then the runs newest first.
CollectDelta(s) ==
    [id \in Ids |->
        IF id \in s.tombstones THEN NoCapsule
        ELSE IF s.delta[id] # NoCapsule THEN s.delta[id]
        ELSE LastHeld(s.sealed_deltas, id)]

\* collect_live(true): then the base segments, in the order they are loaded.
CollectAll(s) ==
    [id \in Ids |->
        IF id \in s.tombstones THEN NoCapsule
        ELSE IF s.delta[id] # NoCapsule THEN s.delta[id]
        ELSE IF Holds(s.sealed_deltas, id) THEN LastHeld(s.sealed_deltas, id)
        ELSE FirstHeld(s.segments, id)]

ClearDeltaState(s) ==
    [s EXCEPT !.delta = EmptyTier,
              !.sealed_deltas = <<>>,
              !.delta_segment = NoSegment,
              !.tombstones = {}]

\* What compact and compact_to have in common: `folded` becomes the base.
AdoptBase(s, folded) ==
    [ClearDeltaState(s) EXCEPT
        !.segments = <<[epoch |-> s.next_epoch, caps |-> folded]>>,
        !.next_epoch = @ + 1]

\* Mutant: include_base passed as false.
CompactForgetsBase(s) == AdoptBase(s, CollectDelta(s))

Compact(s) == AdoptBase(s, CollectAll(s))

\* Mutant: minor compaction resets the tombstones like a full one.
CompactDeltaClearing(s) ==
    IF s.sealed_deltas = <<>> THEN s
    ELSE LET live == CollectDelta(s)
         IN  [ClearDeltaState(s) EXCEPT
                 !.sealed_deltas =
                     IF Held(live) = {} THEN <<>>
                     ELSE <<[epoch |-> s.next_epoch, caps |-> live]>>,
                 !.next_epoch = @ + 1]

CompactDelta(s) ==
    IF s.sealed_deltas = <<>> THEN s
    ELSE LET live == CollectDelta(s)
         IN  [s EXCEPT !.delta = EmptyTier,
                       !.delta_segment = NoSegment,
                       !.sealed_deltas =
                           IF Held(live) = {} THEN <<>>
                           ELSE <<[epoch |-> s.next_epoch, caps |-> live]>>,
                       !.next_epoch = @ + 1]

\* Mutant: one run too late.
CompactOneRunLate(s) ==
    IF AutoCompactRuns # 0 /\ Len(s.sealed_deltas) > AutoCompactRuns
    THEN CompactDelta(s) ELSE s

MaybeAutoCompact(s) ==
    IF AutoCompactRuns # 0 /\ Len(s.sealed_deltas) >= AutoCompactRuns
    THEN CompactDelta(s) ELSE s

-----------------------------------------------------------------------------
(* The public mutations, after their WAL append has succeeded. *)

Insert(s, id, c) == MaybeAutoCompact(SealOrReindex(PushIntoBuffer(s, id, c)))

\* One turn of insert_many's loop: no re-index unless the buffer filled.
InsertManyTurn(s, id, c) ==
    LET pushed == PushIntoBuffer(s, id, c)
    IN  IF BufferFull(pushed) THEN MaybeAutoCompact(SealActiveBuffer(pushed))
        ELSE pushed

\* Mutant: the tombstone set receives the deleted copy instead of its id.
DeleteMarksCopy(s, id) ==
    RebuildActiveSegment([s EXCEPT !.delta = [@ EXCEPT ![id] = NoCapsule],
                                   !.tombstones = @ \cup {s.delta[id]}])

\* Mutant: the index keeps the deleted id, and the tombstone is left out
\* because the buffer held a copy to drop.
DeleteFromBufferOnly(s, id) ==
    IF s.delta[id] # NoCapsule
    THEN [s EXCEPT !.delta = [@ EXCEPT ![id] = NoCapsule]]
    ELSE RebuildActiveSegment([s EXCEPT !.tombstones = @ \cup {id}])

Delete(s, id) ==
    RebuildActiveSegment([s EXCEPT !.delta = [@ EXCEPT ![id] = NoCapsule],
                                   !.tombstones = @ \cup {id}])

-----------------------------------------------------------------------------
(* The operations as the log holds them, and open_durable's fold of one. *)

\* A logged mutation; a delete is one whose content is NoCapsule.
Ops == [id : Ids, cap : Capsules \cup {NoCapsule}]

\* The mutation itself, as insert and delete apply it once it is logged.
Apply(s, op) == IF op.cap = NoCapsule THEN Delete(s, op.id)
                ELSE Insert(s, op.id, op.cap)

\* Mutant: replaying an insert leaves the id's tombstone.
ReplayKeepsTombstone(s, op) ==
    [s EXCEPT !.delta = [@ EXCEPT ![op.id] = op.cap],
              !.tombstones = IF op.cap = NoCapsule THEN @ \cup {op.id} ELSE @]

\* Mutant: replaying a delete records what it deleted instead of the id.
ReplayMarksCopy(s, op) ==
    [s EXCEPT !.delta = [@ EXCEPT ![op.id] = op.cap],
              !.tombstones = IF op.cap = NoCapsule THEN @ \cup {op.cap}
                             ELSE @ \ {op.id}]

\* One operation of open_durable's fold: the buffer takes the capsule whatever
\* its size - nothing is sealed or indexed before the end of the log.
ReplayOp(s, op) ==
    [s EXCEPT !.delta = [@ EXCEPT ![op.id] = op.cap],
              !.tombstones = IF op.cap = NoCapsule THEN @ \cup {op.id}
                             ELSE @ \ {op.id}]

-----------------------------------------------------------------------------
(* What the tiers mean. *)

\* What a query whose gates every capsule passes returns for an id: the
\* segments of live_segments merged in order (base, sealed runs, the index
\* of the active buffer), tombstoned ids dropped.
Visible(s) ==
    [id \in Ids |->
        IF id \in s.tombstones THEN NoCapsule
        ELSE IF s.delta_segment.caps[id] # NoCapsule THEN s.delta_segment.caps[id]
        ELSE IF Holds(s.sealed_deltas, id) THEN LastHeld(s.sealed_deltas, id)
        ELSE LastHeld(s.segments, id)]

\* The same with the buffer itself in place of its index: the newest copy of
\* every id that has not been deleted.
Live(s) ==
    [id \in Ids |->
        IF id \in s.tombstones THEN NoCapsule
        ELSE IF s.delta[id] # NoCapsule THEN s.delta[id]
        ELSE IF Holds(s.sealed_deltas, id) THEN LastHeld(s.sealed_deltas, id)
        ELSE LastHeld(s.segments, id)]

=============================================================================
