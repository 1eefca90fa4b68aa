----------------------------- MODULE WalReplay ------------------------------
(***************************************************************************)
(* Recovery is not re-execution.  A running store logs an operation and    *)
(* then seals, indexes and compacts as it goes; open_durable folds the log *)
(* into a vector of slots, a map from ids to slots and a tombstone set,    *)
(* and never runs insert or delete.  This module runs the two side by side *)
(* on the same log, one line at a time, with the one-tier account of the   *)
(* fold that DurableStore uses (ReplayOp) next to them.                    *)
(***************************************************************************)
EXTENDS Wal

CONSTANTS InitialBases,    \* the base-segment lists both stores open
          MaxSlots,        \* bound on the slots of the fold
          MaxExecutedEpoch \* bound on the running store's next_epoch

ASSUME InitialBasesAssumption == InitialBases \subseteq Seq(Segment)
ASSUME FoldBoundsAssumption == MaxSlots \in Nat /\ MaxExecutedEpoch \in Nat

VARIABLES
    executed,   \* the store that wrote the log
    slots,      \* delta: the capsules of the log's inserts, by position
    by_id,      \* the slot of an id, 0 when by_id has no entry
    tombstones, \* the fold's tombstone set
    replayed    \* a store that took the same lines through ReplayOp

foldVars == <<executed, slots, by_id, tombstones, replayed>>

FoldInit ==
    /\ \E base \in InitialBases :
           executed = OpenSegments(base) /\ replayed = OpenSegments(base)
    /\ slots = <<>>
    /\ by_id = [id \in Ids |-> 0]
    /\ tombstones = {}

\* Mutant: a reinserted id goes to its old slot.
FoldInsertInPlace(op) ==
    /\ tombstones' = tombstones \ {op.id}
    /\ IF \E p \in DOMAIN slots : slots[p].id = op.id
       THEN /\ slots' = [p \in DOMAIN slots |-> IF slots[p].id = op.id THEN op ELSE slots[p]]
            /\ UNCHANGED by_id
       ELSE /\ slots' = Append(slots, op)
            /\ by_id' = [by_id EXCEPT ![op.id] = Len(slots')]

\* WalOp::Insert: overwrite the slot by_id points at, or take a new one.
FoldInsert(op) ==
    /\ tombstones' = tombstones \ {op.id}
    /\ IF by_id[op.id] # 0
       THEN slots' = [slots EXCEPT ![by_id[op.id]] = op] /\ UNCHANGED by_id
       ELSE /\ slots' = Append(slots, op)
            /\ by_id' = [by_id EXCEPT ![op.id] = Len(slots')]

\* WalOp::Delete: "drop any live delta version by orphaning its slot".
FoldDelete(op) ==
    /\ tombstones' = tombstones \cup {op.id}
    /\ by_id' = [by_id EXCEPT ![op.id] = 0]
    /\ UNCHANGED slots

\* One line of the log: executed by the store that wrote it, folded by the
\* one that reads it.
Line(op) ==
    /\ executed' = Apply(executed, op)
    /\ executed'.next_epoch <= MaxExecutedEpoch
    /\ IF op.cap = NoCapsule THEN FoldDelete(op) ELSE FoldInsert(op)
    /\ Len(slots') <= MaxSlots
    /\ replayed' = ReplayOp(replayed, op)

\* The running store may consolidate its runs between two writes; no line.
ConsolidateRuns ==
    /\ executed' = CompactDelta(executed)
    /\ executed'.next_epoch <= MaxExecutedEpoch
    /\ UNCHANGED <<slots, by_id, tombstones, replayed>>

FoldNext == ConsolidateRuns \/ \E op \in Ops : Line(op)

FoldSpec == FoldInit /\ [][FoldNext]_foldVars

-----------------------------------------------------------------------------
(* The end of the fold. *)

\* Mutant: every slot survives.
EverySlot == DOMAIN slots

\* "a slot survives iff by_id still points at it"
Canonical == {p \in DOMAIN slots : by_id[slots[p].id] = p}

\* The recovered active buffer; a capsule per id if Canonical is sound.
LiveDelta ==
    [id \in Ids |->
        IF \E p \in Canonical : slots[p].id = id
        THEN slots[CHOOSE p \in Canonical : slots[p].id = id].cap
        ELSE NoCapsule]

\* What open_durable returns on the same base.
Recovered ==
    RebuildActiveSegment(
        [OpenSegments(executed.segments) EXCEPT !.delta = LiveDelta,
                                                !.tombstones = tombstones])

-----------------------------------------------------------------------------
(* Properties. *)

\* Every variable keeps its type.
FoldTypeOK ==
    /\ executed \in Store /\ replayed \in Store
    /\ slots \in Seq([id : Ids, cap : Capsules])
    /\ by_id \in [Ids -> Nat]
    /\ tombstones \in SUBSET Ids

\* The surviving slots hold every id at most once - Segment::from_capsules
\* would otherwise reject the recovered buffer as "duplicate capsule IDs" and
\* the store would not open - and together with the tombstones they are what
\* last-writer-wins per id, applied line by line, leaves.
FoldIsReplay ==
    /\ \A p, q \in Canonical : slots[p].id = slots[q].id => p = q
    /\ LiveDelta = replayed.delta
    /\ tombstones = replayed.tombstones

\* A recovered store answers every query as the one that crashed did,
\* although that one has sealed, indexed and compacted in between.
RecoveredAnswersAlike == Visible(Recovered) = Visible(executed)

=============================================================================
