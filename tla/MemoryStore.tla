----------------------------- MODULE MemoryStore ----------------------------
(***************************************************************************)
(* A MemoryStore in use: the callers' operations on one store, behind      *)
(* `&mut self` (the server's RwLock), so that one runs at a time.  insert, *)
(* delete and the compactions are one step each: between their WAL append  *)
(* and their return nothing can fail.  insert_many appends once per        *)
(* capsule, and a failing append returns from the middle of the batch, so  *)
(* it is one step per turn of its loop.  A failing append of insert or     *)
(* delete returns before it touches the store: a stuttering step.          *)
(* Between calls `call` also remembers whether a batch has failed and left *)
(* capsules in the buffer that nothing has indexed since.                  *)
(***************************************************************************)
EXTENDS StoreOps

CONSTANTS InitialBases, \* the base-segment lists the store may be opened on
          MaxEpoch      \* bound on next_epoch

ASSUME InitialBasesAssumption == InitialBases \subseteq Seq(Segment)
ASSUME MaxEpochAssumption == MaxEpoch \in Nat

VARIABLES store,  \* the struct
          call    \* "insert_many" while a batch is running; between calls
                  \* "none", or "failed" as long as a failed batch shows

vars == <<store, call>>

Init ==
    /\ \E base \in InitialBases : store = OpenSegments(base)
    /\ call = "none"

Idle == call # "insert_many"

DoInsert(id, c) ==
    /\ Idle
    /\ store' = Insert(store, id, c)
    /\ store'.next_epoch <= MaxEpoch
    /\ call' = "none"

DoDelete(id) ==
    /\ Idle
    /\ store' = Delete(store, id)
    /\ call' = "none"

DoCompact ==
    /\ Idle
    /\ store' = Compact(store)
    /\ store'.next_epoch <= MaxEpoch
    /\ call' = "none"

DoCompactDelta ==
    /\ Idle
    /\ store' = CompactDelta(store)
    /\ store'.next_epoch <= MaxEpoch
    /\ call' = IF store.sealed_deltas = <<>> THEN call ELSE "none"

InsertManyBegin ==
    /\ Idle
    /\ call' = "insert_many"
    /\ UNCHANGED store

InsertManyNext(id, c) ==
    /\ call = "insert_many"
    /\ store' = InsertManyTurn(store, id, c)
    /\ store'.next_epoch <= MaxEpoch
    /\ UNCHANGED call

InsertManyEnd ==
    /\ call = "insert_many"
    /\ store' = RebuildActiveSegment(store)
    /\ call' = "none"

\* An append of the batch fails: `?` returns without the closing re-index.
InsertManyFail ==
    /\ call = "insert_many"
    /\ call' = "failed"
    /\ UNCHANGED store

Next ==
    \/ \E id \in Ids, c \in Capsules : DoInsert(id, c)
    \/ \E id \in Ids : DoDelete(id)
    \/ DoCompact
    \/ DoCompactDelta
    \/ InsertManyBegin
    \/ \E id \in Ids, c \in Capsules : InsertManyNext(id, c)
    \/ InsertManyEnd
    \/ InsertManyFail

Spec == Init /\ [][Next]_vars

-----------------------------------------------------------------------------
(* Properties. *)

\* Every field keeps its type.
TypeOK ==
    /\ store \in Store
    /\ call \in {"none", "insert_many", "failed"}

\* What queries are served from (base, runs and the *index* of the buffer) is
\* what a full compaction would keep (buffer, runs and base, read in another
\* order by collect_live): an inserted capsule is never invisible, a deleted
\* one never served, and folding never changes an answer.  A failed batch suspends this
\* only until the next write or compaction.
QuerySeesLiveSet == call = "none" => Visible(store) = CollectAll(store)

\* "Recency order" of collect_live and of merge_frames, by position, is the
\* order of the epochs: runs are numbered upwards, all above the base and
\* below the epoch the next run will get.
RecencyIsEpochOrder ==
    /\ \A i, j \in DOMAIN store.sealed_deltas :
           i < j => store.sealed_deltas[i].epoch < store.sealed_deltas[j].epoch
    /\ \A i \in DOMAIN store.sealed_deltas :
           /\ store.sealed_deltas[i].epoch < store.next_epoch
           /\ \A b \in DOMAIN store.segments :
                  store.segments[b].epoch < store.sealed_deltas[i].epoch
    /\ \A b \in DOMAIN store.segments :
           store.segments[b].epoch < store.next_epoch

\* delta: "Bounded by seal_threshold" - a buffer that fills is sealed at once,
\* in a batch too, so re-indexing on every write stays bounded - and
\* DEFAULT_AUTO_COMPACT_RUNS: "bounding per-query segment fan-out" - with
\* automatic compaction on n runs, a query meets at most max(1, n - 1) runs.
BoundsKept ==
    /\ Cardinality(Held(store.delta)) < SealThreshold
    /\ AutoCompactRuns # 0 =>
           \/ Len(store.sealed_deltas) <= 1
           \/ Len(store.sealed_deltas) < AutoCompactRuns

LM == INSTANCE LiveMap WITH live <- Live(store)

\* The store implements the map of LiveMap, through batches and their failures.
ImplementsLiveMap == LM!Spec

\* Which step of the map each operation is: an insert replaces its own id and
\* nothing else, a delete hides its own id and nothing else, and compaction of
\* either kind keeps every answer ("newest version winning").
Contract ==
    [][/\ \A id \in Ids, c \in Capsules :
              DoInsert(id, c) \/ InsertManyNext(id, c) => LM!Put(id, c)
       /\ \A id \in Ids : DoDelete(id) => LM!Remove(id)
       /\ DoCompact \/ DoCompactDelta \/ InsertManyEnd => LM!Maintain]_vars

=============================================================================
