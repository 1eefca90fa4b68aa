# L5M in TLA+

Models, model checks and proofs of the L5M memory store (`crates/`). L5M keeps
*capsules* - small facts with a tenant, masks, a trust level and a validity
window - and answers queries with those that pass a fixed list of gates. This
directory models the parts where the difficulty lies: the log-structured store
behind every write, its durability across crashes, what a query may answer
while copies of one capsule live in several tiers, and what the audit log says
of it afterwards; the segment file, with what may damage it; and the servers
above the store - HTTP requests through authentication, rate limit, handlers
and counters, and the MCP process.

Contents: [system](#1-the-system) · [modules](#2-modules) · [runs](#3-runs) ·
[proofs](#4-proofs) · [disagreements](#5-where-the-code-and-its-documents-disagree) ·
[limits](#6-what-is-not-modelled) · [plan](#7-plan)

## 1. The system

| Component | State | Operations | Interacts with |
|---|---|---|---|
| `MemoryStore` (`l5m-core/src/store.rs`) | base segments, sealed runs, active buffer and its index, tombstones, next epoch | insert, insert_many, delete, seal, compact_delta, compact, query | the log before every mutation; `retrieve` per tier |
| Write-ahead log (`wal.rs`) | an append-only file of JSON lines | append, replay, truncate | called by the store under its `&mut self` |
| Recovery and checkpoints (`store.rs`, `compiler.rs`, server `main.rs`) | checkpoint files, the log | open_durable, compact_to, newest_checkpoint | the file system, the supervisor |
| Retrieval (`retrieve.rs`, `index.rs`, `bitset.rs`, `probe.rs`) | a segment's index (immutable) | gate scan, candidates, ranking, budget, relation expansion | called per tier by `query` |
| Segment format (`segment.rs`, `compiler.rs`, `product.rs`, `crypto.rs`) | a file, in the clear or sealed | compile, export, seal, open | checkpoints, the CLI |
| Server (`l5m-server/src/lib.rs`) | the store behind an `RwLock`, audit log behind a `Mutex` | HTTP handlers | all of the above |
| Principals (`principal.rs`) | the key cache behind a `Mutex`, a key file | principal, reload | `authorize`, before every handler |
| Rate limiter (`ratelimit.rs`) | a token bucket per tenant behind a `Mutex` | allow | `authorize`, after the scope |
| Metrics (`metrics.rs`) | atomic counters, a histogram, usage rows behind a `Mutex` | record, render | every handler |
| Audit log (`audit.rs`) | hash-chained file, last hash | open, record, verify, export | the query handler |
| MCP server (`l5m-mcp`) | a principal, a sequence number, a store | remember, recall, forget | its host, line by line |
| CLI, clients, pipeline, benchmarks | none | | the library or HTTP |

What is hard in it:

* **Several copies of one id.** An update leaves the old copy in an older tier,
  a delete leaves it under a tombstone, and three different rules (compaction's
  order, `merge_frames`' order, epochs) decide which copy is the newest.
* **Index beside data.** The active buffer is searched through an index that is
  rebuilt after each change - except where a batch defers it or fails.
* **Recovery is not re-execution.** A running store seals and compacts as it
  goes; replay folds the log into one buffer by a different algorithm.
* **Three durable steps per checkpoint**, and a crash between or inside them.
* **Gates per tier, merge across tiers.** Supersession, candidate limits and
  budgets are decided inside a tier, tombstones and versions across tiers.
* **A hash chain written by concurrent requests** in two writes per record, read
  without its mutex by the verifier, and resumed from whatever a crash left.
* **A file that says where its parts are.** Offsets, lengths and counts come from
  the bytes that are being checked, and the index is built beside the capsules.
* **Shared state read in one step and used in another.** The key cache is labelled
  with a time taken before the file is read; the limiter's clock is read before its
  mutex is taken; a query is counted in several additions a scrape may come between.

Correctness, per component: the store is a map from ids to their last written
capsule; a server that comes up after any crash serves every acknowledged write; the recovered
store answers as the crashed one; no answer bypasses a gate; an id is answered
once, and at its freshest version; every disclosed answer is on a chain that
verifies; a file opens to what was compiled or not at all; a tenant is admitted
what its burst and rate give, no more and no less; a request is decided by the
keys that are in the file; the counters agree with what was served since the start; a
memory an agent stored is there, while its process serves, until it is forgotten.

## 2. Modules

| Module | Models | Kind |
|---|---|---|
| `Segments` | a tier as a function from ids to contents; who holds an id first and last | data |
| `StoreOps` | every method of `MemoryStore` as a function of the struct; a log line's operation, as callers and as replay apply it | operators |
| `LiveMap` | what the store promises: a map | abstract specification |
| `MemoryStore` | the operations interleaved, batches turn by turn, failing in the middle | specification, refines `LiveMap` |
| `Wal` | what an append leaves in the file | operators |
| `DurableStore` | the log, checkpoint files, the process, crashes | specification over `StoreOps` and `Wal` |
| `WalReplay` | `open_durable`'s fold next to the store that wrote the log | specification |
| `Retrieval` | `retrieve.rs` on one segment | operators |
| `Query` | `MemoryStore::query` in all modes, over every reachable store | specification over `StoreOps` and `Retrieval` |
| `AuditLog` | the audit trail's file, chain and mutex under concurrent query handlers, crashes, restarts | specification |
| `Codec` | terms and fingerprints; JSON to capsule, capsule to the log's JSON | operators |
| `SegmentIndex` | the index over capsules, LSH tables, bit sets, narrowing | operators over `Codec` |
| `SegmentFormat` | the file as written and as read, every check | operators over `SegmentIndex` |
| `SegmentFile` | inserts with their log lines, checkpoints, documents, exports, sealing, damage | specification over `SegmentFormat` |
| `RateLimiter`, `Principals`, `Metrics` | the three services of a request | state and steps; operators |
| `Server` | requests from arrival to reply, the three composed around the store's lock | specification |
| `Mcp` | the MCP process, its messages, starts and stops | specification over the map of `LiveMap` |
| `MC*` | instances for TLC: bases, contents, probes, symmetry | |
| `StoreOps_proofs` | lemmas about tiers and methods, for the next three | proofs |
| `MemoryStore_proofs`, `DurableStore_proofs`, `Query_proofs` | the store, its durability (with `WalReplay`'s fold), its queries | proofs |
| `AuditLog_proofs`, `Server_proofs`, `Mcp_proofs` | each of its module | proofs |
| `SegmentFile_proofs` | the log's lines, the layout of a file, reading it back, the index | proofs |

**State.** `StoreOps`' `store` is the struct, field by field: `segments` (base),
`sealed_deltas`, `delta` (the buffer), `delta_segment` (its index, with
`NoSegment` for `None`), `tombstones`, `next_epoch`. A segment is its epoch and
a function from ids to contents, since `Segment::from_capsules` rejects
duplicates. The content of a capsule is opaque everywhere except in `Query`,
where it is the record of what retrieval reads.

**Actions.** One action per method, with everything the method calls: `Insert`
is push, seal or re-index, automatic compaction. The server takes a write lock
for the whole of a mutation, so a mutation that cannot fail half-way is one step.
`insert_many` is one step per turn, because its append can fail; `compact_to` and
replay are one step per durable effect, because the process can die between.

**Log.** `Wal`'s `Prefixes` are what a write may leave: nothing, a part of the
line, all but the newline, everything. A line appended behind a line without
newline is glued to it and parses as nothing. A whole line may be refused as well:
`insert` checks nothing, and a lane that `f32` cannot hold comes back as `null`
(`Unreplayable`; `LineFor` reads as `Garbage`).

**Checkpoint files.** In order of modification time, each with the contents it
has when complete and whether it is. `Base` is what `main` loads: the configured
segments, then the newest file, if it opens: a complete file with an edge of another
capsule does not (`Misplaced`), and a live set whose embeddings differ in length
(`Dimension`) is not written at all.

**History.** `DurableStore`'s `allowed` collects, per id, the outcomes callers may
expect: an acknowledged operation leaves one, an unacknowledged one adds its own.
`log_hurt` says that since the log was last emptied an append stopped inside its line or
took a capsule whose line is refused, `unread` which ids' last acknowledged line cannot be
read, `ckpt_hurt` what the last checkpoint that was not adopted may have done to the
newest file. No guard reads them.

**Audit log.** A record's hash is modelled by what it covers: the record's
content behind all that its `prev_hash` covers. The file is its terminated `lines`
and a `tail`, the pieces written since the last newline: one whole record parses,
anything else does not. A handler's `phase` runs from its answer through the mutex
and the two writes to its reply; what the store answers is opaque. `record`'s
error is dropped by the handler, so `WriteFails` leads to a reply as well.

**Segment files.** A file is a sequence of cells - a field, a word of a string, a
length, an edge end - and offsets count cells where the code counts bytes, so that
every offset, length and bound of the layout is computed and checked as the code
does. A text is a sequence of words, an embedding a sequence of small numbers;
BLAKE3 is injective, the AEAD opens only what it sealed with the key. The functions
that draw fingerprint bits and hyperplane signs are parameters.

**Requests.** `Server`'s `pc` says where a request is. Between two steps others run:
the modification time is looked at, compared with the cache's label, taken again, the
file is read, the keys are stored; the clock is read, the bucket is debited under its
mutex; a query holds the read lock while it adds to its counters, one group of
additions at a time, and a write waits for that lock (`Unlocked`). A client may hang
up where a handler awaits. The memories are known by their owner only - `Query` has
their content. `owed` and `late` are histories of the limiter, `calm` marks a request
that looked at the key file when no reload was about to store older keys and that has
met no rewrite since, `served` is what each tenant really got. A server starts on any
memories, with the inserts and deletes its log replayed in its totals and in no row
(`server.replayed`). A body that is not JSON is refused by the extractor, before anybody
asks who sent it; a JSON number, text or list makes `insert` panic, which closes the
connection without a reply (`Panic`); an append that fails is a 400 or a 500 (`LogFails`).
API keys are in the order they are configured in, and the first that matches counts.

**MCP.** One process that answers line by line, so a message is a step; the host
stops and starts it at any time, and an ephemeral store goes with it. A durable one is
read back from its log: `logged` is what a replay of it brings, `log` whether its last line
lacks the newline or a line of it is refused, in which case no start succeeds. An append
that fails leaves any prefix of its line, so that a memory whose `remember` failed may be
there after the next start, and one whose `forget` failed may be gone. `kept` is what was
acknowledged and not forgotten, `doubtful` what failed calls may have left.

**Queries.** A query changes nothing but metrics, so it is an operator of the
store. `aggregate_frame_capsules` iterates a `HashMap`, so it yields the set of
the outcomes any order gives, and the properties speak of each of them. How well
a content fits the query text (score, distance, shared LSH bands) is data of the
content; probes vary time, masks, trust floor, limits, budget, and relations.

## 3. Runs

Passing runs:

| Run | Question | Instance |
|---|---|---|
| `memory_store` | Is the tiered store a map, in batches and their failures too, and does it stay bounded? | 2 ids, 2 contents, buffer of 2, compaction at 3 runs, epochs to 6; bases: none, one segment, two without a shared id |
| `durable_store` | Is every acknowledged write served after any crash or failed append, and is it on the disk? Does a checkpoint change an answer, or drop the log too early? | 2 ids, 2 contents whose embeddings differ in length, all prefixes, unfinished and overwritten files, 3 lines, a crash, a file name |
| `checkpoints` | What does the disk hold, and what keeps a server from coming back, when checkpoints follow each other, crashes too, and neither log nor file need give back what was written? | 1 id, 2 contents (one is refused from the log and from a file), all prefixes, unfinished and overwritten files, 2 lines, 2 files, 2 crashes |
| `audit_log` | Is what can be read of the log one chain, is every disclosure on it, in order of time, and does every query get its answer? | 3 concurrent queries, 2 crashes, 2 times, any write failing |
| `wal_replay` | Does the fold recover what the running store would answer? | 2 ids, 2 contents, 4 slots, epochs to 4 |
| `query` | Gates, uniqueness, freshness, fallback, budget and relations, in all four modes | 3 ids, 7 contents, 8 writes, 4 probes |
| `segment_file` | Does a file open to what it was compiled from, or for which reason not? Is damage always noticed? Does a log line rebuild its capsule? Is the index a scan's equal? | 8 inserts, 2 log lines, 7 documents, 2 exports in 5 views, 2 keys, every cut and every single altered cell |
| `server` | Concurrent requests: keys that rotate, buckets, the lock, counters | 2 requests at a time, 3 in all, 3 tenants, 3 kinds of provider, 3 versions of the key file, 3 ticks, logs that replayed nothing or something, bodies of every kind |
| `mcp` | Does what was acknowledged stay, under its own id, and nothing else, while failed calls leave parts of their lines? | 3 memories, 2 starts, 4 nanoseconds, 2 suffixes, all prefixes |

`memory_store` states the store's contract twice: `ImplementsLiveMap` (the
refinement: every step is one change of the map or none) and `Contract` (which
operation is which change). `QuerySeesLiveSet` relates the two readers of the
tiers - queries, which go through the index and let the last tier win, and
compaction, which goes through the buffer and lets the first win.

Both runs of `DurableStore` allow every fault. `AckedWritesSurvive` speaks of a server
that is up; the other properties say what holds while none is.

`AckedWritesOnDisk`: whatever fails or dies, the lines that can be read and the files that
open hold the outcome of every acknowledged write, with two exceptions. One is a write whose
own line is lost: glued behind an unterminated line, which a failed append left
(`wal.rs:51-52` are two writes), or refused for its lane. The other is what only one
checkpoint held, while that file is written again under the name it got in the same
second (`lib.rs:192`), or was left so. In particular a failed append costs no write
acknowledged before it.

`RefusesOnlyHarmed` and `ComesBack`: a server refuses to start only if, since the log was
last emptied, an append stopped inside its line or took a content its line does not give
back, or the last checkpoint that created its file did not come to adopt it. What they
show is that no other moment to die leaves such a disk - while starting, between two
appends, between the adoption of a checkpoint and the emptying of the log - and that a
checkpoint which is adopted and empties the log heals every earlier harm.

`audit_log` counts what faults cost. `ReadableLogsVerify` needs no fault-free
history: a failed or torn record can spoil lines, but never the chain of a log
that parses. `DisclosuresRecorded` bounds the disclosed answers without a readable record,
those of failed queries included: a failed write costs at most two (its own, and one whose
line ran into the torn one), a query that dies with the process at most one.
`VerifyFailsOnlyMidWrite` is what reading without the mutex costs.

`query` has no separate oracle of what to answer: its properties are the
promises of the documents, each stated as broadly as the code keeps it.
`UpdatesResolveToFreshest` needs the newest version to match and the limits to
leave room (for as many capsules of any one size as there are ids); `FindsSomething` needs a store without deletions; `OneTierIsExact`
takes the promises about versions, supersession and budget, which fail across
tiers, and shows that one tier keeps them all.

`segment_file`'s `FileOutcome` is a round trip with its exceptions spelled out: the
compiler writes documents with a repeated id and edges that start elsewhere, and only
the reader refuses them. `DamageRefused` cuts the file at each length and alters each
cell, header and hash included. `IndexExact` compares the index with a scan: the
supersession flag, the bands, what the narrowing leaves of any set of gated ordinals
(`Meets`: a shared term, the bucket or the distance), and the reach of every embedding - the
last for files only, since in the write buffer, where the first embedding's dimension
decides (`index.rs:87`), an embedding of another dimension is out of reach.

`server`'s properties speak of interleavings. `AdmissionBounded` says what reading the
clock before the mutex costs: a tenant may be granted, beyond burst and rate, at
most what its own requests waited. `DecidesByCurrentKeys` says that concurrent
reloads converge: older keys may be stored last, but under an older label, so the next
request notices. `Metered` accounts for every query between its additions, for the inserts
the start replayed, which the totals have and no row, and for every tenant with a row of
its own; a tenant whose id is that of the overflow row
(`u64::MAX`) shares it.

**Bounds.** Two ids suffice to tell "this id" from "another id", and a third adds
supersession and contradiction between what two others do. A buffer of 2 makes
full, partly full and empty different; 3 runs reach automatic compaction with a
run left over. Two crashes (`checkpoints`) allow a crash during the recovery from a
crash, two files a crash while the second is being written. Three queries are a
record whose write fails, the one that runs into it, and one that follows both. `MaxEpoch`, `MaxWal`,
`MaxCheckpoints`, `MaxCrashes`, `MaxSlots` and `MaxTime` bound counters and sequences in the
guards; every tier arrangement the operations can produce (empty or not, per
id and tier) is reached within them. In `segment_file`, two log lines are two versions
of one memory or two memories; documents are compiled before the first insert and a
file is damaged before the next one, which loses nothing, since a compilation depends
on its document alone and opening on the file alone. In `server`, two requests at a time are a reload or a bucket raced by
another, and a third follows both; three versions of the key file are a rewrite during a
reload and one after it; time passes only with a limiter. Every rewrite has a
modification time of its own. `mcp` reaches two memories in one nanosecond, a wrapped
suffix, a restart, and lines that a failed call left torn, unterminated or whole; it
assumes, with the code, fewer memories in a nanosecond than there
are suffixes (2^16), a start that takes longer than a nanosecond, and a clock that does not
run backwards, not across starts either. Configurations that turn deadlock checking off do so
because the bounds end every behaviour. `DurableStore`'s symmetry
is over ids and contents, in `durable_store` only, where nothing distinguishes them: the
base is empty and both contents are given back (their two lengths matter only by being
different); `Server`'s is over requests.

**Fairness.** `FairSpec` assumes one weak fairness: the supervisor restarts an
exited server, and a started server runs its startup - the code between
`main` and `axum::serve` waits for nobody. Callers and checkpoints get none.
`AuditLog`'s assumes it of each query handler: its writes return, with success or an
error, and the mutex, which tokio hands to its waiters in order, is free again when
the statement that locked it ends.

**Mutants.** Operators marked "Mutant" change a definition as a slip in the code
would - a delete that only cleans the buffer, a seal that keeps the epoch, a
checkpoint that forgets the base, a replay that keeps tombstones - and each
property fails on one of them.

## 4. Proofs

TLAPS proves, for every set of ids and contents and every threshold and bound:

| Theorem | States |
|---|---|
| `MemoryStore_proofs!TypeCorrect` | the store keeps its type |
| `MemoryStore_proofs!QueriesSeeLiveSet` | `[]QuerySeesLiveSet` |
| `MemoryStore_proofs!ContractHolds`, `Refinement` | `Contract`, and that the store implements `LiveMap` |
| `MemoryStore_proofs!BoundsHold` | `[]BoundsKept` |
| `MemoryStore_proofs!RecencyHolds` | `[]RecencyIsEpochOrder` |
| `DurableStore_proofs!FoldTypeCorrect`, `FoldInvariant`, `FoldCorrect`, `RecoveryCorrect` | the fold is last-writer-wins, and a recovered store answers as the one that wrote the log |
| `DurableStore_proofs!TypeCorrect` | log, files, process, store and expectations keep their types |
| `DurableStore_proofs!UnconfiguredWritesSurvive`, `WritesSurvive` | a server that serves holds every acknowledged write, after any crashes, torn lines and partial files |
| `DurableStore_proofs!RefusalMeansHarm` | it refuses to start only after an append that stopped inside its line or took a content that is refused, or a checkpoint that was not adopted, and never once a checkpoint was adopted and emptied the log |
| `DurableStore_proofs!DroppedOnlyBehindCheckpoint`, `CheckpointKeepsAnswers` | the log is emptied only behind a complete checkpoint of the whole live state; no step of `compact_to` changes an answer |
| `DurableStore_proofs!WritesOnDisk` | under every fault, the lines that are read and the files that open hold every acknowledged write, but for one whose own line is lost and for what only an overwritten checkpoint held |
| `Query_proofs!AnswersGated`, `ConflictsGated` | no answer of any mode bypasses a gate, no conflict leaves the caller's authorization |
| `Query_proofs!NoDoubleAnswers` | every mode answers an id once and keeps to its limit |
| `Query_proofs!NeverSilentlyEmpty` | with nothing deleted, a capsule that may be answered keeps the answer from being empty |
| `Query_proofs!UpdatesAreSeen` | a matching capsule is answered under its newest version, whatever tiers the older ones are left in |
| `Query_proofs!OneTierExact` | one tier answers with no replaced and no superseded version, and within the budget |
| `AuditLog_proofs!TypeCorrect`, `ChainUnbroken`, `NoFalseAlarms`, `TimesInOrder` | a log that parses is one chain; an unlocked verifier errs only mid-write; records are in order of time |
| `AuditLog_proofs!EveryCutIsNoticed`, `DisclosuresOnRecord` | a cut or an exchange breaks every chain that verifies; the disclosed answers without a record are at most two per failed write and one per query that died |
| `Server_proofs!TypeCorrect` | no unusable file becomes the key set, no request passes `authorize` without a tenant, every reply that is sent has a status |
| `Server_proofs!LimiterCorrect`, `AdmissionIsBounded`, `RefusalsAreDue` | every bucket stays in balance; no tenant is granted too much or refused too early |
| `Server_proofs!DecisionsUseTheFile` | `[]DecidesByCurrentKeys` |
| `Server_proofs!CountersAgree` | totals, histogram and usage rows differ by the queries between their additions and the replayed inserts |
| `Mcp_proofs!MemoriesStay` | while the process serves, what was acknowledged and not forgotten is stored as it was remembered, and nothing else but what failed calls left |
| `SegmentFile_proofs!LinesReplay` | the log's line of an insert builds the capsule that was stored, for all JSON serde accepts whose embeddings are finite |
| `SegmentFile_proofs!DamageIsRefused` | no file that was cut or altered opens, none opens by another key or as the other kind |
| `SegmentFile_proofs!FilesOpen` | an undamaged file opens to what it was compiled from, or is refused for a shared id or a misplaced edge |
| `SegmentFile_proofs!IndexIsExact` | the index answers as a scan of the capsules would, in memory and read from a file |

So every safety property of section 3's passing runs is a theorem.

**Assumptions.** The `ASSUME`s of the modules, which TLC evaluates on every instance.
The ones with content: ids are a finite set and are ordered; "none" is not a content,
a tenant or a number; seal threshold, request cost, suffixes, histogram bounds and
versions of the key file are not empty or zero; a capsule has at least one token
(`approximate_tokens` counts one for an empty text). Two kinds of theorem assume more,
because without it they are false, as section 5 shows:

* about the live set, that the base segments the store is opened on share no id (`Disjoint`);
* `WritesSurvive`, `CheckpointKeepsAnswers` and `WritesOnDisk`, that the configured
  segments name no id - a deleted capsule of theirs returns with a restart.
  `UnconfiguredWritesSurvive` says what is left with any configured segments: the
  promise for every id they do not name.

`SegmentFile` assumes of its inputs what serde gives (`InputsAssumption`: JSON of the right
shape, numbers that may be unreadable, lanes that may be too big or null), that no uri is as
long as the length that stands for its absence (`LengthAssumption`; `u32::MAX` in the code,
the one reserved number `MaxI64` in the model),
that `stable_u128` gives numbers (`StableIdAssumption`), that the two magics differ
(`MagicAssumption`), and that `None` and `Malformed` are none of the values beside which
they stand. Two of its theorems have hypotheses TLC cannot evaluate, since they range over
everything; each says that values of different kinds differ, or what a parameter gives, and
holds of `segment_file`'s instance:

| Hypothesis | For | Says | In the code |
|---|---|---|---|
| `ErrIsNoSegment` | `FilesOpen` | `Malformed` is no segment | `Err` and `Ok` |
| `GarbageIsNoSeal` | `FilesOpen`, `IndexIsExact` | an altered cell is no ciphertext | the AEAD's tag |
| `NoneIsNoTable` | `IndexIsExact` | `None` is no table | `Option<EmbeddingLsh>` |
| `FeaturesFit` | `IndexIsExact` | no feature sets a bit beyond the fingerprint's | `% 256` over `[u64; 4]`, 16 bands of 16 bits |

`DisclosuresOnRecord` counts, and so takes a finite set of queries. Nothing bounds the
number of runs, segments, lines, files, requests or operations. What TLC can evaluate of
an inductive invariant was checked on the runs' instances before it was proved.

**The store.** `QuerySeesLiveSet` is not inductive: it says nothing of runs and
tombstones during a batch. The invariant that is, `IndexInv`, adds to the type
that the base is disjoint and that the index equals the buffer except while a
batch runs or after one failed. `StoreOps_proofs` proves for each method what it
does to `Live`, one lemma per method (`PushLive`, `SealLive`, `CompactLive`, ...);
those rest on its lemmas relating the first and the last tier that
hold an id to appending and reversing lists of tiers. The refinement then
follows action by action.

**Recovery.** `FoldInv` carries three accounts of the same log: the executed
store, a store that took each line through `ReplayOp`, and the slots. Its parts:
`by_id` points at a slot that holds its id, the slot's content is the buffer's,
the tombstones agree, and both stores have the same live set and base.
`WalReplay` and `DurableStore` share `ReplayOp`, so the theorem carries what
`DurableStore` assumes of replay.

**Durability.** That a server which serves holds what was acknowledged says nothing of
the moments when none serves. `DurableInv` follows the writes through all of them:
`DiskInv` has them in the newest file and the log (the last readable line about an id
is an outcome it may have; where the log is silent, the file has one), `ReplayInv` in the
half-replayed store (the lines before the cursor on top of the base), `ServingInv` in the
store in memory, `CheckpointInv` in the file a checkpoint has just written and is about to
empty the log for. `AgreedBaseInv` keeps the two readers of the base from disagreeing.
`LogDroppedOnlyBehindCheckpoint` is an action property that follows from `CheckpointInv`.
`HarmInv` says for `RefusalMeansHarm` that without harm every line is readable, the last one
terminated, and the newest file opens. `OnDiskInv` follows, for `WritesOnDisk`, the newest
file that opens instead of the newest, and the lines twice: an unterminated last line may
be lost to the next append, so the lines before it must do on their own.

**Audit log.** That a readable log verifies is not inductive: it forgets the chain
while a line is half written. `LogInv` adds the mutex (`WriterInv`: a writer holds it
and owns the last piece of the tail) and, for lines that parse, that they verify,
that a record alone behind them continues them, and that `prev_hash` and the
writer's record do (`ChainInv`). `CleanInv` and `TimeInv` stand on it. `CountInv` is a
balance: disclosed answers without a readable record, plus one when what is behind the
last newline will spoil the next record, are no more than the faults; each step moves at
most one between the sides. It leaves out the failed queries, whose own answers are added
at the end. The theorems
hold for any set of requests and any bounds on crashes and the clock.

**Queries.** The gate theorems need no invariant of the store: they hold of every
frame of any store, through one lemma per function from the gate scan to `Finish`.
Nor does `NoDoubleAnswers`, beyond the type: every frame is a finite set whose ranking
keys are distinct rows of numbers (`Keyed`), since places break ties, and sorting and
truncating keep that. The other theorems use that the index of the buffer is the buffer
(`IndexedInv`), through which the last tier that answers with an id has its live version
(`LiveIsLatest`). `NeverSilentlyEmpty` follows one capsule from the gate scan to the answer:
whatever narrows, ranks, cuts or merges leaves someone of a non-empty set.
`UpdatesAreSeen` follows the newest version itself. The budget is a recursion over ranks:
its loop invariant - what was admitted and what is left make up the budget, or one capsule
alone has used it up - is proved by induction from the least number principle
(`SpentWithin`), and so is that a budget for all refuses none (`RoomForAll`).

**The limiter.** That a tenant is granted no more than `Full + late` is not inductive: a
bucket could hold more than it should. The invariant is a balance, in `LimiterInv`: what a
tenant owes the rate and what its bucket would hold now (`Present`) add up to the burst
at least, and to the burst and `late` at most. A tick moves one unit from debt to bucket, a
grant moves `Cost` the other way, and a bucket that is set back by an older reading gains
at most the time that reading waited. The lower half gives `RefusalsAreDue`, the upper
half `AdmissionIsBounded`; `CallInv` ties the limiter to the requests that use it. All
other steps leave the limiter alone (`LimiterRests`, `HandlersAreAway`).

**The key cache.** `KeyInv` rests on the order inside `reload`: the label is taken before
the keys are read, so what carries the file's present label carries its present keys,
in the cache and in every reload under way. For a calm request it adds that the keys
about to be stored are the file's. The theorem holds for any number of requests and
rewrites.

**Counters.** `MeterInv` equates the sums with the requests at the additions still to come,
counted by where they are, and each tenant's row with what it was served. That
a table of rows adds up to the total whatever order the rows are folded in, and that one
row's increment is the sum's, is proved of the fold itself, by induction on the size of
the set. A table at its limit adds to the overflow row, which `UsageInv` exempts from
"what it was served".

**Memories.** That no stored memory is lost is not inductive: a new id might be an old
one. `KeptInv` dates every id: an id of an earlier nanosecond differs in its time, and
those of the present one are among the last `made` numbers drawn, fewer than there are
suffixes (`IdInv`). It says so of the ids in the store and of those in the log, since a line
that a failed `remember` left comes back with the next start, and relates the two: while the
process serves and the log is not spoilt, they differ by what is doubtful (`Agrees`).

**Log lines.** `StoreInv` says that what is stored is a memory (`Memories`: what
`FromJson` builds from JSON serde reads), that no two share an id, and that each line is
`ToJson` of what was stored with it. The rest is about data: a list of terms is
determined by the set it holds (`AscendingLists`: a strict order of a finite set numbers its
members), so terms that are written as one-word texts and normalized again are
the same (`TermsReadBack`), and with them bits and residuals, which depend on the terms
alone.

**Files.** `FileInv` says what the file is: while undamaged what was assembled, or that
sealed; afterwards that with an end cut off or one cell altered (`Spoilt`). The layout is
`Filed`: each area lies in the file where the header says, and every row, string, edge
and vector in its area where the lengths before it put it (`Offset`, `FlattenPieces`).
For damage only the digest counts: a shorter file has no header or another digest, an
altered one either an altered magic, or an altered digest, or a digest of
something else. For what an undamaged file opens to, each reader is shown to
return what was written - `StringRead`, `ListRead`, `RelationRead`, `VectorRead`, together
`CapsuleRead` - and each of its checks to hold, except the two that `FileOutcome` names:
unique ids (`IdsTell`: as many ids as memories) and edges of one's own (`ReadIsValid`).
What is compiled from exports is shown to be a memory first (`ViewCapsulesType`).

**The index.** It is a function of the capsules, so the theorem follows from `StoreInv`
and `FileInv` and what opening gives. `CommonBand` is a pigeonhole: bands that
all differ would need a differing bit each. `Holding` says what a bit set holds, word by
word; setting, meeting, joining and listing bits are operations on the set
(`SetHolds`, `AndHolds`, `OrHolds`, `OnesOfHolding`), and a fold of `SetBit` over ordinals
holds those ordinals (`BitsHold`). What a posting list finds is the ordinals that have one
of its terms (`Posted`, `LookupIs`), so the narrowing leaves those of the gated that the probe
meets, and lists all of the gated when that set of bits is empty (`NarrowIs`, `NarrowMeets`).

**Left to TLC.** Liveness under fairness (`ComesBack`, `AnswersArrive`) and `ENABLED`, which
the prover does not do; that the code and its documents disagree (section 5); and that the
models can do what they should, which the runs' coverage of every action shows.

## 5. Where the code and its documents disagree

Each run checks one sentence of the repository and finds it violated.

| Run | Sentence | What happens |
|---|---|---|
| `torn_log` | `wal.rs:3` "acknowledged writes survive a crash/restart" | a torn last line makes `Wal::replay` fail; the server exits on every start, the acknowledged lines unread |
| `stale_version` | `COMPLIANCE.md:151` "newest-wins, proven across all storage tiers" | the new version fails the time gate, the old one answers |
| `present_query` | `docs/time-travel.md:55` "Omit `as_of` to query the present" | an omitted `as_of` is `i64::MAX`: a memory that ends in the future is hidden, one that begins in the future is shown |

What `torn_log` shows is a refusal: the line that was torn acknowledged nothing, and those
before it are on the disk, unread at every start. Writes are lost beside it, as
`AckedWritesOnDisk` says:

* A write acknowledged after a failed append whose line lacks its newline is glued to that
  line, and no reader finds it (`wal.rs:51`). Every start is refused.
* A write whose lane `f32` cannot hold is in memory only: its line reads `null`, and every
  start is refused (`compiler.rs:263`, against `compiler.rs:235` "a replay reconstructs an
  equivalent capsule"). `LogReplays` is stated for finite embeddings.
* A second checkpoint in the same second truncates the file of the first, the only copy
  once the log is empty (`lib.rs:192`); a failure or a crash before it is written again
  leaves neither.

A server that is still up can end the first two: a checkpoint that is adopted and empties
the log holds what memory holds. Once it is down, nothing in the code skips the line.

Others, met while modelling and not behind a run:

* A crash while a checkpoint is written leaves a partial file under its final name,
  the newest one at the next start, which does not open: the server exits although the
  log is intact, against `store.rs:505` "a crash mid-compaction recovers by replaying
  the WAL". It is `ckpt_hurt` of `RefusesOnlyHarmed`.
* A capsule of a configured segment that was deleted before a checkpoint is back after
  the next restart, since the checkpoint drops its tombstone and `L5M_SEGMENTS` still
  holds it (`main.rs:72`), against `COMPLIANCE.md:145` "permanently excluded".
* Supersession is looked up in the segment being searched (`retrieve.rs:371`): a capsule
  is answered although a visible one in another tier supersedes it, against
  `docs/security-model.md:19`. `OneTierIsExact` has the case without other tiers.
* `compact` folds base segments that share an id oldest first (`store.rs:469`) and keeps
  the older version, against `store.rs:488` "newest version winning on id collisions";
  queries see the newer one.
* The store accepts capsules of different embedding lengths, which `compile_capsules`
  refuses (every later checkpoint fails), and edges that start at another capsule, which
  it writes and the reader refuses: the checkpoint does not open, and a server that starts on
  it exits (`segment.rs:332`). Either lasts until the capsule is deleted.
* `audit.rs:107` "appends remain verifiable across restarts" fails after a crash between
  a record and its newline, because the chain is resumed from the record and the next
  one is glued to it; the log then neither verifies nor opens, and the server refuses
  to start. `COMPLIANCE.md:80` "recording every disclosure" has an exception: a query whose
  record cannot be written is answered all the same (`lib.rs:284`). Nor is the deletion
  of the last entry noticed (`audit.rs:8`); `CutsAreNoticed` states the rest of that
  sentence.
* A batch that fails leaves its logged capsules invisible until the next write
  (`store.rs:335`; `call = "failed"` in `MemoryStore`); in the fusion modes an older copy
  that scores better than the newest one is answered (`store.rs:641`).
* Deletes are by id, whosever the memory is (`lib.rs:321`, MCP `lib.rs:319`), and metered to
  nobody: `record_delete_for` and `record_error` are never called.
* The totals count the lines a start replays (`store.rs:278`), and count them again after
  the next restart, while the usage rows start empty; after a restart the rows no longer
  add up to the totals (`Metered` has the difference).
* An insert whose body is JSON, but neither an object nor `null`, panics (`lib.rs:302`), so
  the connection is closed without a reply.
* In the MCP server a `remember` that reported an error may be back after a restart and a
  `forget` that reported one may have worked (`wal.rs:51`: the line is written before the
  newline and the sync fail); one torn append makes every later start fail (`main.rs:44`).

## 6. What is not modelled

* Floating-point scores and the dense re-ranking: retrieval orders given scores; that
  re-ranking permutes the pool's scores is not checked.
* The coverage report, timings, the text of the metrics, wording of errors, the manifest
  beside a segment file.
* The width of the offsets in a segment file: cells are counted in unbounded numbers,
  where the code checks its conversions (`checked_range`).
* Power loss: a crash is the death of the process, so unsynced bytes survive.
* Two rewrites of the key file, or two checkpoints, within one tick of the file
  system's clock. A reused checkpoint name is modelled for the newest file only; since the
  name is computed before the lock (`lib.rs:192`), an older one might be overwritten.
* Ties in a ranking of one segment. The code leaves them in order of ordinals, which is
  the order of ids in a file (`compiler.rs:124`) and of insertion in a buffer or run; a tier
  of the model keeps no order of insertion, and `SegmentKey` and the ranking of candidates
  take the order of ids everywhere. No property depends on which of two equals is first.
* In `Mcp`, a clock that is set back, and a `base.segment`, which no server writes.
* In `AuditLog`, a clock that is set back, and tampering beyond single entries.
* In `Server`, the content of memories (`Query` has it), the audit record (`AuditLog` has
  it) and the steps of a checkpoint (`DurableStore` has them).
* The CLI, clients, pipeline, benchmarks, deployment: no state of their own.

## 7. Plan

Done, in this order: `StoreOps` and `MemoryStore` with `LiveMap` and their
proofs; `Wal` and `DurableStore`; `WalReplay` and the proofs of its fold; `Retrieval` and
`Query` and the proofs of the gates; `AuditLog` and its proofs; `Codec` to
`SegmentFile`; `RateLimiter`, `Principals`, `Metrics` and `Server` and the proofs of
the limiter and the key cache; `Mcp`; the proofs of `DurableStore`, of what queries never
lose or repeat, of what the audit log misses, of the counters and of the memories; the
proofs of `SegmentFile`: log lines, damage, reading back, the index.

Next:

1. The answer of every request of `Server` under the fairness of its locks.
2. `BoundsKept`, `FindsSomething` and `OneTierIsExact` beyond their cases: the unsealed
   buffer that recovery leaves (`store.rs:276`), tombstones that use up a tier's limit, and
   budget and supersession across tiers, where the code keeps them only in part.

Abstract specifications to state: `LiveMap` (done), the audit log as an append-only
sequence of disclosures, the key cache as an atomic register.
