---------------------------- MODULE DurableStore ----------------------------
(***************************************************************************)
(* A durable MemoryStore under l5m-server: the write-ahead log, the        *)
(* checkpoint files, the process that dies and is started again.  Memory   *)
(* is StoreOps; this module adds what is on disk and the order in which    *)
(* disk and memory change.                                                 *)
(*                                                                         *)
(* Every mutation holds the store's write lock from its first step to its  *)
(* last, so the steps of two calls never interleave; a crash may come      *)
(* between any two steps, and a failing write may leave any prefix of what *)
(* it was writing.                                                         *)
(*                                                                         *)
(* insert checks nothing, so three kinds of contents are taken that the    *)
(* disk does not give back: one whose line open_durable refuses, one that  *)
(* a segment file is written with but not opened with, and two whose       *)
(* embeddings differ in length, which no segment file is written with.     *)
(***************************************************************************)
EXTENDS Wal

CONSTANTS
    ConfigBase,    \* the segments L5M_SEGMENTS names, in order
    Unreplayable,  \* contents with an embedding lane beyond f32: null in the log
    Misplaced,     \* contents with an edge that starts at another capsule
    Dimension,     \* the length of a content's embedding
    WritePrefixes, \* what an append that does not return Ok may leave behind
    PartialFiles,  \* may a checkpoint stop while its file is unfinished?
    SameSecond,    \* may a checkpoint reuse the file name of the last one?
    NoOp,          \* no append is running
    MaxWal,        \* bound on the lines of the log
    MaxCheckpoints,\* bound on the checkpoint files
    MaxCrashes,    \* bound on crashes
    MaxEpoch       \* bound on next_epoch

ASSUME ConfigBaseAssumption == ConfigBase \in Seq(Segment)
ASSUME ContentsAssumption ==
    /\ Unreplayable \subseteq Capsules /\ Misplaced \subseteq Capsules
    /\ Dimension \in [Capsules -> Nat]
ASSUME PrefixesAssumption == WritePrefixes \subseteq Prefixes
ASSUME FaultsAssumption == PartialFiles \in BOOLEAN /\ SameSecond \in BOOLEAN
ASSUME NoOpAssumption == NoOp \notin Ops
ASSUME BoundsAssumption ==
    {MaxWal, MaxCheckpoints, MaxCrashes, MaxEpoch} \subseteq Nat

VARIABLES
    wal,       \* the lines of l5m.wal, in order
    open_line, \* the last line lacks its newline
    files,     \* checkpoint files by modification time: [ok, seg]
    proc,      \* what the process is doing
    cursor,    \* the next WAL line replay will read
    store,     \* the MemoryStore in memory
    pending,   \* the operation being appended
    allowed,   \* history: per id, the values its acknowledged and its
               \* unacknowledged operations leave possible
    crashes,   \* how often the process has died
    log_hurt,  \* history: since the log was last emptied, an append stopped
               \* inside its line, or wrote one that is refused
    unread,    \* history: the ids whose last acknowledged line cannot be read
    ckpt_hurt  \* history: what the last compact_to that did not adopt its file
               \* may have done to the newest checkpoint

disk == <<wal, open_line, files>>
harm == <<log_hurt, unread, ckpt_hurt>>
vars == <<disk, proc, cursor, store, pending, allowed, crashes, harm>>

\* "refused" is the exit(1) of a server that cannot open its store; the
\* "ckpt_*" values are the steps of compact_to.
Procs == {"down", "refused", "replay", "up", "append",
          "ckpt_write", "ckpt_adopt", "ckpt_truncate"}

\* "overwritten": it had the name of a file that opened before.
Harms == {"no", "unfinished", "overwritten"}

Init ==
    /\ wal = <<>> /\ open_line = FALSE /\ files = <<>>
    /\ proc = "down" /\ cursor = 1
    /\ store = OpenSegments(<<>>)
    /\ pending = NoOp
    /\ allowed = [id \in Ids |-> {LastHeld(ConfigBase, id)}]
    /\ crashes = 0
    /\ log_hurt = FALSE /\ unread = {} /\ ckpt_hurt = "no"

-----------------------------------------------------------------------------
(* The log. *)

\* The line of an operation as open_durable reads it back: capsule_to_json
\* writes a lane that is no finite number as null, and capsule_from_json
\* refuses the null.  (The id of a delete is decimal and always parses.)
LineFor(op) == IF op.cap \in Unreplayable THEN Garbage ELSE op

\* What makes the log one that replay refuses, now or after the next append.
Hurts(prefix) == \/ prefix \in {"torn", "unterminated"}
                 \/ prefix = "whole" /\ LineFor(pending) = Garbage

WriteLine(prefix) ==
    LET file == AppendPrefix(wal, open_line, LineFor(pending), prefix)
    IN  /\ wal' = file[1] /\ open_line' = file[2]
        /\ log_hurt' = (log_hurt \/ Hurts(prefix))

\* An operation that was not acknowledged may or may not take effect.
MayTakeEffect(op) == allowed' = [allowed EXCEPT ![op.id] = @ \cup {op.cap}]

-----------------------------------------------------------------------------
(* Starting. *)

\* Segment::open: the file is whole, and every edge starts at its capsule.
Opens(file) == file.ok /\ \A id \in Ids : file.seg.caps[id] \notin Misplaced

\* l5m-server: the configured segments, then the newest checkpoint file.
Base == IF files = <<>> THEN ConfigBase
        ELSE Append(ConfigBase, files[Len(files)].seg)

\* Mutant: every checkpoint file is opened, not the newest alone.
CanOpenEvery == \A i \in DOMAIN files : Opens(files[i])

CanOpenBase == files # <<>> => Opens(files[Len(files)])

Start ==
    /\ proc = "down"
    /\ CanOpenBase
    /\ store' = OpenSegments(Base)
    /\ proc' = "replay" /\ cursor' = 1
    /\ UNCHANGED <<disk, pending, allowed, crashes, harm>>

StartRefused ==
    /\ proc = "down"
    /\ ~CanOpenBase
    /\ proc' = "refused"
    /\ UNCHANGED <<disk, cursor, store, pending, allowed, crashes, harm>>

\* Mutant: replay reads the first line for ever.
ReplayStuck ==
    /\ proc = "replay" /\ cursor <= Len(wal)
    /\ wal[cursor] # Garbage
    /\ store' = ReplayOp(store, wal[cursor])
    /\ UNCHANGED <<disk, proc, cursor, pending, allowed, crashes, harm>>

\* One line of Wal::replay and its turn of open_durable's fold.  The code
\* parses every line before it folds the first; the store it folds into is
\* its own until it returns, so the two loops are one here.
ReplayLine ==
    /\ proc = "replay" /\ cursor <= Len(wal)
    /\ wal[cursor] # Garbage
    /\ store' = ReplayOp(store, wal[cursor])
    /\ cursor' = cursor + 1
    /\ UNCHANGED <<disk, proc, pending, allowed, crashes, harm>>

\* A line that Wal::replay parses as no operation, or one whose capsule
\* capsule_from_json refuses: open_durable returns the error.
ReplayRefused ==
    /\ proc = "replay" /\ cursor <= Len(wal)
    /\ wal[cursor] = Garbage
    /\ proc' = "refused" /\ cursor' = 1
    /\ store' = OpenSegments(<<>>)
    /\ UNCHANGED <<disk, pending, allowed, crashes, harm>>

ReplayEnd ==
    /\ proc = "replay" /\ cursor > Len(wal)
    /\ store' = RebuildActiveSegment(store)
    /\ proc' = "up" /\ cursor' = 1
    /\ UNCHANGED <<disk, pending, allowed, crashes, harm>>

\* The supervisor starts an exited server again.
StartAgain ==
    /\ proc = "refused"
    /\ proc' = "down"
    /\ UNCHANGED <<disk, cursor, store, pending, allowed, crashes, harm>>

-----------------------------------------------------------------------------
(* Writing. *)

\* insert or delete: the line is handed to Wal::append.
BeginWrite(op) ==
    /\ proc = "up" /\ Len(wal) < MaxWal
    /\ proc' = "append" /\ pending' = op
    /\ UNCHANGED <<disk, cursor, store, allowed, crashes, harm>>

\* append returned Ok: the operation is applied and acknowledged.
EndWrite ==
    /\ proc = "append"
    /\ WriteLine("whole")
    /\ store' = Apply(store, pending)
    /\ store'.next_epoch <= MaxEpoch
    /\ allowed' = [allowed EXCEPT ![pending.id] = {pending.cap}]
    /\ proc' = "up" /\ pending' = NoOp
    /\ unread' = IF open_line \/ LineFor(pending) = Garbage
                 THEN unread \cup {pending.id} ELSE unread \ {pending.id}
    /\ UNCHANGED <<files, cursor, crashes, ckpt_hurt>>

\* append returned Err: the caller sees the error, memory is not touched.
FailWrite ==
    /\ proc = "append"
    /\ \E prefix \in WritePrefixes : WriteLine(prefix)
    /\ MayTakeEffect(pending)
    /\ proc' = "up" /\ pending' = NoOp
    /\ UNCHANGED <<files, cursor, store, crashes, unread, ckpt_hurt>>

\* compact_delta (POST /v1/admin/compact): memory only.
MinorCompact ==
    /\ proc = "up"
    /\ store' = CompactDelta(store)
    /\ store'.next_epoch <= MaxEpoch
    /\ UNCHANGED <<disk, proc, cursor, pending, allowed, crashes, harm>>

-----------------------------------------------------------------------------
(* compact_to (POST /v1/admin/checkpoint). *)

\* Mutant: the checkpoint holds the delta without the base.
NewFileWithoutBase(ok) ==
    [ok |-> ok, seg |-> [epoch |-> store.next_epoch, caps |-> CollectDelta(store)]]

NewFile(ok) ==
    [ok |-> ok, seg |-> [epoch |-> store.next_epoch, caps |-> CollectAll(store)]]

ReplaceLast(seq, x) == [seq EXCEPT ![Len(seq)] = x]

\* assemble_segment: all embeddings have one length.
Assembles(caps) ==
    \A i, j \in Held(caps) : Dimension[caps[i]] = Dimension[caps[j]]

\* Mutant: the log is emptied first.
BeginByTruncating ==
    /\ proc = "up" /\ store.next_epoch < MaxEpoch
    /\ Assembles(CollectAll(store))
    /\ Len(files) < MaxCheckpoints
    /\ files' = Append(files, NewFile(FALSE))
    /\ ckpt_hurt' = IF ckpt_hurt = "no" THEN "unfinished" ELSE ckpt_hurt
    /\ wal' = <<>> /\ open_line' = FALSE
    /\ proc' = "ckpt_write"
    /\ UNCHANGED <<cursor, store, pending, allowed, crashes, log_hurt, unread>>

\* File::create: the new file - or the one of the same second, truncated in
\* place - exists and holds nothing yet.  A live set that does not assemble is
\* refused before that, and the call changes nothing.
BeginCheckpoint ==
    /\ proc = "up" /\ store.next_epoch < MaxEpoch
    /\ Assembles(CollectAll(store))
    /\ \/ /\ Len(files) < MaxCheckpoints
          /\ files' = Append(files, NewFile(FALSE))
          /\ ckpt_hurt' = IF ckpt_hurt = "no" THEN "unfinished" ELSE ckpt_hurt
       \/ /\ SameSecond /\ files # <<>>
          /\ files' = ReplaceLast(files, NewFile(FALSE))
          /\ ckpt_hurt' = IF Opens(files[Len(files)]) THEN "overwritten" ELSE ckpt_hurt
    /\ proc' = "ckpt_write"
    /\ UNCHANGED <<wal, open_line, cursor, store, pending, allowed, crashes,
                   log_hurt, unread>>

\* write_all and sync_all returned.
WriteCheckpoint ==
    /\ proc = "ckpt_write"
    /\ files' = ReplaceLast(files, NewFile(TRUE))
    /\ proc' = "ckpt_adopt"
    /\ UNCHANGED <<wal, open_line, cursor, store, pending, allowed, crashes, harm>>

\* They failed, or after them the manifest or Segment::open did: compact_to
\* returns Err and leaves the file as it is.
FailCheckpoint ==
    /\ \/ proc = "ckpt_write" /\ PartialFiles
       \/ proc = "ckpt_adopt"
    /\ proc' = "up"
    /\ UNCHANGED <<disk, cursor, store, pending, allowed, crashes, harm>>

\* The file opens; it becomes the sole base and the delta state is dropped.
AdoptCheckpoint ==
    /\ proc = "ckpt_adopt"
    /\ Opens(files[Len(files)])
    /\ store' = AdoptBase(store, files[Len(files)].seg.caps)
    /\ proc' = "ckpt_truncate"
    /\ ckpt_hurt' = "no"
    /\ UNCHANGED <<disk, cursor, pending, allowed, crashes, log_hurt, unread>>

\* The file is empty once the first open returns; whether the reopening in
\* append mode then fails makes no difference to the next append.
TruncateWal ==
    /\ proc = "ckpt_truncate"
    /\ wal' = <<>> /\ open_line' = FALSE
    /\ log_hurt' = FALSE /\ unread' = {}
    /\ proc' = "up"
    /\ UNCHANGED <<files, cursor, store, pending, allowed, crashes, ckpt_hurt>>

\* The truncating open failed: the checkpoint stays adopted.
FailTruncate ==
    /\ proc = "ckpt_truncate"
    /\ proc' = "up"
    /\ UNCHANGED <<disk, cursor, store, pending, allowed, crashes, harm>>

-----------------------------------------------------------------------------
(* Crashing.  Memory is gone; what was being written is there in part. *)

Dead ==
    /\ crashes < MaxCrashes
    /\ crashes' = crashes + 1
    /\ proc' = "down" /\ pending' = NoOp /\ cursor' = 1
    /\ store' = OpenSegments(<<>>)

CrashInAppend ==
    /\ proc = "append"
    /\ \E prefix \in WritePrefixes : WriteLine(prefix)
    /\ MayTakeEffect(pending)
    /\ UNCHANGED <<files, unread, ckpt_hurt>>
    /\ Dead

CrashInCheckpoint ==
    /\ proc = "ckpt_write"
    /\ PartialFiles
    /\ UNCHANGED <<disk, allowed, harm>>
    /\ Dead

Crash ==
    /\ proc \in {"replay", "up", "ckpt_adopt", "ckpt_truncate"}
    /\ UNCHANGED <<disk, allowed, harm>>
    /\ Dead

-----------------------------------------------------------------------------

Next ==
    \/ Start \/ StartRefused \/ StartAgain
    \/ ReplayLine \/ ReplayRefused \/ ReplayEnd
    \/ \E op \in Ops : BeginWrite(op)
    \/ EndWrite \/ FailWrite
    \/ MinorCompact
    \/ BeginCheckpoint \/ WriteCheckpoint \/ FailCheckpoint
    \/ AdoptCheckpoint \/ TruncateWal \/ FailTruncate
    \/ CrashInAppend \/ CrashInCheckpoint \/ Crash

Spec == Init /\ [][Next]_vars

\* The supervisor restarts the server and the server runs its startup.
Fairness == WF_vars(Start \/ StartRefused \/ StartAgain
                    \/ ReplayLine \/ ReplayRefused \/ ReplayEnd)

FairSpec == Spec /\ Fairness

-----------------------------------------------------------------------------
(* What the disk holds, read by the most forgiving reader: lines that are    *)
(* refused are skipped, and so are checkpoint files that do not open.        *)

Intact == {i \in DOMAIN files : Opens(files[i])}

DurableBase ==
    IF Intact = {} THEN ConfigBase
    ELSE Append(ConfigBase, files[CHOOSE i \in Intact : \A j \in Intact : j <= i].seg)

Logged(lines, id) == {i \in DOMAIN lines : lines[i] # Garbage /\ lines[i].id = id}

OnDisk(lines, id) ==
    IF Logged(lines, id) = {} THEN LastHeld(DurableBase, id)
    ELSE lines[CHOOSE i \in Logged(lines, id) : \A j \in Logged(lines, id) : j <= i].cap

-----------------------------------------------------------------------------
(* Properties. *)

\* Every variable keeps its type.
TypeOK ==
    /\ wal \in Seq(Ops \cup {Garbage})
    /\ open_line \in BOOLEAN
    /\ files \in Seq([ok : BOOLEAN, seg : Segment])
    /\ proc \in Procs
    /\ cursor \in Nat \ {0}
    /\ store \in Store
    /\ pending \in Ops \cup {NoOp}
    /\ allowed \in [Ids -> SUBSET (Capsules \cup {NoCapsule})]
    /\ crashes \in Nat
    /\ log_hurt \in BOOLEAN /\ unread \in SUBSET Ids /\ ckpt_hurt \in Harms

\* "Acknowledged writes survive a crash/restart": a server that serves serves,
\* for every id, what the last acknowledged operation on it wrote - or what a
\* later, unacknowledged one would have - whatever was torn, wherever it died,
\* and however often replay ran over a log the checkpoint already covers.  Its
\* index is up to date, so that queries answer it.
AckedWritesSurvive ==
    proc = "up" =>
        /\ \A id \in Ids : Live(store)[id] \in allowed[id]
        /\ Visible(store) = Live(store)

\* compact_to reorganises and reports nothing to callers: from its first step
\* to its last - and when it fails between any two - no query answer changes.
CheckpointInvisible ==
    [][proc' # "down" /\ proc \in {"ckpt_write", "ckpt_adopt", "ckpt_truncate"} =>
          Visible(store)' = Visible(store) /\ Live(store)' = Live(store)]_vars

\* compact_to: "Only now is it safe to drop the WAL history" - the log is
\* emptied only when the newest checkpoint opens and holds, on its own, the
\* whole live state.
LogDroppedOnlyBehindCheckpoint ==
    [][wal # <<>> /\ wal' = <<>> =>
          /\ files' # <<>>
          /\ Opens(files'[Len(files')])
          /\ files'[Len(files')].seg.caps = Live(store)']_vars

\* What happened on a disk that may keep a server from starting: since the log
\* was last emptied an append stopped inside its line or took a capsule that
\* its line does not give back, or the last compact_to that created its file
\* did not come to adopt it.
Harmed == log_hurt \/ ckpt_hurt # "no"

\* Nothing else does.  Dying at any other moment - while starting, between two
\* appends, after the checkpoint is adopted and before the log is emptied -
\* leaves a disk that opens, and a checkpoint that is adopted and empties the
\* log heals every harm done before it.
RefusesOnlyHarmed == proc = "refused" => Harmed

\* "Acknowledged writes survive a crash/restart" (wal.rs), "never losing an
\* acknowledged write" (compact_to): the server does not refuse to start when
\* an acknowledged insert is on its disk.
AckedWritesReadable ==
    proc = "refused" => \A id \in Ids : NoCapsule \in allowed[id]

\* After any crash the server serves again, unless its disk was harmed.
ComesBack == proc = "down" ~> proc = "up" \/ Harmed

\* compact_to: "a crash mid-compaction recovers by replaying the WAL on top of
\* the previous state - never losing an acknowledged write".  The lines of the
\* log that are read and the checkpoints that open hold, at every moment and
\* under every fault, the outcome of every acknowledged write, but for two
\* kinds: a write whose own line was appended behind one without its newline
\* or is one that is refused, and - while a file that opened is being written
\* again under its old name, or was left so - a write of which the log says
\* nothing.  So a failed append costs no write acknowledged before it.
AckedWritesOnDisk ==
    \A id \in Ids \ unread :
        \/ OnDisk(wal, id) \in allowed[id]
        \/ ckpt_hurt = "overwritten" /\ Logged(wal, id) = {}

=============================================================================
