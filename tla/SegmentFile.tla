----------------------------- MODULE SegmentFile -----------------------------
(***************************************************************************)
(* Memories and the two things that keep them: the log line written for    *)
(* each insert, and one segment file, compiled from the store's memories,  *)
(* from a JSON document or from a product export (product.rs), in the      *)
(* clear or sealed (crypto.rs).  The file may be cut short or altered.     *)
(***************************************************************************)
EXTENDS SegmentFormat

CONSTANTS Inserts,       \* JSON bodies sent to the store
          Documents,     \* JSON documents: sequences of capsules
          Exports,       \* product exports: sequences of records
          StableId(_),   \* stable_u128
          SealMagic,     \* "L5MSEAL1"
          Nonce,         \* the nonce getrandom gives
          Keys,          \* data-encryption keys
          SealKey,       \* the one files are sealed with
          Garbage,       \* what an altered cell holds
          NoFile,
          MaxLog         \* bound: log lines

ASSUME MagicAssumption == SealMagic # Magic

VARIABLES live,    \* the store's capsules, as collect_live returns them
          log,     \* the lines of the write-ahead log, with what was stored
          file,    \* the cells of the segment file
          source,  \* what the file was compiled from
          damaged  \* the file was cut or altered since

vars == <<live, log, file, source, damaged>>

-----------------------------------------------------------------------------
(* Sealing.  The AEAD opens only under the key, nonce and magic it was made *)
(* with, and nothing altered opens.                                         *)

Encrypt(key, nonce, plain) == [key |-> key, nonce |-> nonce, plain |-> plain]

Decrypt(key, nonce, body) ==
    IF body = Garbage THEN Malformed
    ELSE IF body.key = key /\ body.nonce = nonce THEN body.plain ELSE Malformed

Seal(plain, key) == <<SealMagic, Nonce, Encrypt(key, Nonce, plain)>>

Unseal(cells, key) ==
    IF Len(cells) = 3 /\ Head(cells) = SealMagic
    THEN Decrypt(key, cells[2], cells[3])
    ELSE Malformed

\* Segment::open_sealed
OpenSealed(cells, key) ==
    LET plain == Unseal(cells, key)
    IN  IF plain = Malformed THEN Malformed ELSE FromBytes(plain)

-----------------------------------------------------------------------------
(* Product exports: a segment per view of the recorded turns. *)

Views == <<"session", "user-turn", "assistant-turn", "turn", "native-capsule">>
SessionTurn == 0

\* record_to_capsule.  The id depends on the memory, session, turn and view.
RecordToCapsule(record, v, turn, text) ==
    LET uri == <<record.memory, record.session, turn, record.evidence, v>>
    IN  [id |-> StableId(<<record.memory, record.session, turn, v>>),
         tenant |-> record.tenant, ctx |-> record.ctx, policy |-> record.policy,
         copied |-> record.copied, claim |-> text, evidence |-> uri, uri |-> uri,
         from |-> record.from, until |-> record.until,
         observed |-> record.observed, verified |-> record.observed,
         anchors |-> None, entities |-> None, embedding |-> None, edges |-> <<>>]

SessionText(record) ==
    FlattenSeq([i \in DOMAIN record.turns |->
                   <<record.turns[i].role>> \o record.turns[i].text])

User == 1
Assistant == 2

\* build_view_capsules
ViewCapsules(records, v) ==
    LET Wanted(turn) == /\ Views[v] = "user-turn" => turn.role = User
                        /\ Views[v] = "assistant-turn" => turn.role = Assistant
        OfTurn(record, turn) ==
            IF Wanted(turn) THEN <<RecordToCapsule(record, v, turn.turn, turn.text)>>
            ELSE <<>>
        Of(record) ==
            IF Views[v] = "session"
            THEN <<RecordToCapsule(record, v, SessionTurn, SessionText(record))>>
            ELSE FlattenSeq([i \in DOMAIN record.turns |-> OfTurn(record, record.turns[i])])
    IN  FlattenSeq([i \in DOMAIN records |-> Of(records[i])])

-----------------------------------------------------------------------------
(* What comes in. *)

\* ProductMemoryRecord and ProductTurn, as serde reads them; an evidence id that
\* is left out is the empty word, as record_to_capsule has it.
ProductTurn == [turn : Nat, role : Nat, text : Seq(Nat)]
ProductMemoryRecord ==
    [memory : Nat, session : Nat, tenant : Nat, evidence : Nat, copied : Nat,
     ctx : Numbers, policy : Numbers, from : Int, until : Int \cup {None},
     observed : Int, turns : Seq(ProductTurn)]

ASSUME InputsAssumption ==
    /\ Inserts \subseteq RawCapsule
    /\ Documents \subseteq Seq(RawCapsule)
    /\ Exports \subseteq Seq(ProductMemoryRecord)

\* No uri is as long as the length that stands for its absence.
ASSUME LengthAssumption ==
    /\ MaxI64 \in Nat /\ MaxI64 > Len(Views)
    /\ \A raw \in Inserts \cup UNION {Range(raws) : raws \in Documents} :
           raw.uri # None => Len(raw.uri) < MaxI64

\* stable_u128 gives numbers.
ASSUME StableIdAssumption ==
    \A records \in Exports, v \in DOMAIN Views : \A record \in Range(records) :
        \A t \in {SessionTurn} \cup {turn.turn : turn \in Range(record.turns)} :
            StableId(<<record.memory, record.session, t, v>>) \in Nat

-----------------------------------------------------------------------------
Init ==
    /\ live = <<>>
    /\ log = <<>>
    /\ file = NoFile
    /\ source = NoFile
    /\ damaged = FALSE

\* POST /v1/memories: the capsule replaces the one of its id, and its line is
\* appended.  (The store does not start on a damaged file.)
Insert(raw) ==
    LET c == FromJson(raw)
        others == RemoveFirstMatch(live, LAMBDA other : other.id = raw.id)
    IN  /\ ~damaged
        /\ Len(log) < MaxLog
        /\ c # Malformed
        /\ live' = Append(others, c)
        /\ log' = Append(log, [line |-> ToJson(c), stored |-> c])
        /\ UNCHANGED <<file, source, damaged>>

\* Assembling comes first: what cannot be assembled leaves the old file alone.
Write(caps, epoch, sealed) ==
    LET bytes == Assemble(caps, epoch)
    IN  /\ bytes # Malformed
        /\ file' = IF sealed THEN Seal(bytes, SealKey) ELSE bytes
        /\ source' = [caps |-> caps, epoch |-> epoch, sealed |-> sealed, lines |-> Len(log)]
        /\ damaged' = FALSE
        /\ UNCHANGED <<live, log>>

\* compile_capsules, from compact_to.
Checkpoint ==
    /\ ~damaged
    /\ live # <<>>
    /\ Write(live, Len(log) + 1, FALSE)

\* build_segment_bytes, for compile_segment and compile_segment_sealed: one
\* capsule that is refused refuses the document.  Bound: before the first insert.
CompileJson(raws, sealed) ==
    LET caps == [i \in DOMAIN raws |-> FromJson(raws[i])]
    IN  /\ log = <<>>
        /\ Malformed \notin Range(caps)
        /\ Write(caps, 1, sealed)

\* compile_product_memories, one of its views.
CompileProduct(records, v) == CompileJson(ViewCapsules(records, v), FALSE)

\* seal_segment_file
SealFile ==
    /\ file # NoFile
    /\ ~source.sealed
    /\ ~damaged
    /\ file' = Seal(file, SealKey)
    /\ source' = [source EXCEPT !.sealed = TRUE]
    /\ UNCHANGED <<live, log, damaged>>

\* Bound: a file is damaged, if at all, before the next insert.
Damageable == file # NoFile /\ ~damaged /\ source.lines = Len(log)

\* A copy that stopped early, a write the disk did not finish.
Cut(n) ==
    /\ Damageable
    /\ file' = SubSeq(file, 1, n)
    /\ damaged' = TRUE
    /\ UNCHANGED <<live, log, source>>

\* A cell comes back from the disk as something else.
Alter(i) ==
    /\ Damageable
    /\ file[i] # Garbage
    /\ file' = [file EXCEPT ![i] = Garbage]
    /\ damaged' = TRUE
    /\ UNCHANGED <<live, log, source>>

Next ==
    \/ \E raw \in Inserts : Insert(raw)
    \/ Checkpoint
    \/ \E raws \in Documents, sealed \in BOOLEAN : CompileJson(raws, sealed)
    \/ \E records \in Exports, v \in DOMAIN Views : CompileProduct(records, v)
    \/ SealFile
    \/ Damageable /\ \E n \in 0 .. Len(file) - 1 : Cut(n)
    \/ Damageable /\ \E i \in DOMAIN file : Alter(i)

Spec == Init /\ [][Next]_vars

-----------------------------------------------------------------------------
(* Properties. *)

Opened == IF source.sealed THEN OpenSealed(file, SealKey) ELSE FromBytes(file)

\* A file has one spelling for "no end" and for the last instant.
Canonical(c) == [c EXCEPT !.until = IF @ = MaxI64 THEN None ELSE @]

Readmissible(caps) ==
    /\ \A i, j \in DOMAIN caps : caps[i].id = caps[j].id => i = j
    /\ \A c \in Range(caps) : \A e \in Range(c.edges) : e.from = c.id

\* An undamaged file opens to exactly the capsules it was compiled from, in the
\* order of their ids, under its epoch; or is refused, when two of them share
\* an id or one has an edge from another capsule: the compiler writes such a
\* file without complaint (compiler.rs, assemble_segment) and only the reader
\* finds out (segment.rs, from_bytes and read_capsule).
FileOutcome ==
    file # NoFile /\ ~damaged =>
        IF Readmissible(source.caps)
        THEN /\ Opened # Malformed
             /\ Opened.epoch = source.epoch
             /\ Opened.caps = [i \in DOMAIN source.caps |->
                                  Canonical(SortedById(source.caps)[i])]
        ELSE Opened = Malformed

\* No file that was cut or altered anywhere opens, by either entry point; a
\* sealed file opens with its key only, and neither kind passes for the other.
DamageRefused ==
    file # NoFile =>
        /\ \A key \in Keys : damaged \/ ~source.sealed \/ key # SealKey
                                => OpenSealed(file, key) = Malformed
        /\ damaged \/ source.sealed => FromBytes(file) = Malformed

\* What the log's line of an insert builds on replay is the capsule that was
\* stored, fingerprints and hashes included, as long as its embedding is finite.
LogReplays ==
    \A entry \in Range(log) :
        Inf \notin Range(entry.stored.embedding) => FromJson(entry.line) = entry.stored

\* A term, the bucket or the distance brings the capsule and the probe together.
Meets(c, probe) ==
    \/ Range(c.anchors) \cap Range(probe.anchors) # {}
    \/ Range(c.entities) \cap Range(probe.entities) # {}
    \/ SemanticBucket(c.bits) = SemanticBucket(probe.bits)
    \/ Distance(c.bits, probe.bits) <= HammingThreshold

\* The index answers as a scan of the capsules would: the supersession flag of
\* the gate scan is set on exactly the superseded; two fingerprints that differ
\* in fewer bits than there are bands share a band; of the gated, the narrowing
\* leaves exactly those the probe meets, and all of them when it meets none.
IndexAgrees(segment) ==
    LET caps == segment.caps
        index == segment.index
    IN  /\ \A o \in DOMAIN caps :
               index.supersede_target[o] <=>
                   \E c \in Range(caps), e \in UNION {Range(d.edges) : d \in Range(caps)} :
                       e \in Range(c.edges) /\ e.kind = "Supersedes" /\ e.to = caps[o].id
        /\ \A o, p \in DOMAIN caps :
               Distance(caps[o].bits, caps[p].bits) < LshBands
                   => p \in SharingABand(index.lsh, caps[o].bits)
        /\ \A p \in DOMAIN caps, gated \in SUBSET DOMAIN caps :
               LET probe == BuildProbe(caps[p].claim)
                   met == {o \in gated : Meets(caps[o], probe)}
               IN  Range(Narrow(index, probe, gated)) =
                       {o - 1 : o \in IF met = {} THEN gated ELSE met}

\* Every embedding is found by itself.  In the write buffer, where the first
\* embedding's dimension decides, this is not so.
DenseAgrees(segment) ==
    \A o \in DOMAIN segment.caps :
        segment.caps[o].embedding # <<>> =>
            o \in DenseCandidates(segment.index.embedding_lsh, segment.caps[o].embedding)

\* The index is exact for the segment in memory and for the one read back from
\* the file, and in the latter no embedding is out of its own reach.
IndexExact ==
    /\ IndexAgrees(FromCapsules(live, 1))
    /\ file # NoFile /\ Opened # Malformed => IndexAgrees(Opened) /\ DenseAgrees(Opened)

=============================================================================
