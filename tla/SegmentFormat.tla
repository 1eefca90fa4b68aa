---------------------------- MODULE SegmentFormat ----------------------------
(***************************************************************************)
(* The segment file (crates/l5m-core/src/compiler.rs writes it, segment.rs *)
(* reads it): a header, a metadata row per capsule, a string area, a       *)
(* relation area, an index summary and the embedding rows.                 *)
(*                                                                         *)
(* A file is a sequence of cells; a cell is one field of the header or of  *)
(* a row, one word of a string, one length, one edge end.  Offsets and     *)
(* lengths count cells where the code counts bytes.                        *)
(***************************************************************************)
EXTENDS SegmentIndex

CONSTANTS MaxI64,    \* i64::MAX, which the file has for no end date
          Magic,     \* "L5MSEG01"
          IndexMark  \* "L5MIDX01"

Version == 1

\* Where the fields of the header are, from 1.
HeaderLen == 13
HashOffset == 11
EmbedDimOffset == 12
VectorAreaOffset == 13
MetadataLen == 20
RelationLen == 3
SummaryLen == 2

NoBlob == [offset |-> MaxI64, len |-> MaxI64]

-----------------------------------------------------------------------------
(* Writing. *)

\* sort_by_key: stable, so capsules of equal ids stay in their order.
IdBefore(caps, i, j) ==
    \/ caps[i].id < caps[j].id
    \/ caps[i].id = caps[j].id /\ i < j

SortedById(caps) ==
    LET order == InOrder(DOMAIN caps, LAMBDA i, j : IdBefore(caps, i, j))
    IN  [i \in DOMAIN caps |-> caps[order[i]]]

\* write_string_list: the count, then each string behind its length.
StringList(terms) ==
    <<Len(terms)>> \o FlattenSeq([i \in DOMAIN terms |-> <<1, terms[i]>>])

Strings(c) == <<c.claim, c.evidence, Default(c.uri, <<>>),
                StringList(c.anchors), StringList(c.entities)>>

StringsOf(c) == FlattenSeq(Strings(c))

EdgesOf(c) ==
    FlattenSeq([i \in DOMAIN c.edges |->
                   <<c.edges[i].from, c.edges[i].to,
                     [kind |-> c.edges[i].kind, weight |-> c.edges[i].weight]>>])

\* How many cells the capsules before the i-th put into an area.
Before(caps, i, Area(_)) ==
    Len(FlattenSeq([j \in 1 .. i - 1 |-> Area(caps[j])]))

\* MetadataRefs: where the strings of the i-th capsule went.
BlobRefs(caps, i) ==
    [k \in 1 .. 5 |->
        IF k = 3 /\ caps[i].uri = None THEN NoBlob
        ELSE [offset |-> Before(caps, i, StringsOf)
                           + Len(FlattenSeq(SubSeq(Strings(caps[i]), 1, k - 1))),
              len |-> Len(Strings(caps[i])[k])]]

\* write_metadata
Metadata(caps, i) ==
    LET c == caps[i]
    IN  <<c.id, c.tenant, c.copied, c.source_hash, c.bits, c.residual,
          c.from, Default(c.until, MaxI64), c.observed, c.verified, c.ctx, c.policy>>
        \o BlobRefs(caps, i)
        \o <<Before(caps, i, EdgesOf), Len(c.edges), c.content_hash>>

\* write_header_prefix; the hash is still zero.
Header(epoch, tenant, count, strings, relations, index, dim) ==
    <<Magic, Version, HeaderLen, epoch, tenant, count,
      HeaderLen, strings, relations, index, 0, dim, index + SummaryLen>>

\* Mutant: the digest is of what follows the hash field.
SegmentHashOfBody(bytes) == Hash(SubSeq(bytes, HashOffset + 1, Len(bytes)))

\* segment_hash: of everything, with the hash field taken as zero.
SegmentHash(bytes) == Hash([bytes EXCEPT ![HashOffset] = 0])

TenantOf(caps) == IF caps = <<>> THEN 0 ELSE caps[1].tenant

EmbeddingDim(caps) == Max({0} \cup {Len(c.embedding) : c \in Range(caps)})

\* Embeddings are for all capsules of a segment, and of one dimension.
SameDimension(caps) == \A c \in Range(caps) : Len(c.embedding) = EmbeddingDim(caps)

\* assemble_segment.  Duplicate ids and edges whose source is another capsule
\* are not looked for.
Assemble(unsorted, epoch) ==
    LET caps == SortedById(unsorted)
        All(Area(_)) == FlattenSeq([i \in DOMAIN caps |-> Area(caps[i])])
        strings == HeaderLen + Len(caps) * MetadataLen
        relations == strings + Len(All(StringsOf))
        index == relations + Len(All(EdgesOf))
        bytes == Header(epoch, TenantOf(caps), Len(caps),
                        strings, relations, index, EmbeddingDim(caps))
                 \o FlattenSeq([i \in DOMAIN caps |-> Metadata(caps, i)])
                 \o All(StringsOf) \o All(EdgesOf)
                 \o <<IndexMark, Len(caps)>>
                 \o All(LAMBDA c : c.embedding)
    IN  IF ~SameDimension(caps) THEN Malformed
        ELSE [bytes EXCEPT ![HashOffset] = SegmentHash(bytes)]

-----------------------------------------------------------------------------
(* Reading.  Positions count from 0, as the offsets in the file do. *)

InRange(start, len, limit) == start + len <= limit

Cells(bytes, start, len) == SubSeq(bytes, start + 1, start + len)

\* read_string, within the string area strings .. relations.
ReadString(bytes, strings, relations, ref) ==
    IF InRange(strings + ref.offset, ref.len, relations)
    THEN Cells(bytes, strings + ref.offset, ref.len)
    ELSE Malformed

ReadOptionalString(bytes, strings, relations, ref) ==
    IF ref = NoBlob THEN None ELSE ReadString(bytes, strings, relations, ref)

\* read_string_list: the terms behind their lengths, and nothing after them.
ReadStringList(bytes, strings, relations, ref) ==
    LET list == ReadString(bytes, strings, relations, ref)
    IN  IF list = Malformed THEN Malformed
        ELSE IF Len(list) # 2 * list[1] + 1 THEN Malformed
        ELSE [i \in 1 .. list[1] |-> list[2 * i + 1]]

\* validate_header
ValidHeader(bytes) ==
    /\ Len(bytes) >= HeaderLen
    /\ bytes[1] = Magic
    /\ bytes[2] = Version
    /\ bytes[3] = HeaderLen

\* validate_sections: contiguous, in order, and the summary counts the capsules.
ValidSections(bytes) ==
    LET count == bytes[6]
        index == bytes[10]
    IN  /\ bytes[7] = HeaderLen
        /\ bytes[8] = bytes[7] + count * MetadataLen
        /\ bytes[8] <= bytes[9]
        /\ bytes[9] <= index
        /\ InRange(index, SummaryLen, Len(bytes))
        /\ Cells(bytes, index, SummaryLen) = <<IndexMark, count>>

\* read_capsule and the embedding row; None is what a MaxI64 end date reads as.
ReadCapsule(bytes, o) ==
    LET row == Cells(bytes, HeaderLen + (o - 1) * MetadataLen, MetadataLen)
        relation(k) == Cells(bytes, bytes[9] + row[18] + (k - 1) * RelationLen,
                             RelationLen)
        dim == bytes[EmbedDimOffset]
        Text(k) == ReadString(bytes, bytes[8], bytes[9], row[k])
        List(k) == ReadStringList(bytes, bytes[8], bytes[9], row[k])
    IN  [id |-> row[1], tenant |-> row[2], copied |-> row[3], source_hash |-> row[4],
         bits |-> row[5], residual |-> row[6], from |-> row[7],
         until |-> IF row[8] = MaxI64 THEN None ELSE row[8],
         observed |-> row[9], verified |-> row[10], ctx |-> row[11], policy |-> row[12],
         claim |-> Text(13), evidence |-> Text(14),
         uri |-> ReadOptionalString(bytes, bytes[8], bytes[9], row[15]),
         anchors |-> List(16), entities |-> List(17),
         edges |-> IF InRange(bytes[9] + row[18], row[19] * RelationLen, bytes[10])
                   THEN [k \in 1 .. row[19] |->
                           [from |-> relation(k)[1], to |-> relation(k)[2],
                            kind |-> relation(k)[3].kind,
                            weight |-> relation(k)[3].weight]]
                   ELSE Malformed,
         content_hash |-> row[20],
         embedding |-> Cells(bytes, bytes[VectorAreaOffset] + (o - 1) * dim, dim)]

\* Mutant: the sources of the edges are not compared with the id.
ValidCapsuleOfAnyEdge(c) ==
    /\ c.claim # Malformed /\ c.evidence # Malformed /\ c.uri # Malformed
    /\ c.anchors # Malformed /\ c.entities # Malformed /\ c.edges # Malformed
    /\ c.content_hash = ContentHash(c.claim, c.evidence)
    /\ c.source_hash = SourceHash(c.uri, c.evidence)

\* validate_capsule_hashes, the range checks, and the sources of the edges.
ValidCapsule(c) ==
    /\ c.claim # Malformed /\ c.evidence # Malformed /\ c.uri # Malformed
    /\ c.anchors # Malformed /\ c.entities # Malformed /\ c.edges # Malformed
    /\ c.content_hash = ContentHash(c.claim, c.evidence)
    /\ c.source_hash = SourceHash(c.uri, c.evidence)
    /\ \A e \in Range(c.edges) : e.from = c.id

\* The index is built over the capsules as they come; it has fewer ids than
\* there are capsules when two of them share one.
Indexed(caps, epoch, tenant) ==
    LET index == Index(caps)
    IN  IF Cardinality(DOMAIN index.by_id) # Len(caps) THEN Malformed
        ELSE [epoch |-> epoch, tenant |-> tenant, caps |-> caps, index |-> index]

\* Segment::from_capsules
FromCapsules(caps, epoch) == Indexed(caps, epoch, TenantOf(caps))

\* Segment::from_bytes
FromBytes(bytes) ==
    IF ~ValidHeader(bytes) THEN Malformed
    ELSE IF bytes[HashOffset] # SegmentHash(bytes) THEN Malformed
    ELSE IF ~ValidSections(bytes) THEN Malformed
    ELSE LET caps == [o \in 1 .. bytes[6] |-> ReadCapsule(bytes, o)]
         IN  IF /\ \A c \in Range(caps) : ValidCapsule(c)
                /\ InRange(bytes[VectorAreaOffset], bytes[6] * bytes[EmbedDimOffset],
                           Len(bytes))
             THEN Indexed(caps, bytes[4], bytes[5])
             ELSE Malformed

=============================================================================
