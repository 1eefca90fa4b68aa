---------------------------- MODULE SegmentIndex -----------------------------
(***************************************************************************)
(* The index a segment is opened with (crates/l5m-core/src/index.rs) and   *)
(* the bit sets a query narrows its candidates with (bitset.rs).  An       *)
(* ordinal is a capsule's position in the segment, from 1.  A fingerprint  *)
(* is the set of its bits, an LSH table a function from a band's value to  *)
(* the ordinals that have it.                                              *)
(***************************************************************************)
EXTENDS Codec

CONSTANTS BandWidth,   \* bits per band: 16 in the code
          LshBands,    \* 16
          SigBands,    \* 4, of a signature of SigBands * BandWidth planes
          Draw(_),     \* the n-th sign splitmix64 gives the hyperplanes
          WordBits,    \* 64
          HammingThreshold \* semantic_hamming_threshold

ASSUME SizesAssumption == {BandWidth, LshBands, SigBands, WordBits} \subseteq Nat \ {0}

-----------------------------------------------------------------------------
(* Locality-sensitive hashing. *)

\* A 16-bit slice of a fingerprint or of a signature; bands from 0.
BandKey(bits, band) ==
    {b - band * BandWidth : b \in bits \cap
        (band * BandWidth .. band * BandWidth + BandWidth - 1)}

\* The ordinals of dom grouped by key: entry(key).or_default().push(ordinal).
Grouped(dom, Key(_)) ==
    [k \in {Key(o) : o \in dom} |-> Ascending({o \in dom : Key(o) = k})]

Tables(dom, bands, Bits(_)) ==
    [band \in 0 .. bands - 1 |-> Grouped(dom, LAMBDA o : BandKey(Bits(o), band))]

\* SemanticLsh::for_each_candidate, EmbeddingLsh::for_each_candidate.
SharingABand(tables, bits) ==
    UNION {IF BandKey(bits, band) \in DOMAIN tables[band]
           THEN Range(tables[band][BandKey(bits, band)]) ELSE {} :
           band \in DOMAIN tables}

\* One sign per plane and lane, drawn in row order.
Plane(dim, i) == [lane \in 1 .. dim |-> Draw((i * dim) + lane)]

\* emb * plane >= 0.0: an infinite lane outweighs the finite ones, and
\* infinities of both signs add to a NaN, which is not >= 0.
NotNegative(embedding, plane) ==
    LET infinite == {l \in DOMAIN embedding : embedding[l] = Inf}
    IN  IF infinite # {} THEN \A l \in infinite : plane[l] = 1
        ELSE FoldSet(LAMBDA l, sum : sum + embedding[l] * plane[l], 0,
                     DOMAIN embedding) >= 0

Signature(embedding) ==
    {i \in 0 .. SigBands * BandWidth - 1 :
        NotNegative(embedding, Plane(Len(embedding), i))}

\* EmbeddingLsh::build: the first embedding gives the dimension; capsules of
\* another are not in the tables.
EmbeddingLsh(caps) ==
    LET embedded == {o \in DOMAIN caps : caps[o].embedding # <<>>}
        dim == Len(caps[Min(embedded)].embedding)
        Bits(o) == Signature(caps[o].embedding)
    IN  IF embedded = {} THEN None
        ELSE [dim |-> dim,
              tables |-> Tables({o \in embedded : Len(caps[o].embedding) = dim},
                                SigBands, Bits)]

DenseCandidates(lsh, embedding) ==
    IF lsh = None THEN {}
    ELSE IF Len(embedding) # lsh.dim THEN {}
    ELSE SharingABand(lsh.tables, Signature(embedding))

-----------------------------------------------------------------------------
(* SegmentIndex::build. *)

SemanticBucket(bits) == BandKey(bits, 0)

GateRow(c) == [tenant |-> c.tenant, ctx |-> c.ctx, policy |-> c.policy,
               from |-> c.from, until |-> c.until, copied |-> c.copied]

\* The ordinals under each of the values a capsule has several of.
Postings(dom, Values(_)) ==
    [v \in UNION {Values(o) : o \in dom} |-> Ascending({o \in dom : v \in Values(o)})]

Superseded(c) == {e.to : e \in {e \in Range(c.edges) : e.kind = "Supersedes"}}

\* by_id: of equal ids the last stays.
ById(caps) ==
    [id \in {c.id : c \in Range(caps)} |-> Max({o \in DOMAIN caps : caps[o].id = id})]

\* Mutant: the flag is set on the capsule that has the edge.
SupersedeSources(caps) ==
    [o \in DOMAIN caps |-> Superseded(caps[o]) # {}]

\* supersede_target: the flag the gate scan looks at before it looks for a
\* capsule that supersedes this one.
SupersedeTargets(caps) ==
    [o \in DOMAIN caps |->
        \E target \in UNION {Superseded(c) : c \in Range(caps)} :
            target \in DOMAIN ById(caps) /\ ById(caps)[target] = o]

Index(caps) ==
    LET all == DOMAIN caps
    IN  [by_id |-> ById(caps),
         gate_rows |-> [o \in all |-> GateRow(caps[o])],
         fingerprints |-> [o \in all |-> caps[o].bits],
         tenant_postings |-> Grouped(all, LAMBDA o : caps[o].tenant),
         anchors |-> Postings(all, LAMBDA o : Range(caps[o].anchors)),
         entities |-> Postings(all, LAMBDA o : Range(caps[o].entities)),
         semantic_buckets |-> Grouped(all, LAMBDA o : SemanticBucket(caps[o].bits)),
         supersedes_by_target |-> Postings(all, LAMBDA o : Superseded(caps[o])),
         supersede_target |-> SupersedeTargets(caps),
         lsh |-> Tables(all, LshBands, LAMBDA o : caps[o].bits),
         embedding_lsh |-> EmbeddingLsh(caps)]

-----------------------------------------------------------------------------
(* BitSet: words of WordBits bits; bits are numbered from 0. *)

NewBits(size) ==
    [size |-> size, words |-> [w \in 1 .. (size + WordBits - 1) \div WordBits |-> {}]]

SetBit(set, i) ==
    [set EXCEPT !.words[(i \div WordBits) + 1] = @ \cup {i % WordBits}]

GetBit(set, i) == (i % WordBits) \in set.words[(i \div WordBits) + 1]

AndAssign(set, other) ==
    [set EXCEPT !.words = [w \in DOMAIN @ |-> @[w] \cap other.words[w]]]

\* or_assign clears the bits of the last word that are beyond the size.
OrAssign(set, other) ==
    [set EXCEPT !.words =
        [w \in DOMAIN @ |->
            {b \in @[w] \cup other.words[w] : (w - 1) * WordBits + b < set.size}]]

\* iter_ones: word by word, lowest bit first.
Ones(set) ==
    Ascending({i \in 0 .. set.size - 1 : GetBit(set, i)})

Distance(bits, other) == Cardinality((bits \ other) \cup (other \ bits))

\* The gated ordinals that a lookup, the semantic bucket or the distance picks,
\* or all of them when none is picked (exact_scored_ordinals, before its cap).
Narrow(index, probe, gated) ==
    LET size == Len(index.fingerprints)
        Bits(ordinals) == FoldSet(LAMBDA o, set : SetBit(set, o - 1), NewBits(size),
                                  ordinals \cap gated)
        Found(postings, terms) ==
            UNION {Range(postings[t]) : t \in Range(terms) \cap DOMAIN postings}
        lookup == Bits(Found(index.entities, probe.entities) \cup
                       Found(index.anchors, probe.anchors))
        semantic == Bits(Found(index.semantic_buckets, <<SemanticBucket(probe.bits)>>)
                         \cup {o \in gated : Distance(index.fingerprints[o], probe.bits)
                                                 <= HammingThreshold})
        narrowed == OrAssign(lookup, semantic)
    IN  IF Ones(narrowed) = <<>> THEN Ones(Bits(gated))
        ELSE Ones(AndAssign(Bits(gated), narrowed))

=============================================================================
