------------------------------- MODULE Codec --------------------------------
(***************************************************************************)
(* A memory on its way into the store: the JSON a client sends, the capsule*)
(* built from it, the JSON line the write-ahead log keeps, and the capsule *)
(* a replay builds from that line (crates/l5m-core/src/compiler.rs,        *)
(* probe.rs).                                                              *)
(*                                                                         *)
(* A text is a sequence of words.  Words are numbers, in their             *)
(* alphabetical order; those of ShortWords are too short to be terms.  A   *)
(* number that arrives as text is itself, or Unreadable.  The source id and *)
(* the trust, classification and poison levels, which every conversion     *)
(* copies, are one field.                                                  *)
(***************************************************************************)
EXTENDS Integers, SequencesExt

CONSTANTS ShortWords,        \* words of fewer than three characters
          FeatureBits(_),    \* the fingerprint bits one feature sets
          FeatureWeight(_, _), \* what a feature adds to a residual lane
          ResidualLanes,     \* 64 in the code
          MaxResidual,       \* i8::MAX
          None,              \* an absent JSON field, Option::None
          Unreadable,        \* a number parse_u128 refuses
          TooBig,            \* a JSON number beyond f32
          Inf,               \* f32::INFINITY
          Null,              \* JSON null
          Malformed          \* Err(..)

-----------------------------------------------------------------------------
(* The JSON of a memory, as serde reads it: numbers that arrive as text,   *)
(* lanes that may be too big or null, fields that may be absent.           *)

Numbers == Nat \cup {Unreadable}
Lanes == Int \cup {TooBig, Null}

RelationEdge == [from : Nat, to : Nat, kind : STRING, weight : Int]
RawRelationEdge == [from : Numbers, to : Numbers, kind : STRING, weight : Int]

RawCapsule ==
    [id : Numbers, tenant : Nat, ctx : Numbers, policy : Numbers, copied : Nat,
     claim : Seq(Nat), evidence : Seq(Nat), uri : Seq(Nat) \cup {None},
     from : Int, until : Int \cup {None}, observed : Int, verified : Int,
     anchors : Seq(Seq(Nat)) \cup {None}, entities : Seq(Seq(Nat)) \cup {None},
     embedding : Seq(Lanes) \cup {None}, edges : Seq(RawRelationEdge)]

\* None is no Some, and Err no Ok.
ASSUME NoneAssumption == None \notin Seq(Seq(Nat)) \cup Seq(Lanes)
ASSUME MalformedAssumption ==
    Malformed # None /\ Malformed \notin Seq(Nat) \cup Seq(RelationEdge)

-----------------------------------------------------------------------------
(* Terms and fingerprints (probe.rs). *)

\* The members of a set, each once, in the order of Less.
InOrder(S, Less(_, _)) ==
    [i \in 1 .. Cardinality(S) |->
        CHOOSE x \in S : Cardinality({y \in S : Less(y, x)}) = i - 1]

Ascending(numbers) == InOrder(numbers, <)

\* extract_terms collects into a BTreeSet: each term once, in order.
ExtractTerms(text) == Ascending(Range(text) \ ShortWords)

\* Every run of one, two or three neighbouring terms.
SemanticFeatures(terms) ==
    UNION {{SubSeq(terms, i, j) : j \in i .. Min({i + 2, Len(terms)})} :
               i \in DOMAIN terms}

SemanticBits(terms) == UNION {FeatureBits(f) : f \in SemanticFeatures(terms)}

Residual(terms) ==
    [lane \in ResidualLanes |->
        LET acc == FoldSet(LAMBDA f, sum : sum + FeatureWeight(f, lane), 0,
                           SemanticFeatures(terms))
        IN  CHOOSE x \in -MaxResidual - 1 .. MaxResidual :
                \A y \in -MaxResidual - 1 .. MaxResidual :
                    (x - acc) * (x - acc) <= (y - acc) * (y - acc)]

\* normalize_terms: the terms of all the values, sorted, without duplicates.
NormalizeTerms(texts) ==
    Ascending(UNION {Range(ExtractTerms(t)) : t \in Range(texts)})

\* MemoryProbe::build
BuildProbe(text) ==
    LET terms == ExtractTerms(text)
    IN  [anchors |-> terms, entities |-> terms, bits |-> SemanticBits(terms),
         residual |-> Residual(terms), embedding |-> <<>>, contradictions |-> FALSE,
         supporting |-> FALSE, hops |-> 1, max |-> 8, budget |-> 1024]

-----------------------------------------------------------------------------
(* JSON to capsule. *)

\* A hash no two different inputs share (BLAKE3).
Hash(material) == <<"blake3", material>>

NewLine == 0

SourceHash(uri, evidence) == Hash(IF uri = None THEN evidence ELSE uri)

ContentHash(claim, evidence) == Hash(claim \o <<NewLine>> \o evidence)

Default(field, value) == IF field = None THEN value ELSE field

AsF32(lane) == IF lane = TooBig THEN Inf ELSE lane

\* serde refuses null where it wants a number; into_capsule and into_edge
\* pass on what parse_u128 refuses.
Readable(raw) ==
    /\ Unreadable \notin {raw.id, raw.ctx, raw.policy}
    /\ Null \notin Range(Default(raw.embedding, <<>>))
    /\ \A e \in Range(raw.edges) : Unreadable \notin {e.from, e.to}

\* RawCapsule::into_capsule, what capsule_from_json and compile_segment build.
FromJson(raw) ==
    IF ~Readable(raw) THEN Malformed
    ELSE LET anchors == NormalizeTerms(
                            Default(raw.anchors,
                                    <<ExtractTerms(raw.claim \o raw.evidence)>>))
             entities == NormalizeTerms(Default(raw.entities, <<anchors>>))
             terms == ExtractTerms(raw.claim \o raw.evidence \o anchors)
         IN  [id |-> raw.id, tenant |-> raw.tenant, ctx |-> raw.ctx,
              policy |-> raw.policy, copied |-> raw.copied,
              claim |-> raw.claim, evidence |-> raw.evidence, uri |-> raw.uri,
              source_hash |-> SourceHash(raw.uri, raw.evidence),
              content_hash |-> ContentHash(raw.claim, raw.evidence),
              bits |-> SemanticBits(terms), residual |-> Residual(terms),
              embedding |-> [i \in DOMAIN Default(raw.embedding, <<>>) |->
                                AsF32(raw.embedding[i])],
              anchors |-> anchors, entities |-> entities,
              from |-> raw.from, until |-> raw.until,
              observed |-> raw.observed, verified |-> raw.verified,
              edges |-> raw.edges]

-----------------------------------------------------------------------------
(* Capsule to JSON. *)

\* Terms are written as one-word strings.
AsTexts(terms) == [i \in DOMAIN terms |-> <<terms[i]>>]

\* serde_json writes a lane that is no number as null.
AsLanes(embedding) ==
    [i \in DOMAIN embedding |-> IF embedding[i] = Inf THEN Null ELSE embedding[i]]

\* Mutant: the entities are not written, so a reader falls back on the anchors.
ToJsonWithoutEntities(c) ==
    [id |-> c.id, tenant |-> c.tenant, ctx |-> c.ctx, policy |-> c.policy,
     copied |-> c.copied, claim |-> c.claim, evidence |-> c.evidence,
     uri |-> c.uri, from |-> c.from, until |-> c.until,
     observed |-> c.observed, verified |-> c.verified,
     anchors |-> AsTexts(c.anchors), entities |-> None,
     embedding |-> IF c.embedding = <<>> THEN None ELSE AsLanes(c.embedding),
     edges |-> c.edges]

\* capsule_to_json: hashes and fingerprints are left out, for the reader of the
\* line computes them again; so are fields that are None or empty.
ToJson(c) ==
    [id |-> c.id, tenant |-> c.tenant, ctx |-> c.ctx, policy |-> c.policy,
     copied |-> c.copied, claim |-> c.claim, evidence |-> c.evidence,
     uri |-> c.uri, from |-> c.from, until |-> c.until,
     observed |-> c.observed, verified |-> c.verified,
     anchors |-> AsTexts(c.anchors), entities |-> AsTexts(c.entities),
     embedding |-> IF c.embedding = <<>> THEN None ELSE AsLanes(c.embedding),
     edges |-> c.edges]

=============================================================================
