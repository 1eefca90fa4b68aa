----------------------------- MODULE Retrieval ------------------------------
(***************************************************************************)
(* Retrieval from one segment (crates/l5m-core/src/retrieve.rs): the gates,*)
(* candidate generation, ranking, the token budget, relation expansion.    *)
(*                                                                         *)
(* A capsule's content is a record of what retrieval reads of it.  Masks   *)
(* are sets of bits.  How well a content fits the one query text of the    *)
(* model (scores, hamming distance, shared LSH bands) is data of the       *)
(* content; the probes differ in everything else.  The dense re-ranking,   *)
(* which only permutes the scores of a gated pool, is left out.            *)
(***************************************************************************)
EXTENDS Segments, Integers, FiniteSetsExt

CONSTANTS NoEnd,        \* valid_until: None
          MaxScored,    \* max_scored_candidates
          AnnThreshold  \* ann_candidate_threshold

RelationKind == {"Supports", "Contradicts", "Supersedes",
                 "DependsOn", "DerivedFrom", "DuplicateOf"}

\* What retrieval reads of a MemoryCapsule; from score on, its fit to the query.
\* approximate_tokens counts at least one token of any text.
Content == [tenant : Nat, ctx : SUBSET Nat, policy : SUBSET Nat, trust : Nat,
            from : Int, until : Int \cup {NoEnd}, verified : Int,
            source : Nat, tokens : Nat \ {0},
            edges : SUBSET [kind : RelationKind, to : Int],
            score : Int, dist : Nat, lookup : BOOLEAN, near : BOOLEAN,
            band : BOOLEAN, dense_band : BOOLEAN]

ASSUME ContentsAssumption == Capsules \subseteq Content
ASSUME OrderedIdsAssumption == Ids \subseteq Int
ASSUME LimitsAssumption == MaxScored \in Nat \ {0} /\ AnnThreshold \in Nat

-----------------------------------------------------------------------------
(* Ranking. *)

\* Lexicographic order of two keys of the same length.
Lex(k, m) == \E i \in DOMAIN k : k[i] < m[i] /\ \A j \in 1 .. i - 1 : k[j] = m[j]

\* sort and truncate: the n elements of S with the smallest keys.
First(S, n, Key(_)) ==
    {x \in S : Cardinality({y \in S : Lex(Key(y), Key(x))}) < n}

\* Score, then trust, then recency of verification.  The sort is stable, so that
\* ordinals break ties.  The ordinals of a file's rows are in the order of their
\* ids (compiler.rs:124), which stands for them here and among candidates; the
\* rows of a buffer or a run are in the order of their insertion, which the model
\* of the tiers does not keep.
SegmentKey(a) == <<-a.score, -a.cap.trust, -a.cap.verified, a.id>>

-----------------------------------------------------------------------------
(* The gates. *)

Meet(mask, other) == mask \cap other # {}

\* passes_authorization_gates
Authorized(c, p) ==
    /\ c.tenant = p.tenant
    /\ Meet(c.ctx, p.ctx)
    /\ Meet(c.policy, p.policy)
    /\ c.trust >= p.floor

\* passes_hard_gates
HardGates(c, p) ==
    /\ Authorized(c, p)
    /\ c.from <= p.as_of
    /\ c.until = NoEnd \/ c.until >= p.as_of

\* is_superseded_by_visible_current, over the one segment that is searched.
Superseded(tier, id, p) ==
    \E other \in Held(tier) :
        /\ [kind |-> "Supersedes", to |-> id] \in tier[other].edges
        /\ HardGates(tier[other], p)

\* Mutant: the window's end is not looked at.
GatedOpenEnded(tier, p) ==
    {id \in Held(tier) :
        LET row == tier[id]
        IN  /\ row.tenant = p.tenant
            /\ Meet(row.ctx, p.ctx)
            /\ Meet(row.policy, p.policy)
            /\ row.from <= p.as_of
            /\ ~Superseded(tier, id, p)
            /\ row.trust >= p.floor}

\* The gate scan over the tenant's rows of the columnar index.
Gated(tier, p) ==
    {id \in Held(tier) :
        LET row == tier[id]
        IN  /\ row.tenant = p.tenant
            /\ Meet(row.ctx, p.ctx)
            /\ Meet(row.policy, p.policy)
            /\ row.from <= p.as_of
            /\ row.until = NoEnd \/ row.until >= p.as_of
            /\ ~Superseded(tier, id, p)
            /\ row.trust >= p.floor}

-----------------------------------------------------------------------------
(* Candidate generation.  lookup: an entity or anchor matches; near: same    *)
(* semantic bucket or within the hamming threshold; band, dense_band: shares *)
(* a fingerprint or embedding LSH band.                                      *)

ExactCandidates(tier, gated) ==
    LET narrowed == {id \in gated : tier[id].lookup \/ tier[id].near}
        pool == IF narrowed = {} THEN gated ELSE narrowed
    IN  First(pool, MaxScored,
              LAMBDA id : <<IF tier[id].lookup THEN 0 ELSE 1, tier[id].dist, id>>)

AnnCandidates(tier, gated, p) ==
    LET DenseHit(id) == p.dense /\ tier[id].dense_band
        pool == {id \in gated : DenseHit(id) \/ tier[id].lookup \/ tier[id].band}
        Class(id) == IF DenseHit(id) THEN 0 ELSE IF tier[id].lookup THEN 1 ELSE 2
    IN  First(pool, MaxScored, LAMBDA id : <<Class(id), tier[id].dist, id>>)

\* Mutant: an empty ANN pool is the answer.
CandidatesWithoutFallback(tier, p) ==
    LET gated == Gated(tier, p)
    IN  IF Cardinality(gated) > AnnThreshold THEN AnnCandidates(tier, gated, p)
        ELSE ExactCandidates(tier, gated)

Candidates(tier, p) ==
    LET gated == Gated(tier, p)
        ann == AnnCandidates(tier, gated, p)
    IN  IF Cardinality(gated) > AnnThreshold /\ ann # {} THEN ann
        ELSE ExactCandidates(tier, gated)

-----------------------------------------------------------------------------
(* Selection and relation expansion. *)

\* Mutant: an admitted capsule uses up nothing.
WithinBudgetForEach(top, p) ==
    LET Before(a) == Cardinality({b \in top : Lex(SegmentKey(b), SegmentKey(a))})
    IN  {a \in top : Before(a) = 0 \/ a.cap.tokens <= p.budget}

\* Best first, each capsule that still fits the budget; the first always does.
WithinBudget(top, p) ==
    LET Before(a) == Cardinality({b \in top : Lex(SegmentKey(b), SegmentKey(a))})
        Tokens(i) == (CHOOSE a \in top : Before(a) = i).cap.tokens
        left[i \in 0 .. Cardinality(top)] ==
            IF i = 0 THEN p.budget
            ELSE IF i = 1 \/ Tokens(i - 1) <= left[i - 1]
            THEN Max({0, left[i - 1] - Tokens(i - 1)})
            ELSE left[i - 1]
    IN  {a \in top : Before(a) = 0 \/ a.cap.tokens <= left[Before(a)]}

Answers(tier, p) ==
    LET scored == {[id |-> id, cap |-> tier[id], score |-> tier[id].score] :
                       id \in Candidates(tier, p)}
    IN  WithinBudget(First(scored, p.max, SegmentKey), p)

\* Mutant: a requested contradiction is exempt from every gate.
ExpandUngated(tier, p, selected) ==
    IF p.hops = 0 THEN {}
    ELSE UNION {{[id |-> e.to, cap |-> tier[e.to], from |-> a.id, kind |-> e.kind] :
                     e \in {e \in tier[a.id].edges :
                                /\ e.to \in Held(tier)
                                /\ \/ e.kind = "Supports" /\ p.supporting
                                      /\ HardGates(tier[e.to], p)
                                   \/ e.kind \in {"Contradicts", "Supersedes"}
                                      /\ p.contradictions}} :
                a \in selected}

\* expand_relations: one element per relation note.
Expand(tier, p, selected) ==
    IF p.hops = 0 THEN {}
    ELSE UNION {{[id |-> e.to, cap |-> tier[e.to], from |-> a.id, kind |-> e.kind] :
                     e \in {e \in tier[a.id].edges :
                                /\ e.to \in Held(tier)
                                /\ \/ e.kind = "Supports" /\ p.supporting
                                      /\ HardGates(tier[e.to], p)
                                   \/ e.kind \in {"Contradicts", "Supersedes"}
                                      /\ p.contradictions
                                      /\ Authorized(tier[e.to], p)}} :
                a \in selected}

\* retrieve_with_timings: the frame of one segment.
Retrieve(tier, p) ==
    LET answers == Answers(tier, p)
    IN  [answers |-> answers, conflicts |-> Expand(tier, p, answers)]

=============================================================================
