------------------------------- MODULE Query --------------------------------
(***************************************************************************)
(* MemoryStore::query: the tiers are searched one by one and their frames  *)
(* put together, while writes, deletes and compactions move copies of the  *)
(* same capsule between the tiers.  A query reads the store and changes    *)
(* nothing, so it is an operator of the store, and the properties speak of *)
(* every query in every reachable store.                                   *)
(***************************************************************************)
EXTENDS StoreOps, Retrieval

CONSTANTS Writes,       \* the inserts callers make: <<id, content>>
          Probes,       \* the queries callers make
          Modes,        \* the retrieval modes they use
          SupportBonus, \* score of each further capsule of a parent (0.03)
          MaxEpoch      \* bound on next_epoch

ASSUME WritesAssumption == Writes \subseteq Ids \X Capsules
\* What QueryRequest::to_probe makes of a request, as far as retrieval reads it.
Probe == [tenant : Nat, as_of : Int, ctx : SUBSET Nat, policy : SUBSET Nat,
          floor : Nat, max : Nat, budget : Nat, hops : Nat, dense : BOOLEAN,
          supporting : BOOLEAN, contradictions : BOOLEAN]

ASSUME ProbesAssumption == Probes \subseteq Probe
ASSUME ModesAssumption ==
    Modes \subseteq {"l5m", "parent_aggregate", "hybrid", "rrf_parent"}
ASSUME BonusAssumption == SupportBonus \in Nat
ASSUME MaxEpochAssumption == MaxEpoch \in Nat

VARIABLE store

-----------------------------------------------------------------------------
(* The frames of the tiers. *)

\* live_segments, oldest tier first.
LiveSegments(s) ==
    s.segments \o s.sealed_deltas \o
    (IF s.delta_segment = NoSegment THEN <<>> ELSE <<s.delta_segment>>)

\* compare_frame_capsules; the sort is stable, so the place decides ties.
Rank(a) == <<-a.score, -a.cap.trust, -a.cap.from>>
FrameKey(a) == Rank(a) \o a.place

FrameCapsule(id, cap, score, place) ==
    [id |-> id, cap |-> cap, score |-> score, place |-> place]

\* The place of the first answer with a's id: tier, then order in its frame.
FirstSeen(frames, a) ==
    LET i == Min({i \in DOMAIN frames : \E b \in frames[i].answers : b.id = a.id})
        b == CHOOSE b \in frames[i].answers : b.id = a.id
    IN  <<i>> \o SegmentKey(b)

\* Mutant: the first frame that answers with an id keeps it.
MergeOldestWins(frames, max) ==
    LET Latest(i, a) == \A j \in 1 .. i - 1 : \A b \in frames[j].answers : b.id # a.id
        merged == UNION {{FrameCapsule(a.id, a.cap, a.score, FirstSeen(frames, a)) :
                              a \in {a \in frames[i].answers : Latest(i, a)}} :
                         i \in DOMAIN frames}
    IN  [answers |-> First(merged, max, FrameKey),
         conflicts |-> UNION {frames[i].conflicts : i \in DOMAIN frames}]

\* merge_frames: a later frame overwrites the same id.
MergeFrames(frames, max) ==
    LET Latest(i, a) == \A j \in i + 1 .. Len(frames) :
                            \A b \in frames[j].answers : b.id # a.id
        merged == UNION {{FrameCapsule(a.id, a.cap, a.score, FirstSeen(frames, a)) :
                              a \in {a \in frames[i].answers : Latest(i, a)}} :
                         i \in DOMAIN frames}
    IN  [answers |-> First(merged, max, FrameKey),
         conflicts |-> UNION {frames[i].conflicts : i \in DOMAIN frames}]

\* aggregate_frame_capsules: the best capsule of every parent, its score
\* raised for each further one.  The parents come out of a HashMap, in any
\* order, and the sort keeps that order among equals: the result is the set of
\* the possible outcomes.
Aggregate(answers, max) ==
    LET Siblings(a) == {b \in answers : b.cap.source = a.cap.source}
        best == {a \in answers :
                    ~\E b \in Siblings(a) : Lex(FrameKey(b), FrameKey(a))}
        Bonus(a) == SupportBonus * (Cardinality(Siblings(a)) - 1)
        Parents(order) ==
            {FrameCapsule(a.id, a.cap, a.score + Bonus(a), <<order[a.cap.source]>>) :
                 a \in best}
        sources == {a.cap.source : a \in best}
    IN  {First(Parents(order), max, FrameKey) :
             order \in Bijection(sources, 1 .. Cardinality(sources))}

RetrieveL5m(s, p) ==
    LET segs == LiveSegments(s)
    IN  MergeFrames([i \in DOMAIN segs |-> Retrieve(segs[i].caps, p)], p.max)

RetrieveParentAggregate(s, p) ==
    LET wide == [p EXCEPT !.max = 4 * p.max]
        frame == RetrieveL5m(s, wide)
    IN  {[frame EXCEPT !.answers = kept] : kept \in Aggregate(frame.answers, p.max)}

\* hard_gates_pass of store.rs
FusionGates(c, p) ==
    /\ c.tenant = p.tenant
    /\ Meet(c.ctx, p.ctx)
    /\ Meet(c.policy, p.policy)
    /\ c.trust >= p.floor
    /\ c.from <= p.as_of
    /\ c.until = NoEnd \/ c.until >= p.as_of

\* retrieve_fusion: every copy in every tier, no relations.
RetrieveFusion(s, p, parent_aggregate) ==
    LET segs == LiveSegments(s)
        scored == UNION {{FrameCapsule(id, segs[i].caps[id], segs[i].caps[id].score, <<i, id>>) :
                              id \in {id \in Held(segs[i].caps) :
                                          FusionGates(segs[i].caps[id], p)}} :
                         i \in DOMAIN segs}
    IN  {[answers |-> kept, conflicts |-> {}] :
            kept \in IF parent_aggregate THEN Aggregate(scored, p.max)
                     ELSE {First(scored, p.max, FrameKey)}}

\* Mutant: the copies of one id are left side by side.
FinishWithCopies(s, frame, max) ==
    [answers |-> First({a \in frame.answers : a.id \notin s.tombstones}, max, FrameKey),
     conflicts |-> {c \in frame.conflicts : c.id \notin s.tombstones}]

\* apply_tombstones_and_dedup
Finish(s, frame, max) ==
    LET alive == {a \in frame.answers : a.id \notin s.tombstones}
        best == {a \in alive : ~\E b \in alive :
                                   b.id = a.id /\ Lex(FrameKey(b), FrameKey(a))}
    IN  [answers |-> First(best, max, FrameKey),
         conflicts |-> {c \in frame.conflicts : c.id \notin s.tombstones}]

\* query: the frames it may return.
Frames(s, mode, p) ==
    {Finish(s, frame, p.max) :
        frame \in CASE mode = "l5m" -> {RetrieveL5m(s, p)}
                    [] mode = "parent_aggregate" -> RetrieveParentAggregate(s, p)
                    [] mode = "hybrid" -> RetrieveFusion(s, p, FALSE)
                    [] mode = "rrf_parent" -> RetrieveFusion(s, p, TRUE)}

\* What a query may answer.
AnswerSets(s, mode, p) == {frame.answers : frame \in Frames(s, mode, p)}

-----------------------------------------------------------------------------
(* The store between the queries. *)

Init == store = OpenSegments(<<>>)

DoInsert(id, c) == store' = Insert(store, id, c) /\ store'.next_epoch <= MaxEpoch
DoDelete(id) == store' = Delete(store, id)
DoCompact == store' = Compact(store) /\ store'.next_epoch <= MaxEpoch
DoCompactDelta == store' = CompactDelta(store) /\ store'.next_epoch <= MaxEpoch

Next ==
    \/ \E w \in Writes : DoInsert(w[1], w[2])
    \/ \E id \in Ids : DoDelete(id)
    \/ DoCompact
    \/ DoCompactDelta

Spec == Init /\ [][Next]_store

-----------------------------------------------------------------------------
(* Properties. *)

\* What the caller of a probe may ever be told, and what is current for it, as
\* docs/security-model.md states the gates.
Cleared(c, p) ==
    /\ c.tenant = p.tenant
    /\ c.trust >= p.floor
    /\ c.policy \cap p.policy # {} /\ c.ctx \cap p.ctx # {}
Entitled(c, p) ==
    /\ Cleared(c, p)
    /\ c.from <= p.as_of /\ (c.until # NoEnd => p.as_of <= c.until)

\* A live capsule that no tier hides behind a supersession.
Answerable(id, p) ==
    /\ Live(store)[id] # NoCapsule
    /\ Entitled(Live(store)[id], p)
    /\ \A i \in DOMAIN LiveSegments(store) :
           ~Superseded(LiveSegments(store)[i].caps, id, p)

\* "No normal answer capsule may bypass tenant, policy, trust, temporal, or
\* context gates" (docs/architecture.md): in any mode, whatever tier a copy
\* comes from, each answer passes them all and is not a deleted capsule.
AnswersPassGates ==
    \A mode \in Modes, p \in Probes : \A answers \in AnswerSets(store, mode, p) :
        \A a \in answers : Entitled(a.cap, p) /\ a.id \notin store.tombstones

\* Whatever the tiers hold, no id is answered twice (two of its versions side by
\* side) and max_capsules is kept to.
OneAnswerPerId ==
    \A mode \in Modes, p \in Probes : \A answers \in AnswerSets(store, mode, p) :
        /\ \A a, b \in answers : a.id = b.id => a = b
        /\ Cardinality(answers) <= p.max

\* Conflicts are "returned only when explicitly requested"; a contradicting one
\* may lie outside the window, but none outside the caller's tenant, masks and
\* trust floor (expand_relations), and none is a deleted capsule.
ConflictsAuthorized ==
    \A mode \in Modes, p \in Probes : \A frame \in Frames(store, mode, p) :
        \A c \in frame.conflicts :
            /\ IF c.kind = "Supports" THEN p.supporting /\ Entitled(c.cap, p)
               ELSE p.contradictions /\ Cleared(c.cap, p)
            /\ c.id \notin store.tombstones

\* "This makes an updated/reinserted capsule resolve to its freshest version
\* regardless of which tier the stale copy lives in" (merge_frames): so it does
\* whenever the freshest version passes the gates and matches the query and the
\* limits leave room for every capsule.
UpdatesResolveToFreshest ==
    \A p \in Probes, id \in Ids :
        LET newest == Live(store)[id]
        IN  /\ Answerable(id, p) /\ newest.lookup
            /\ p.max >= Cardinality(Ids) /\ MaxScored >= Cardinality(Ids)
            /\ \A c \in Capsules : c.tokens * Cardinality(Ids) <= p.budget
            => \A answers \in AnswerSets(store, "l5m", p) :
                   \E a \in answers : a.id = id /\ a.cap = newest

\* Candidate generation falls back "so we never silently return nothing where a
\* scan would have found a hit" (retrieve.rs): with nothing deleted, a live
\* capsule that nothing hides keeps the answer from being empty.
FindsSomething ==
    \A p \in Probes :
        store.tombstones = {} /\ p.max > 0 /\ (\E id \in Ids : Answerable(id, p))
        => {} \notin AnswerSets(store, "l5m", p)

\* "Re-inserting an id replaces the prior version (newest-wins, proven across
\* all storage tiers)" (COMPLIANCE.md): no answer is a version that has been
\* replaced.
Freshest(mode) ==
    \A p \in Probes : \A answers \in AnswerSets(store, mode, p) :
        \A a \in answers : a.cap = Live(store)[a.id]

\* "Superseded capsules are also excluded from normal answers when a visible
\* current capsule supersedes them" (docs/security-model.md).
Excluded(mode) ==
    \A p \in Probes : \A answers \in AnswerSets(store, mode, p) : \A a \in answers :
        ~\E id \in Ids : /\ Live(store)[id] # NoCapsule
                         /\ Entitled(Live(store)[id], p)
                         /\ [kind |-> "Supersedes", to |-> a.id] \in Live(store)[id].edges

\* The answers' tokens fit the budget, unless the first alone exceeds it.
FitsBudget(mode) ==
    \A p \in Probes : \A answers \in AnswerSets(store, mode, p) :
        \/ Cardinality(answers) <= 1
        \/ MapThenSumSet(LAMBDA a : a.cap.tokens, answers) <= p.budget

\* A store in one tier - all of it still in the buffer, or just compacted -
\* keeps the documented promises about versions, supersession and the token
\* budget all at once.
OneTierIsExact ==
    Len(LiveSegments(store)) <= 1 =>
        Freshest("l5m") /\ Excluded("l5m") /\ FitsBudget("l5m")

\* No query in the default mode answers with a replaced version.
NewestWins == Freshest("l5m")

=============================================================================
