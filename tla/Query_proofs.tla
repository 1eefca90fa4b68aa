---------------------------- MODULE Query_proofs ----------------------------
(***************************************************************************)
(* Theorems about Query, for every set of ids, contents, writes and probes *)
(* and every threshold and limit: the gates, one answer per id, what is    *)
(* never lost on the way, the newest version, one tier and the budget.     *)
(***************************************************************************)
EXTENDS Query, StoreOps_proofs

-----------------------------------------------------------------------------
(* Ranking: the keys of the elements of a finite set are distinct rows of    *)
(* numbers of one length.                                                    *)

Row(n) == [1 .. n -> Int]

LEMMA LexTotal ==
    ASSUME NEW n \in Nat, NEW k \in Row(n), NEW m \in Row(n), k # m
    PROVE  Lex(k, m) \/ Lex(m, k)
<1> DEFINE D == {i \in 1 .. n : k[i] # m[i]}
<1>1. D \in SUBSET Nat /\ D # {}
  BY DEF Row
<1> HIDE DEF D
<1>2. PICK i \in D : \A j \in D : i <= j
  BY <1>1, LeastNat
<1>3. i \in 1 .. n /\ k[i] # m[i] /\ k[i] \in Int /\ m[i] \in Int
  BY <1>2 DEF D, Row
<1>4. \A j \in 1 .. i - 1 : k[j] = m[j]
  <2> SUFFICES ASSUME NEW j \in 1 .. i - 1  PROVE k[j] = m[j]
    OBVIOUS
  <2>1. j \in 1 .. n /\ ~(i <= j)
    BY <1>3
  <2> QED  BY <1>2, <2>1 DEF D
<1>5. DOMAIN k = 1 .. n /\ DOMAIN m = 1 .. n
  BY DEF Row
<1> QED  BY <1>3, <1>4, <1>5 DEF Lex

LEMMA LexIrreflexive ==
    ASSUME NEW n \in Nat, NEW k \in Row(n)
    PROVE  ~Lex(k, k)
BY DEF Lex, Row

LEMMA LexTransitive ==
    ASSUME NEW n \in Nat, NEW k \in Row(n), NEW m \in Row(n), NEW o \in Row(n),
           Lex(k, m), Lex(m, o)
    PROVE  Lex(k, o)
<1>1. /\ DOMAIN k = 1 .. n /\ DOMAIN m = 1 .. n /\ DOMAIN o = 1 .. n
      /\ \A i \in 1 .. n : k[i] \in Int /\ m[i] \in Int /\ o[i] \in Int
  BY DEF Row
<1>2. PICK i \in 1 .. n : k[i] < m[i] /\ \A j \in 1 .. i - 1 : k[j] = m[j]
  BY <1>1 DEF Lex
<1>3. PICK h \in 1 .. n : m[h] < o[h] /\ \A j \in 1 .. h - 1 : m[j] = o[j]
  BY <1>1 DEF Lex
<1>4. CASE i <= h
  <2>1. \A j \in 1 .. i - 1 : k[j] = o[j]
    BY <1>2, <1>3, <1>4
  <2>2. k[i] < o[i]
    <3>1. CASE i = h
      BY <1>1, <1>2, <1>3, <3>1
    <3>2. CASE i < h
      <4>1. i \in 1 .. h - 1
        BY <3>2
      <4>2. m[i] = o[i]
        BY <1>3, <4>1
      <4> QED  BY <1>2, <4>2
    <3> QED  BY <1>4, <3>1, <3>2
  <2> QED  BY <1>1, <2>1, <2>2 DEF Lex
<1>5. CASE h < i
  <2>1. \A j \in 1 .. h - 1 : k[j] = o[j]
    BY <1>2, <1>3, <1>5
  <2>2. h \in 1 .. i - 1
    BY <1>5
  <2>3. k[h] < o[h]
    BY <1>2, <1>3, <2>2
  <2> QED  BY <1>1, <2>1, <2>3 DEF Lex
<1> QED  BY <1>4, <1>5

\* How many elements of S come before x.
Before(S, K, x) == {y \in S : Lex(K[y], K[x])}
Place(S, K, x) == Cardinality(Before(S, K, x))

LEMMA PlaceType ==
    ASSUME NEW S, IsFiniteSet(S), NEW n \in Nat, NEW K \in [S -> Row(n)], NEW x \in S
    PROVE  /\ IsFiniteSet(Before(S, K, x)) /\ Place(S, K, x) \in Nat
           /\ Place(S, K, x) < Cardinality(S)
<1>1. Before(S, K, x) \in SUBSET S /\ x \notin Before(S, K, x)
  BY LexIrreflexive DEF Before
<1>2. IsFiniteSet(Before(S, K, x)) /\ Place(S, K, x) \in Nat
  BY <1>1, FS_Subset, FS_CardinalityType DEF Place
<1>3. Cardinality(S) \in Nat
  BY FS_CardinalityType
<1>4. Place(S, K, x) <= Cardinality(S) /\ Place(S, K, x) # Cardinality(S)
  BY <1>1, FS_Subset DEF Place
<1> QED  BY <1>2, <1>3, <1>4

\* Who comes before has the smaller place.
LEMMA PlaceOrders ==
    ASSUME NEW S, IsFiniteSet(S), NEW n \in Nat, NEW K \in [S -> Row(n)],
           NEW x \in S, NEW y \in S, Lex(K[x], K[y])
    PROVE  Place(S, K, x) < Place(S, K, y)
<1>1. Before(S, K, x) \subseteq Before(S, K, y)
  BY LexTransitive DEF Before
<1>2. x \in Before(S, K, y) /\ x \notin Before(S, K, x)
  BY LexIrreflexive DEF Before
<1>3. /\ IsFiniteSet(Before(S, K, y))
      /\ Place(S, K, x) \in Nat /\ Place(S, K, y) \in Nat
  BY PlaceType
<1>4. Place(S, K, x) <= Place(S, K, y) /\ Place(S, K, x) # Place(S, K, y)
  BY <1>1, <1>2, <1>3, FS_Subset DEF Place
<1> QED  BY <1>3, <1>4

\* Something comes first.
LEMMA SomeoneIsFirst ==
    ASSUME NEW S, IsFiniteSet(S), S # {}, NEW n \in Nat, NEW K \in [S -> Row(n)]
    PROVE  \E x \in S : Before(S, K, x) = {} /\ Place(S, K, x) = 0
<1> DEFINE P == {Place(S, K, x) : x \in S}
<1>1. /\ \A x \in S : Place(S, K, x) \in Nat
      /\ P \in SUBSET Nat /\ P # {}
  BY PlaceType
<1> HIDE DEF P
<1>2. PICK least \in P : \A u \in P : least <= u
  BY <1>1, LeastNat
<1>3. PICK x \in S : least = Place(S, K, x)
  BY <1>2 DEF P
<1>4. \A y \in S : ~Lex(K[y], K[x])
  <2> SUFFICES ASSUME NEW y \in S, Lex(K[y], K[x])  PROVE FALSE
    OBVIOUS
  <2>1. Place(S, K, y) < Place(S, K, x)
    BY PlaceOrders
  <2>2. Place(S, K, x) <= Place(S, K, y)
    BY <1>2, <1>3 DEF P
  <2> QED  BY <1>1, <2>1, <2>2
<1>5. Before(S, K, x) = {}
  BY <1>4 DEF Before
<1>6. Place(S, K, x) = 0
  BY <1>5, FS_EmptySet DEF Place
<1> QED  BY <1>5, <1>6

\* The first max elements: no more than max of them, all of them when max is
\* at least their number, one at least when there is one.
LEMMA FirstOnes ==
    ASSUME NEW S, IsFiniteSet(S), NEW n \in Nat, NEW K \in [S -> Row(n)],
           \A x, y \in S : K[x] = K[y] => x = y, NEW max \in Nat
    PROVE  LET kept == {x \in S : Place(S, K, x) < max}
           IN  /\ Cardinality(kept) <= max
               /\ Cardinality(S) <= max => kept = S
               /\ S # {} /\ max > 0 => kept # {}
<1> DEFINE kept == {x \in S : Place(S, K, x) < max}
<1>1. /\ \A x \in S : Place(S, K, x) \in Nat /\ Place(S, K, x) < Cardinality(S)
      /\ Cardinality(S) \in Nat
  BY PlaceType, FS_CardinalityType
<1>2. kept \in SUBSET S /\ IsFiniteSet(kept) /\ Cardinality(kept) \in Nat
  <2>1. kept \in SUBSET S
    OBVIOUS
  <2> HIDE DEF kept
  <2> QED  BY <2>1, FS_Subset, FS_CardinalityType
<1>3. Cardinality(S) <= max => kept = S
  BY <1>1
<1>4. ASSUME S # {}, max > 0  PROVE kept # {}
  BY <1>4, SomeoneIsFirst
<1>5. Cardinality(kept) <= max
  <2>1. CASE kept = {}
    BY <2>1, FS_EmptySet
  <2>2. CASE kept # {}
    <3> DEFINE P == {max - Place(S, K, x) : x \in kept}
    <3>1. P \in SUBSET Nat /\ P # {}
      BY <1>1, <2>2
    <3> HIDE DEF P
    <3>2. PICK least \in P : \A u \in P : least <= u
      BY <3>1, LeastNat
    <3>3. PICK x \in kept : least = max - Place(S, K, x)
      BY <3>2 DEF P
    <3>4. \A y \in kept : Place(S, K, y) <= Place(S, K, x)
      <4> SUFFICES ASSUME NEW y \in kept  PROVE Place(S, K, y) <= Place(S, K, x)
        OBVIOUS
      <4>1. max - Place(S, K, x) <= max - Place(S, K, y)
        BY <3>2, <3>3 DEF P
      <4> QED  BY <1>1, <4>1
    <3>5. \A y \in kept : y # x => Lex(K[y], K[x])
      <4> SUFFICES ASSUME NEW y \in kept, y # x, ~Lex(K[y], K[x])  PROVE FALSE
        OBVIOUS
      <4>1. K[y] # K[x] /\ K[x] \in Row(n) /\ K[y] \in Row(n)
        BY <1>2
      <4>2. Lex(K[x], K[y])
        BY <4>1, LexTotal
      <4>3. Place(S, K, x) < Place(S, K, y)
        BY <1>2, <4>2, PlaceOrders
      <4> QED  BY <1>1, <3>4, <4>3
    <3> HIDE DEF kept
    <3>6. kept \subseteq Before(S, K, x) \cup {x}
      BY <1>2, <3>5 DEF Before
    <3>7. /\ IsFiniteSet(Before(S, K, x)) /\ x \in S
          /\ Place(S, K, x) \in Nat /\ Place(S, K, x) < max
      BY <1>2, <3>3, PlaceType DEF kept
    <3>8. /\ IsFiniteSet(Before(S, K, x) \cup {x})
          /\ Cardinality(Before(S, K, x) \cup {x}) \in Nat
          /\ Cardinality(Before(S, K, x) \cup {x}) <= Place(S, K, x) + 1
      <4>1. /\ IsFiniteSet(Before(S, K, x) \cup {x})
            /\ Cardinality(Before(S, K, x) \cup {x}) =
                   IF x \in Before(S, K, x) THEN Place(S, K, x) ELSE Place(S, K, x) + 1
        BY <3>7, FS_AddElement DEF Place
      <4>2. Cardinality(Before(S, K, x) \cup {x}) \in Nat
        BY <4>1, FS_CardinalityType
      <4> QED  BY <3>7, <4>1, <4>2
    <3>9. Cardinality(kept) <= Cardinality(Before(S, K, x) \cup {x})
      BY <3>6, <3>8, FS_Subset
    <3> QED  BY <1>2, <3>7, <3>8, <3>9
  <2> QED  BY <2>1, <2>2
<1> QED  BY <1>3, <1>4, <1>5

-----------------------------------------------------------------------------
(* One segment. *)

\* The columnar gate scan admits nothing that passes_hard_gates would not.
LEMMA GatedPassHardGates ==
    ASSUME NEW tier, NEW p, NEW id \in Gated(tier, p)
    PROVE  HardGates(tier[id], p)
BY DEF Gated, HardGates, Authorized

\* Neither way of generating candidates leaves the gated set.
LEMMA CandidatesAreGated ==
    ASSUME NEW tier, NEW p
    PROVE  Candidates(tier, p) \subseteq Gated(tier, p)
<1>1. AnnCandidates(tier, Gated(tier, p), p) \subseteq Gated(tier, p)
  BY DEF AnnCandidates, First
<1>2. ExactCandidates(tier, Gated(tier, p)) \subseteq Gated(tier, p)
  BY DEF ExactCandidates, First
<1> QED  BY <1>1, <1>2 DEF Candidates

LEMMA AnswersPassHardGates ==
    ASSUME NEW tier, NEW p
    PROVE  \A a \in Answers(tier, p) : HardGates(a.cap, p)
<1> DEFINE scored == {[id |-> id, cap |-> tier[id], score |-> tier[id].score] :
                          id \in Candidates(tier, p)}
           top == First(scored, p.max, SegmentKey)
<1>1. top \subseteq scored
  BY DEF First
<1>2. Answers(tier, p) \subseteq top
  BY DEF Answers, WithinBudget
<1>3. \A a \in scored : HardGates(a.cap, p)
  BY CandidatesAreGated, GatedPassHardGates
<1> QED  BY <1>1, <1>2, <1>3

\* What relation expansion may add to a frame.
Related(c, p) ==
    IF c.kind = "Supports" THEN p.supporting /\ HardGates(c.cap, p)
    ELSE p.contradictions /\ Authorized(c.cap, p)

LEMMA ExpandedAreRelated ==
    ASSUME NEW tier, NEW p, NEW selected
    PROVE  \A c \in Expand(tier, p, selected) : Related(c, p)
<1>1. CASE p.hops = 0
  BY <1>1 DEF Expand
<1>2. CASE p.hops # 0
  <2> SUFFICES ASSUME NEW c \in Expand(tier, p, selected)  PROVE Related(c, p)
    OBVIOUS
  <2>1. PICK a \in selected : \E e \in tier[a.id].edges :
            /\ c = [id |-> e.to, cap |-> tier[e.to], from |-> a.id, kind |-> e.kind]
            /\ \/ e.kind = "Supports" /\ p.supporting /\ HardGates(tier[e.to], p)
               \/ e.kind \in {"Contradicts", "Supersedes"} /\ p.contradictions
                  /\ Authorized(tier[e.to], p)
    BY <1>2 DEF Expand
  <2> QED  BY <2>1 DEF Related
<1> QED  BY <1>1, <1>2

-----------------------------------------------------------------------------
(* Putting frames together only copies and drops. *)

\* What a probe allows a frame to hold: every answer passes the gates, every
\* conflict the authorization gates at least.
Allowed(frame, p) ==
    /\ \A a \in frame.answers : HardGates(a.cap, p)
    /\ \A c \in frame.conflicts : Related(c, p)

LEMMA RetrieveAllowed ==
    ASSUME NEW tier, NEW p
    PROVE  Allowed(Retrieve(tier, p), p)
BY AnswersPassHardGates, ExpandedAreRelated DEF Retrieve, Allowed

LEMMA MergeAllowed ==
    ASSUME NEW frames, NEW max, NEW p, \A i \in DOMAIN frames : Allowed(frames[i], p)
    PROVE  Allowed(MergeFrames(frames, max), p)
<1> DEFINE Latest(i, a) == \A j \in i + 1 .. Len(frames) :
                               \A b \in frames[j].answers : b.id # a.id
           merged == UNION {{FrameCapsule(a.id, a.cap, a.score, FirstSeen(frames, a)) :
                                 a \in {a \in frames[i].answers : Latest(i, a)}} :
                            i \in DOMAIN frames}
           m == MergeFrames(frames, max)
<1>1. /\ m.answers \subseteq merged
      /\ m.conflicts = UNION {frames[i].conflicts : i \in DOMAIN frames}
  BY DEF MergeFrames, First
<1> HIDE DEF m, Latest
<1>2. \A a \in merged : HardGates(a.cap, p)
  BY DEF FrameCapsule, Allowed
<1> QED  BY <1>1, <1>2 DEF Allowed, m

LEMMA AggregateAllowed ==
    ASSUME NEW answers, NEW max, NEW p, \A a \in answers : HardGates(a.cap, p),
           NEW kept \in Aggregate(answers, max)
    PROVE  \A a \in kept : HardGates(a.cap, p)
<1> DEFINE Siblings(a) == {b \in answers : b.cap.source = a.cap.source}
           best == {a \in answers :
                       ~\E b \in Siblings(a) : Lex(FrameKey(b), FrameKey(a))}
           Bonus(a) == SupportBonus * (Cardinality(Siblings(a)) - 1)
           Parents(order) ==
               {FrameCapsule(a.id, a.cap, a.score + Bonus(a), <<order[a.cap.source]>>) :
                    a \in best}
<1>1. PICK order : kept \subseteq Parents(order)
  BY DEF Aggregate, First
<1>2. best \subseteq answers
  OBVIOUS
<1> HIDE DEF best, Bonus
<1>3. \A a \in Parents(order) : HardGates(a.cap, p)
  BY <1>2 DEF FrameCapsule
<1> QED  BY <1>1, <1>3

\* ParentAggregate searches with four times the limit, and the same gates.
LEMMA WiderProbe ==
    ASSUME NEW p \in Probe, NEW n
    PROVE  LET wide == [p EXCEPT !.max = n]
           IN  /\ \A c : HardGates(c, wide) <=> HardGates(c, p)
               /\ \A c : Related(c, wide) <=> Related(c, p)
BY DEF Probe, HardGates, Authorized, Related, Meet

LEMMA RetrieveL5mAllowed ==
    ASSUME NEW s, NEW p
    PROVE  Allowed(RetrieveL5m(s, p), p)
<1> DEFINE frames == [i \in DOMAIN LiveSegments(s) |-> Retrieve(LiveSegments(s)[i].caps, p)]
<1>1. \A i \in DOMAIN frames : Allowed(frames[i], p)
  BY RetrieveAllowed
<1>2. RetrieveL5m(s, p) = MergeFrames(frames, p.max)
  BY DEF RetrieveL5m
<1> HIDE DEF frames
<1> QED  BY <1>1, <1>2, MergeAllowed

LEMMA ParentAggregateAllowed ==
    ASSUME NEW s, NEW p \in Probe, NEW frame \in RetrieveParentAggregate(s, p)
    PROVE  Allowed(frame, p)
<1> DEFINE wide == [p EXCEPT !.max = 4 * p.max]
           f == RetrieveL5m(s, wide)
<1>1. PICK kept \in Aggregate(f.answers, p.max) : frame = [f EXCEPT !.answers = kept]
  BY DEF RetrieveParentAggregate
<1>2. DOMAIN f = {"answers", "conflicts"}
  BY DEF RetrieveL5m, MergeFrames
<1>3. Allowed(f, p)
  BY RetrieveL5mAllowed, WiderProbe DEF Allowed
<1> HIDE DEF f
<1>4. frame.answers = kept /\ frame.conflicts = f.conflicts
  BY <1>1, <1>2
<1>5. \A a \in kept : HardGates(a.cap, p)
  BY <1>3, AggregateAllowed DEF Allowed
<1> QED  BY <1>3, <1>4, <1>5 DEF Allowed

\* The fusion modes go round the index, and repeat the gates on every capsule.
LEMMA FusionAllowed ==
    ASSUME NEW s, NEW p, NEW parent_aggregate \in BOOLEAN,
           NEW frame \in RetrieveFusion(s, p, parent_aggregate)
    PROVE  Allowed(frame, p)
<1> DEFINE segs == LiveSegments(s)
           scored == UNION {{FrameCapsule(id, segs[i].caps[id],
                                          segs[i].caps[id].score, <<i, id>>) :
                                 id \in {id \in Held(segs[i].caps) :
                                             FusionGates(segs[i].caps[id], p)}} :
                            i \in DOMAIN segs}
<1>1. PICK kept \in IF parent_aggregate THEN Aggregate(scored, p.max)
                    ELSE {First(scored, p.max, FrameKey)} :
          frame = [answers |-> kept, conflicts |-> {}]
  BY DEF RetrieveFusion
<1> HIDE DEF segs
<1>2. \A a \in scored : HardGates(a.cap, p)
  BY DEF FrameCapsule, FusionGates, HardGates, Authorized
<1>3. First(scored, p.max, FrameKey) \subseteq scored
  BY DEF First
<1> HIDE DEF scored
<1>4. \A a \in kept : HardGates(a.cap, p)
  BY <1>1, <1>2, <1>3, AggregateAllowed
<1> QED  BY <1>1, <1>4 DEF Allowed

\* Every frame a query returns is allowed, and holds nothing deleted.
LEMMA FramesAllowed ==
    ASSUME NEW s, NEW mode \in Modes, NEW p \in Probes, NEW frame \in Frames(s, mode, p)
    PROVE  /\ Allowed(frame, p)
           /\ \A a \in frame.answers : a.id \notin s.tombstones
           /\ \A c \in frame.conflicts : c.id \notin s.tombstones
<1>0. p \in Probe
  BY ProbesAssumption
<1>1. PICK f : /\ frame = Finish(s, f, p.max)
               /\ \/ f = RetrieveL5m(s, p)
                  \/ f \in RetrieveParentAggregate(s, p)
                  \/ f \in RetrieveFusion(s, p, FALSE)
                  \/ f \in RetrieveFusion(s, p, TRUE)
  BY ModesAssumption DEF Frames
<1>2. Allowed(f, p)
  BY <1>0, <1>1, RetrieveL5mAllowed, ParentAggregateAllowed, FusionAllowed
<1>3. /\ frame.answers \subseteq {a \in f.answers : a.id \notin s.tombstones}
      /\ frame.conflicts = {c \in f.conflicts : c.id \notin s.tombstones}
  BY <1>1 DEF Finish, First
<1> QED  BY <1>2, <1>3 DEF Allowed

LEMMA HardGatesEntitle ==
    ASSUME NEW c, NEW p
    PROVE  /\ HardGates(c, p) => Entitled(c, p)
           /\ Authorized(c, p) => Cleared(c, p)
BY DEF HardGates, Authorized, Entitled, Cleared, Meet

\* The guarantee the documentation calls non-negotiable, for every store, every
\* query and all retrieval modes: no ranking, merging across tiers, aggregation
\* or fallback lets a capsule past a gate or brings a deleted one back.
THEOREM AnswersGated == Spec => []AnswersPassGates
<1>1. AnswersPassGates
  BY FramesAllowed, HardGatesEntitle DEF AnswersPassGates, AnswerSets, Allowed
<1> QED  BY <1>1, PTL

\* The exception for contradictions is an exception from the window only.
THEOREM ConflictsGated == Spec => []ConflictsAuthorized
<1>1. ConflictsAuthorized
  <2> SUFFICES ASSUME NEW mode \in Modes, NEW p \in Probes,
                      NEW frame \in Frames(store, mode, p), NEW c \in frame.conflicts
               PROVE  /\ IF c.kind = "Supports" THEN p.supporting /\ Entitled(c.cap, p)
                         ELSE p.contradictions /\ Cleared(c.cap, p)
                      /\ c.id \notin store.tombstones
    BY DEF ConflictsAuthorized
  <2>1. Related(c, p) /\ c.id \notin store.tombstones
    BY FramesAllowed DEF Allowed
  <2> QED  BY <2>1, HardGatesEntitle DEF Related
<1> QED  BY <1>1, PTL

-----------------------------------------------------------------------------
(* Frames as sets of ranked answers: what every stage of a query hands to    *)
(* the next is finite and totally ordered by its keys.                       *)

\* Answers whose tie-breaking place is a row of n numbers.
FrameCapsules(n) == [id : Ids, cap : Content, score : Int, place : Row(n)]

Keyed(A, n) ==
    /\ IsFiniteSet(A) /\ A \subseteq FrameCapsules(n)
    /\ \A a, b \in A : FrameKey(a) = FrameKey(b) => a = b

LEMMA KeyedSubset ==
    ASSUME NEW A, NEW n, Keyed(A, n), NEW B \in SUBSET A
    PROVE  Keyed(B, n)
BY FS_Subset DEF Keyed

Joined(k, m) == k \o m

LEMMA JoinedLen ==
    ASSUME NEW k \in Seq(Int), NEW m \in Seq(Int)
    PROVE  Len(Joined(k, m)) = Len(k) + Len(m)
BY DEF Joined

LEMMA JoinedElement ==
    ASSUME NEW k \in Seq(Int), NEW m \in Seq(Int), NEW j \in 1 .. Len(m),
           NEW i \in Int, i = Len(k) + j
    PROVE  Joined(k, m)[i] = m[j]
<1>1. Len(k) \in Nat /\ Len(m) \in Nat
  OBVIOUS
<1>2. i \in 1 .. Len(k) + Len(m) /\ ~(i <= Len(k)) /\ i - Len(k) = j
  BY <1>1
<1> QED  BY <1>1, <1>2 DEF Joined

LEMMA JoinedType ==
    ASSUME NEW k \in Seq(Int), NEW m \in Seq(Int), NEW h \in Nat, NEW n \in Nat,
           Len(k) = h, Len(m) = n
    PROVE  Joined(k, m) \in Row(h + n)
<1>1. Joined(k, m) \in Seq(Int)
  BY DEF Joined
<1>2. Len(Joined(k, m)) = h + n
  BY JoinedLen
<1> QED  BY <1>1, <1>2 DEF Row

LEMMA FrameKeyType ==
    ASSUME NEW n \in Nat, NEW a \in FrameCapsules(n)
    PROVE  /\ FrameKey(a) \in Row(3 + n)
           /\ \A j \in 1 .. n : FrameKey(a)[3 + j] = a.place[j]
<1>1. /\ a.score \in Int /\ a.cap.trust \in Nat /\ a.cap.from \in Int
      /\ a.place \in Row(n)
  BY DEF FrameCapsules, Content
<1> DEFINE r == <<-a.score, -a.cap.trust, -a.cap.from>>
<1>2. r \in Seq(Int) /\ Len(r) = 3
  BY <1>1
<1>3. a.place \in Seq(Int) /\ Len(a.place) = n
  <2>1. a.place \in [1 .. n -> Int]
    BY <1>1 DEF Row
  <2> QED  BY <2>1
<1> HIDE DEF r
<1>4. Joined(r, a.place) \in Row(3 + n)
  BY <1>2, <1>3, JoinedType
<1>5. FrameKey(a) = Joined(r, a.place)
  BY DEF FrameKey, Rank, r, Joined
<1>6. ASSUME NEW j \in 1 .. n  PROVE FrameKey(a)[3 + j] = a.place[j]
  <2>1. j \in 1 .. Len(a.place) /\ 3 + j = Len(r) + j /\ 3 + j \in Int
    BY <1>2, <1>3
  <2>2. \A u \in 1 .. Len(a.place), i \in Int :
            i = Len(r) + u => Joined(r, a.place)[i] = a.place[u]
    BY <1>2, <1>3, JoinedElement
  <2> QED  BY <1>5, <2>1, <2>2
<1> QED  BY <1>4, <1>5, <1>6

\* Equal keys have equal places.
LEMMA EqualPlaces ==
    ASSUME NEW n \in Nat, NEW a \in FrameCapsules(n), NEW b \in FrameCapsules(n),
           FrameKey(a) = FrameKey(b)
    PROVE  a.place = b.place
<1>1. a.place \in [1 .. n -> Int] /\ b.place \in [1 .. n -> Int]
  BY DEF FrameCapsules, Row
<1>2. \A j \in 1 .. n : a.place[j] = b.place[j]
  <2> SUFFICES ASSUME NEW j \in 1 .. n  PROVE a.place[j] = b.place[j]
    OBVIOUS
  <2>1. FrameKey(a)[3 + j] = a.place[j] /\ FrameKey(b)[3 + j] = b.place[j]
    BY FrameKeyType
  <2> QED  BY <2>1
<1>3. PICK u, v : u = a.place /\ v = b.place
  OBVIOUS
<1>4. u \in [1 .. n -> Int] /\ v \in [1 .. n -> Int] /\ \A j \in 1 .. n : u[j] = v[j]
  BY <1>1, <1>2, <1>3
<1>5. u = v
  BY <1>4
<1> QED  BY <1>3, <1>5

\* Truncating a frame to its first max answers.
LEMMA FirstOfFrame ==
    ASSUME NEW n \in Nat, NEW A, Keyed(A, n), NEW max \in Nat
    PROVE  LET kept == First(A, max, FrameKey)
           IN  /\ kept \subseteq A
               /\ Cardinality(kept) <= max
               /\ Cardinality(A) <= max => kept = A
               /\ A # {} /\ max > 0 => kept # {}
<1> DEFINE K == [x \in A |-> FrameKey(x)]
<1>1. K \in [A -> Row(3 + n)]
  <2>1. \A x \in A : FrameKey(x) \in Row(3 + n)
    BY FrameKeyType DEF Keyed
  <2> QED  BY <2>1
<1>2. \A x, y \in A : K[x] = K[y] => x = y
  BY DEF Keyed
<1>3. First(A, max, FrameKey) = {x \in A : Place(A, K, x) < max}
  <2>1. \A x \in A : {y \in A : Lex(FrameKey(y), FrameKey(x))} = Before(A, K, x)
    BY DEF Before
  <2> HIDE DEF K
  <2> QED  BY <2>1 DEF First, Place
<1>4. IsFiniteSet(A) /\ 3 + n \in Nat
  BY DEF Keyed
<1> HIDE DEF K
<1>5. LET kept == {x \in A : Place(A, K, x) < max}
      IN  /\ Cardinality(kept) <= max
          /\ Cardinality(A) <= max => kept = A
          /\ A # {} /\ max > 0 => kept # {}
  BY <1>1, <1>2, <1>4, FirstOnes
<1> QED  BY <1>3, <1>5

\* What one segment answers: capsules it holds, one for an id.
Hit == [id : Ids, cap : Content, score : Int]

Hits(A) == A \subseteq Hit /\ \A a, b \in A : a.id = b.id => a = b

LEMMA AnswersAreHits ==
    ASSUME NEW tier \in Tier, NEW p
    PROVE  Hits(Answers(tier, p))
<1> DEFINE scored == {[id |-> id, cap |-> tier[id], score |-> tier[id].score] :
                          id \in Candidates(tier, p)}
           top == First(scored, p.max, SegmentKey)
<1>1. top \subseteq scored
  BY DEF First
<1>2. Answers(tier, p) \subseteq top
  BY DEF Answers, WithinBudget
<1>3. Candidates(tier, p) \subseteq Held(tier)
  BY CandidatesAreGated DEF Gated
<1>4. \A id \in Held(tier) : id \in Ids /\ tier[id] \in Content
  BY ContentsAssumption DEF Held, Tier
<1>5. \A id \in Held(tier) : tier[id].score \in Int
  BY <1>4 DEF Content
<1>6. scored \subseteq Hit
  BY <1>3, <1>4, <1>5 DEF Hit
<1>7. \A a, b \in scored : a.id = b.id => a = b
  OBVIOUS
<1> HIDE DEF scored, top
<1> QED  BY <1>1, <1>2, <1>6, <1>7 DEF Hits

LEMMA SegmentKeyType ==
    ASSUME NEW b \in Hit, NEW i \in Int
    PROVE  /\ Joined(<<i>>, SegmentKey(b)) \in Row(5)
           /\ Joined(<<i>>, SegmentKey(b))[5] = b.id
<1>1. /\ b.score \in Int /\ b.cap.trust \in Nat /\ b.cap.verified \in Int
      /\ b.id \in Int
  BY OrderedIdsAssumption DEF Hit, Content
<1> DEFINE k == SegmentKey(b)
           one == <<i>>
<1>2. k \in Seq(Int) /\ Len(k) = 4 /\ k[4] = b.id
  BY <1>1 DEF SegmentKey
<1>3. one \in Seq(Int) /\ Len(one) = 1
  OBVIOUS
<1> HIDE DEF k, one
<1>4. Joined(one, k) \in Row(1 + 4)
  BY <1>2, <1>3, JoinedType
<1>5. Joined(one, k)[5] = k[4]
  <2>1. 4 \in 1 .. Len(k) /\ 5 = Len(one) + 4
    BY <1>2, <1>3
  <2>2. \A u \in 1 .. Len(k), h \in Int :
            h = Len(one) + u => Joined(one, k)[h] = k[u]
    BY <1>2, <1>3, JoinedElement
  <2> QED  BY <2>1, <2>2
<1> QED  BY <1>2, <1>4, <1>5 DEF k, one

\* Answers with different ids are no more than there are ids.
LEMMA DistinctIdsFinite ==
    ASSUME NEW A, \A a \in A : a.id \in Ids, \A a, b \in A : a.id = b.id => a = b
    PROVE  IsFiniteSet(A) /\ Cardinality(A) <= Cardinality(Ids)
<1> DEFINE f == [a \in A |-> a.id]
<1>1. f \in Injection(A, Ids)
  BY DEF Injection, IsInjective
<1> HIDE DEF f
<1> QED  BY <1>1, IdsAssumption, FS_Injection

-----------------------------------------------------------------------------
(* Merging the frames of the tiers. *)

LatestFrame(frames, i, a) ==
    \A j \in i + 1 .. Len(frames) : \A b \in frames[j].answers : b.id # a.id

Merged(frames) ==
    UNION {{FrameCapsule(a.id, a.cap, a.score, FirstSeen(frames, a)) :
                a \in {a \in frames[i].answers : LatestFrame(frames, i, a)}} :
           i \in DOMAIN frames}

LEMMA MergedAnswers ==
    ASSUME NEW frames, NEW max
    PROVE  MergeFrames(frames, max).answers = First(Merged(frames), max, FrameKey)
BY DEF MergeFrames, Merged, LatestFrame

\* One frame for a tier, each with one answer for an id.
TierFrames(frames) ==
    /\ DOMAIN frames = 1 .. Len(frames) /\ Len(frames) \in Nat
    /\ \A i \in DOMAIN frames : Hits(frames[i].answers)

LEMMA FirstSeenType ==
    ASSUME NEW frames, TierFrames(frames), NEW h \in DOMAIN frames,
           NEW a \in frames[h].answers
    PROVE  FirstSeen(frames, a) \in Row(5) /\ FirstSeen(frames, a)[5] = a.id
<1> DEFINE I == {i \in DOMAIN frames : \E b \in frames[i].answers : b.id = a.id}
           i == Min(I)
           b == CHOOSE b \in frames[i].answers : b.id = a.id
<1>1. I \in SUBSET Nat /\ I # {}
  BY DEF TierFrames
<1>2. \E m \in I : \A j \in I : m <= j
  <2> HIDE DEF I
  <2> QED  BY <1>1, LeastNat
<1>3. i \in I
  <2> HIDE DEF I
  <2> QED  BY <1>2 DEF Min
<1>4. b \in frames[i].answers /\ b.id = a.id
  BY <1>3
<1>5. b \in Hit /\ i \in Int
  <2>1. i \in DOMAIN frames
    BY <1>3
  <2> HIDE DEF I, i, b
  <2> QED  BY <1>4, <2>1 DEF TierFrames, Hits
<1>6. FirstSeen(frames, a) = Joined(<<i>>, SegmentKey(b))
  BY DEF FirstSeen, Joined
<1> HIDE DEF i, b
<1> QED  BY <1>4, <1>5, <1>6, SegmentKeyType

LEMMA MergedKeyed ==
    ASSUME NEW frames, TierFrames(frames)
    PROVE  Keyed(Merged(frames), 5) /\ \A a, b \in Merged(frames) : a.id = b.id => a = b
<1> DEFINE C(a) == FrameCapsule(a.id, a.cap, a.score, FirstSeen(frames, a))
<1>1. \A x \in Merged(frames) : \E i \in DOMAIN frames : \E a \in frames[i].answers :
          x = C(a) /\ LatestFrame(frames, i, a)
  BY DEF Merged
<1>2. ASSUME NEW i \in DOMAIN frames, NEW a \in frames[i].answers
      PROVE  C(a) \in FrameCapsules(5) /\ C(a).place[5] = a.id /\ C(a).id = a.id
  <2>1. FirstSeen(frames, a) \in Row(5) /\ FirstSeen(frames, a)[5] = a.id
    BY <1>2, FirstSeenType
  <2>2. a \in Hit
    BY DEF TierFrames, Hits
  <2> QED  BY <2>1, <2>2 DEF FrameCapsule, FrameCapsules, Hit
<1>3. /\ Merged(frames) \subseteq FrameCapsules(5)
      /\ \A x \in Merged(frames) : x.place[5] = x.id /\ x.id \in Ids
  <2> SUFFICES ASSUME NEW x \in Merged(frames)
               PROVE  x \in FrameCapsules(5) /\ x.place[5] = x.id /\ x.id \in Ids
    OBVIOUS
  <2>1. PICK i \in DOMAIN frames : \E a \in frames[i].answers : x = C(a)
    BY <1>1
  <2>2. PICK a \in frames[i].answers : x = C(a)
    BY <2>1
  <2> HIDE DEF C
  <2>3. x \in FrameCapsules(5) /\ x.place[5] = x.id
    BY <1>2, <2>2
  <2> QED  BY <2>3 DEF FrameCapsules
<1>4. \A x, y \in Merged(frames) : x.id = y.id => x = y
  <2> SUFFICES ASSUME NEW x \in Merged(frames), NEW y \in Merged(frames), x.id = y.id
               PROVE  x = y
    OBVIOUS
  <2>1. PICK i \in DOMAIN frames : \E a \in frames[i].answers :
            x = C(a) /\ LatestFrame(frames, i, a)
    BY <1>1
  <2>2. PICK a \in frames[i].answers : x = C(a) /\ LatestFrame(frames, i, a)
    BY <2>1
  <2>3. PICK j \in DOMAIN frames : \E b \in frames[j].answers :
            y = C(b) /\ LatestFrame(frames, j, b)
    BY <1>1
  <2>4. PICK b \in frames[j].answers : y = C(b) /\ LatestFrame(frames, j, b)
    BY <2>3
  <2>5. a.id = b.id
    BY <1>2, <2>2, <2>4
  <2> HIDE DEF C
  <2>6. /\ i \in 1 .. Len(frames) /\ j \in 1 .. Len(frames) /\ Len(frames) \in Nat
    BY DEF TierFrames
  <2>7. ~(i < j) /\ ~(j < i)
    <3>1. i < j => j \in i + 1 .. Len(frames)
      BY <2>6
    <3>2. j < i => i \in j + 1 .. Len(frames)
      BY <2>6
    <3> QED  BY <2>2, <2>4, <2>5, <3>1, <3>2 DEF LatestFrame
  <2>8. i = j
    BY <2>6, <2>7
  <2>9. a = b
    BY <2>5, <2>8 DEF TierFrames, Hits
  <2> QED  BY <2>2, <2>4, <2>9
<1> HIDE DEF C
<1>5. IsFiniteSet(Merged(frames))
  BY <1>3, <1>4, DistinctIdsFinite
<1>6. \A x, y \in Merged(frames) : FrameKey(x) = FrameKey(y) => x = y
  <2> SUFFICES ASSUME NEW x \in Merged(frames), NEW y \in Merged(frames),
                      FrameKey(x) = FrameKey(y)
               PROVE  x.id = y.id
    BY <1>4
  <2>1. x.place = y.place
    BY <1>3, EqualPlaces
  <2> QED  BY <1>3, <2>1
<1> QED  BY <1>3, <1>4, <1>5, <1>6 DEF Keyed

\* The tiers of a store, and what a probe finds in them.
LEMMA LiveSegmentsType ==
    ASSUME NEW s \in Store
    PROVE  LiveSegments(s) \in Seq(Segment)
<1>1. /\ s.segments \in Seq(Segment) /\ s.sealed_deltas \in Seq(Segment)
      /\ s.delta_segment \in Segment
  BY DEF Store
<1>2. s.segments \o s.sealed_deltas \in Seq(Segment)
  BY <1>1
<1>3. <<>> \in Seq(Segment) /\ <<s.delta_segment>> \in Seq(Segment)
  BY <1>1
<1> QED  BY <1>2, <1>3 DEF LiveSegments

LEMMA TierFramesOf ==
    ASSUME NEW s \in Store, NEW p
    PROVE  TierFrames([i \in DOMAIN LiveSegments(s) |-> Retrieve(LiveSegments(s)[i].caps, p)])
<1> DEFINE segs == LiveSegments(s)
           frames == [i \in DOMAIN segs |-> Retrieve(segs[i].caps, p)]
<1>1. /\ DOMAIN segs = 1 .. Len(segs) /\ Len(segs) \in Nat
      /\ \A i \in DOMAIN segs : segs[i] \in Segment
  <2>1. segs \in Seq(Segment)
    BY LiveSegmentsType
  <2> HIDE DEF segs
  <2> QED  BY <2>1
<1> HIDE DEF segs
<1>2. DOMAIN frames = 1 .. Len(segs)
  BY <1>1
<1>3. Len(frames) = Len(segs)
  BY <1>1, <1>2
<1>4. ASSUME NEW i \in DOMAIN frames  PROVE Hits(frames[i].answers)
  <2>1. segs[i].caps \in Tier
    BY <1>1, <1>2 DEF Segment
  <2>2. frames[i].answers = Answers(segs[i].caps, p)
    BY <1>1, <1>2 DEF Retrieve
  <2> QED  BY <2>1, <2>2, AnswersAreHits
<1> QED  BY <1>1, <1>2, <1>3, <1>4 DEF TierFrames, segs

LEMMA RetrieveL5mKeyed ==
    ASSUME NEW s \in Store, NEW p
    PROVE  Keyed(RetrieveL5m(s, p).answers, 5)
<1> DEFINE frames == [i \in DOMAIN LiveSegments(s) |-> Retrieve(LiveSegments(s)[i].caps, p)]
<1>1. RetrieveL5m(s, p).answers = First(Merged(frames), p.max, FrameKey)
  BY MergedAnswers DEF RetrieveL5m
<1>2. Keyed(Merged(frames), 5)
  BY TierFramesOf, MergedKeyed
<1> HIDE DEF frames
<1>3. First(Merged(frames), p.max, FrameKey) \subseteq Merged(frames)
  BY DEF First
<1> QED  BY <1>1, <1>2, <1>3, KeyedSubset

-----------------------------------------------------------------------------
(* Fusion, aggregation per parent, and the closing deduplication.            *)

\* The pool retrieve_fusion ranks.
Scored(s, p) ==
    UNION {{FrameCapsule(id, LiveSegments(s)[i].caps[id],
                         LiveSegments(s)[i].caps[id].score, <<i, id>>) :
                id \in {id \in Held(LiveSegments(s)[i].caps) :
                            FusionGates(LiveSegments(s)[i].caps[id], p)}} :
           i \in DOMAIN LiveSegments(s)}

LEMMA ScoredKeyed ==
    ASSUME NEW s \in Store, NEW p
    PROVE  Keyed(Scored(s, p), 2)
<1> DEFINE segs == LiveSegments(s)
           C(i, id) == FrameCapsule(id, segs[i].caps[id], segs[i].caps[id].score, <<i, id>>)
           X == Scored(s, p)
<1>1. /\ DOMAIN segs = 1 .. Len(segs) /\ Len(segs) \in Nat
      /\ \A i \in DOMAIN segs : segs[i] \in Segment
  <2>1. segs \in Seq(Segment)
    BY LiveSegmentsType
  <2> HIDE DEF segs
  <2> QED  BY <2>1
<1>2. \A x \in X : \E i \in DOMAIN segs : \E id \in Held(segs[i].caps) : x = C(i, id)
  BY DEF Scored
<1> HIDE DEF segs, X
<1>3. ASSUME NEW i \in DOMAIN segs, NEW id \in Held(segs[i].caps)
      PROVE  C(i, id) \in FrameCapsules(2) /\ C(i, id).place = <<i, id>>
  <2>1. /\ id \in Ids /\ segs[i].caps[id] \in Content
        /\ segs[i].caps[id].score \in Int
    <3>1. segs[i].caps \in Tier
      BY <1>1 DEF Segment
    <3>2. id \in Ids /\ segs[i].caps[id] \in Content
      BY <3>1, ContentsAssumption DEF Held, Tier
    <3> QED  BY <3>2 DEF Content
  <2>2. <<i, id>> \in Row(2)
    BY <1>1, <2>1, OrderedIdsAssumption DEF Row
  <2> QED  BY <2>1, <2>2 DEF FrameCapsule, FrameCapsules
<1>4. \A x \in X : \E i \in DOMAIN segs : \E id \in Held(segs[i].caps) :
          x = C(i, id) /\ x \in FrameCapsules(2) /\ x.place = <<i, id>>
  BY <1>2, <1>3
<1>5. X \subseteq FrameCapsules(2)
  BY <1>4
<1>6. \A x, y \in X : x.place = y.place => x = y
  <2> SUFFICES ASSUME NEW x \in X, NEW y \in X, x.place = y.place
               PROVE  x = y
    OBVIOUS
  <2>1. PICK i \in DOMAIN segs : \E id \in Held(segs[i].caps) :
            x = C(i, id) /\ x.place = <<i, id>>
    BY <1>4
  <2>2. PICK id \in Held(segs[i].caps) : x = C(i, id) /\ x.place = <<i, id>>
    BY <2>1
  <2>3. PICK h \in DOMAIN segs : \E other \in Held(segs[h].caps) :
            y = C(h, other) /\ y.place = <<h, other>>
    BY <1>4
  <2>4. PICK other \in Held(segs[h].caps) : y = C(h, other) /\ y.place = <<h, other>>
    BY <2>3
  <2>5. <<i, id>> = <<h, other>>
    BY <2>2, <2>4
  <2>6. i = h /\ id = other
    BY <2>5
  <2> HIDE DEF C
  <2> QED  BY <2>2, <2>4, <2>6
<1>7. IsFiniteSet(X)
  <2> DEFINE f == [x \in X |-> x.place]
             T == 1 .. Len(segs)
  <2>1. ASSUME NEW x \in X  PROVE x.place \in T \X Ids
    <3>1. PICK i \in DOMAIN segs : \E id \in Held(segs[i].caps) : x.place = <<i, id>>
      BY <1>4
    <3> QED  BY <1>1, <3>1 DEF Held
  <2>3. IsFiniteSet(T)
    BY <1>1, FS_Interval
  <2> HIDE DEF T
  <2>2. f \in Injection(X, T \X Ids)
    BY <1>6, <2>1 DEF Injection, IsInjective
  <2>4. IsFiniteSet(T \X Ids)
    BY <2>3, IdsAssumption, FS_Product
  <2> HIDE DEF f
  <2> QED  BY <2>2, <2>4, FS_Injection
<1>8. \A x, y \in X : FrameKey(x) = FrameKey(y) => x = y
  <2> SUFFICES ASSUME NEW x \in X, NEW y \in X, FrameKey(x) = FrameKey(y)
               PROVE  x.place = y.place
    BY <1>6
  <2> QED  BY <1>5, EqualPlaces
<1> QED  BY <1>5, <1>7, <1>8 DEF Keyed, X

LEMMA AggregateKeyed ==
    ASSUME NEW n \in Nat, NEW answers, Keyed(answers, n), NEW max,
           NEW kept \in Aggregate(answers, max)
    PROVE  Keyed(kept, 1)
<1> DEFINE Siblings(a) == {b \in answers : b.cap.source = a.cap.source}
           best == {a \in answers :
                       ~\E b \in Siblings(a) : Lex(FrameKey(b), FrameKey(a))}
           Bonus(a) == SupportBonus * (Cardinality(Siblings(a)) - 1)
           C(order, a) ==
               FrameCapsule(a.id, a.cap, a.score + Bonus(a), <<order[a.cap.source]>>)
           Parents(order) == {C(order, a) : a \in best}
           sources == {a.cap.source : a \in best}
<1>1. PICK order \in Bijection(sources, 1 .. Cardinality(sources)) :
          kept \subseteq Parents(order)
  BY DEF Aggregate, First
<1>2. /\ best \subseteq answers
      /\ \A a, b \in best : a.cap.source = b.cap.source => a = b
  <2>1. best \subseteq answers
    OBVIOUS
  <2>2. ASSUME NEW a \in best, NEW b \in best, a.cap.source = b.cap.source, a # b
        PROVE  FALSE
    <3>1. b \in Siblings(a) /\ a \in Siblings(b)
      BY <2>1, <2>2
    <3>2. ~Lex(FrameKey(b), FrameKey(a)) /\ ~Lex(FrameKey(a), FrameKey(b))
      BY <2>2, <3>1
    <3> HIDE DEF best
    <3>3. /\ FrameKey(a) # FrameKey(b)
          /\ FrameKey(a) \in Row(3 + n) /\ FrameKey(b) \in Row(3 + n)
      BY <2>1, <2>2, FrameKeyType DEF Keyed
    <3> QED  BY <3>2, <3>3, LexTotal
  <2> QED  BY <2>1, <2>2
<1>3. /\ order \in [sources -> 1 .. Cardinality(sources)]
      /\ \A u, v \in sources : order[u] = order[v] => u = v
  <2> HIDE DEF sources
  <2> QED  BY <1>1 DEF Bijection, Injection, IsInjective
<1>4. \A a \in answers : Bonus(a) \in Int
  <2> SUFFICES ASSUME NEW a \in answers  PROVE Bonus(a) \in Int
    OBVIOUS
  <2>1. Siblings(a) \in SUBSET answers
    OBVIOUS
  <2>2. Cardinality(Siblings(a)) \in Nat
    BY <2>1, FS_Subset, FS_CardinalityType DEF Keyed
  <2> QED  BY <2>2, BonusAssumption
<1>5. \A a \in best : a.cap.source \in sources
  OBVIOUS
<1> HIDE DEF best, Bonus, sources
<1>6. \A a \in best : /\ C(order, a) \in FrameCapsules(1)
                      /\ C(order, a).place = <<order[a.cap.source]>>
  <2> SUFFICES ASSUME NEW a \in best
               PROVE  /\ C(order, a) \in FrameCapsules(1)
                      /\ C(order, a).place = <<order[a.cap.source]>>
    OBVIOUS
  <2>1. a.id \in Ids /\ a.cap \in Content /\ a.score \in Int
    BY <1>2 DEF Keyed, FrameCapsules
  <2>2. a.score + Bonus(a) \in Int
    BY <1>2, <1>4, <2>1
  <2>3. order[a.cap.source] \in Int
    BY <1>3, <1>5
  <2>4. <<order[a.cap.source]>> \in Row(1)
    BY <2>3 DEF Row
  <2> QED  BY <2>1, <2>2, <2>4 DEF FrameCapsule, FrameCapsules
<1>7. \A x \in Parents(order) : \E a \in best :
          x = C(order, a) /\ x \in FrameCapsules(1) /\ x.place = <<order[a.cap.source]>>
  BY <1>6
<1> HIDE DEF Parents
<1>8. Parents(order) \subseteq FrameCapsules(1)
  BY <1>7
<1>9. \A x, y \in Parents(order) : x.place = y.place => x = y
  <2> SUFFICES ASSUME NEW x \in Parents(order), NEW y \in Parents(order), x.place = y.place
               PROVE  x = y
    OBVIOUS
  <2>1. PICK a \in best : x = C(order, a) /\ x.place = <<order[a.cap.source]>>
    BY <1>7
  <2>2. PICK b \in best : y = C(order, b) /\ y.place = <<order[b.cap.source]>>
    BY <1>7
  <2>3. order[a.cap.source] = order[b.cap.source]
    BY <2>1, <2>2
  <2>4. a.cap.source = b.cap.source
    BY <1>3, <1>5, <2>3
  <2> QED  BY <1>2, <2>1, <2>2, <2>4
<1>10. IsFiniteSet(Parents(order))
  <2> DEFINE g == [x \in Parents(order) |-> CHOOSE a \in best : x = C(order, a)]
  <2>1. \A x \in Parents(order) : g[x] \in best /\ x = C(order, g[x])
    BY <1>7
  <2>2. g \in [Parents(order) -> answers]
    BY <1>2, <2>1
  <2>3. \A x, y \in Parents(order) : g[x] = g[y] => x = y
    BY <2>1
  <2> HIDE DEF g
  <2>4. g \in Injection(Parents(order), answers)
    BY <2>2, <2>3 DEF Injection, IsInjective
  <2> QED  BY <2>4, FS_Injection DEF Keyed
<1>11. Keyed(Parents(order), 1)
  <2>1. ASSUME NEW x \in Parents(order), NEW y \in Parents(order),
               FrameKey(x) = FrameKey(y)
        PROVE  x = y
    BY <1>8, <1>9, <2>1, EqualPlaces
  <2> QED  BY <1>8, <1>10, <2>1 DEF Keyed
<1> QED  BY <1>1, <1>11, KeyedSubset

\* Deduplication leaves one answer for an id, and no more than max.
OnePerId(answers, max) ==
    /\ \A a, b \in answers : a.id = b.id => a = b
    /\ Cardinality(answers) <= max

LEMMA FinishOnePerId ==
    ASSUME NEW s, NEW n \in Nat, NEW frame, Keyed(frame.answers, n), NEW max \in Nat
    PROVE  OnePerId(Finish(s, frame, max).answers, max)
<1> DEFINE alive == {a \in frame.answers : a.id \notin s.tombstones}
           best == {a \in alive : ~\E b \in alive :
                                      b.id = a.id /\ Lex(FrameKey(b), FrameKey(a))}
<1>1. Keyed(best, n) /\ best \subseteq frame.answers
  BY KeyedSubset
<1>2. \A a, b \in best : a.id = b.id => a = b
  <2> SUFFICES ASSUME NEW a \in best, NEW b \in best, a.id = b.id, a # b
               PROVE  FALSE
    OBVIOUS
  <2>1. ~Lex(FrameKey(b), FrameKey(a)) /\ ~Lex(FrameKey(a), FrameKey(b))
    OBVIOUS
  <2> HIDE DEF best
  <2>2. /\ FrameKey(a) # FrameKey(b)
        /\ FrameKey(a) \in Row(3 + n) /\ FrameKey(b) \in Row(3 + n)
    BY <1>1, FrameKeyType DEF Keyed
  <2> QED  BY <2>1, <2>2, LexTotal
<1>3. Finish(s, frame, max).answers = First(best, max, FrameKey)
  BY DEF Finish
<1> HIDE DEF best
<1>4. /\ First(best, max, FrameKey) \subseteq best
      /\ Cardinality(First(best, max, FrameKey)) <= max
  BY <1>1, FirstOfFrame
<1> QED  BY <1>2, <1>3, <1>4 DEF OnePerId

LEMMA FramesKeyed ==
    ASSUME NEW s \in Store, NEW mode \in Modes, NEW p \in Probes,
           NEW frame \in Frames(s, mode, p)
    PROVE  OnePerId(frame.answers, p.max)
<1>0. p \in Probe /\ p.max \in Nat
  BY ProbesAssumption DEF Probe
<1>1. PICK f : /\ frame = Finish(s, f, p.max)
               /\ \/ f = RetrieveL5m(s, p)
                  \/ f \in RetrieveParentAggregate(s, p)
                  \/ f \in RetrieveFusion(s, p, FALSE)
                  \/ f \in RetrieveFusion(s, p, TRUE)
  BY ModesAssumption DEF Frames
<1>2. \E n \in Nat : Keyed(f.answers, n)
  <2>1. CASE f = RetrieveL5m(s, p)
    BY <2>1, RetrieveL5mKeyed
  <2>2. CASE f \in RetrieveParentAggregate(s, p)
    <3> DEFINE wide == [p EXCEPT !.max = 4 * p.max]
               r == RetrieveL5m(s, wide)
    <3>1. PICK kept \in Aggregate(r.answers, p.max) : f = [r EXCEPT !.answers = kept]
      BY <2>2 DEF RetrieveParentAggregate
    <3>2. DOMAIN r = {"answers", "conflicts"}
      BY DEF RetrieveL5m, MergeFrames
    <3>3. Keyed(r.answers, 5)
      BY RetrieveL5mKeyed
    <3> HIDE DEF r
    <3>4. f.answers = kept
      BY <3>1, <3>2
    <3> QED  BY <3>3, <3>4, AggregateKeyed
  <2>3. ASSUME NEW parent_aggregate \in BOOLEAN, f \in RetrieveFusion(s, p, parent_aggregate)
        PROVE  \E n \in Nat : Keyed(f.answers, n)
    <3>1. PICK kept \in IF parent_aggregate THEN Aggregate(Scored(s, p), p.max)
                        ELSE {First(Scored(s, p), p.max, FrameKey)} :
              f = [answers |-> kept, conflicts |-> {}]
      BY <2>3 DEF RetrieveFusion, Scored
    <3>2. Keyed(Scored(s, p), 2)
      BY ScoredKeyed
    <3>3. First(Scored(s, p), p.max, FrameKey) \subseteq Scored(s, p)
      BY DEF First
    <3>4. CASE parent_aggregate
      BY <3>1, <3>2, <3>4, AggregateKeyed
    <3>5. CASE ~parent_aggregate
      <4>1. kept \subseteq Scored(s, p)
        BY <3>1, <3>3, <3>5
      <4> QED  BY <3>1, <3>2, <4>1, KeyedSubset
    <3> QED  BY <3>4, <3>5
  <2> QED  BY <1>1, <2>1, <2>2, <2>3
<1> QED  BY <1>0, <1>1, <1>2, FinishOnePerId

-----------------------------------------------------------------------------
(* Nothing is lost on the way: what a stage is given, it does not turn into  *)
(* an empty answer.                                                          *)

LEMMA KeptOfAppended ==
    ASSUME NEW S, NEW k \in Seq(S), NEW m \in Seq(S)
    PROVE  /\ \A h \in DOMAIN k : \E i \in DOMAIN Joined(k, m) : Joined(k, m)[i] = k[h]
           /\ \A h \in DOMAIN m : \E i \in DOMAIN Joined(k, m) : Joined(k, m)[i] = m[h]
<1> DEFINE l == k \o m
<1>1. /\ Len(k) \in Nat /\ Len(m) \in Nat
      /\ DOMAIN k = 1 .. Len(k) /\ DOMAIN m = 1 .. Len(m)
  OBVIOUS
<1>2. DOMAIN l = 1 .. Len(k) + Len(m)
  BY <1>1
<1>3. ASSUME NEW h \in DOMAIN k  PROVE h \in DOMAIN l /\ l[h] = k[h]
  BY <1>1, <1>2
<1>4. ASSUME NEW h \in DOMAIN m
      PROVE  Len(k) + h \in DOMAIN l /\ l[Len(k) + h] = m[h]
  <2>1. /\ Len(k) + h \in 1 .. Len(k) + Len(m) /\ ~(Len(k) + h <= Len(k))
        /\ Len(k) + h - Len(k) = h
    BY <1>1
  <2> QED  BY <1>1, <1>2, <2>1
<1> HIDE DEF l
<1>5. /\ \A h \in DOMAIN k : \E i \in DOMAIN l : l[i] = k[h]
      /\ \A h \in DOMAIN m : \E i \in DOMAIN l : l[i] = m[h]
  BY <1>3, <1>4
<1> QED  BY <1>5 DEF l, Joined

\* With the index of the buffer up to date, some tier that is searched holds
\* the live version of every live capsule.
LEMMA LiveIsServed ==
    ASSUME NEW s \in Store, Indexed(s), NEW id \in Ids, Live(s)[id] # NoCapsule
    PROVE  \E i \in DOMAIN LiveSegments(s) : LiveSegments(s)[i].caps[id] = Live(s)[id]
<1> DEFINE base == s.segments
           runs == s.sealed_deltas
           lower == Joined(base, runs)
           top == IF s.delta_segment = NoSegment THEN <<>> ELSE <<s.delta_segment>>
           v == Live(s)[id]
<1>1. base \in Seq(Segment) /\ runs \in Seq(Segment) /\ s.delta_segment \in Segment
  BY DEF Store
<1>2. lower \in Seq(Segment) /\ top \in Seq(Segment)
  BY <1>1 DEF Joined
<1>3. LiveSegments(s) = Joined(lower, top)
  BY DEF LiveSegments, Joined
<1>4. \/ s.delta[id] # NoCapsule /\ v = s.delta[id]
      \/ Holds(runs, id) /\ v = LastHeld(runs, id)
      \/ v = LastHeld(base, id)
  BY DEF Live
<1>5. CASE s.delta[id] # NoCapsule /\ v = s.delta[id]
  <2>1. s.delta_segment.caps[id] = v /\ s.delta_segment.caps[id] # NoCapsule
    BY <1>5 DEF Indexed
  <2>2. s.delta_segment # NoSegment
    BY <2>1 DEF NoSegment, EmptyTier
  <2>3. DOMAIN top = {1} /\ top[1] = s.delta_segment
    BY <2>2
  <2> HIDE DEF top, lower, v
  <2>4. \E i \in DOMAIN Joined(lower, top) : Joined(lower, top)[i] = top[1]
    BY <1>2, <2>3, KeptOfAppended
  <2> QED  BY <1>3, <2>1, <2>3, <2>4 DEF v
<1>6. ASSUME NEW h \in DOMAIN lower, lower[h].caps[id] = v
      PROVE  \E i \in DOMAIN LiveSegments(s) : LiveSegments(s)[i].caps[id] = v
  <2> HIDE DEF lower, top
  <2>1. \E i \in DOMAIN Joined(lower, top) : Joined(lower, top)[i] = lower[h]
    BY <1>2, KeptOfAppended
  <2> QED  BY <1>3, <1>6, <2>1
<1>7. CASE Holds(runs, id) /\ v = LastHeld(runs, id)
  <2>1. PICK h \in DOMAIN runs : LastHeld(runs, id) = runs[h].caps[id]
    BY <1>1, <1>7, LastHeldIndex
  <2>2. \E i \in DOMAIN lower : lower[i] = runs[h]
    BY <1>1, KeptOfAppended
  <2> HIDE DEF base, runs, v, lower
  <2> QED  BY <1>6, <1>7, <2>1, <2>2 DEF v
<1>8. CASE v = LastHeld(base, id)
  <2>1. Holds(base, id)
    BY <1>8 DEF LastHeld
  <2>2. PICK h \in DOMAIN base : LastHeld(base, id) = base[h].caps[id]
    BY <1>1, <2>1, LastHeldIndex
  <2>3. \E i \in DOMAIN lower : lower[i] = base[h]
    BY <1>1, KeptOfAppended
  <2> HIDE DEF base, runs, v, lower
  <2> QED  BY <1>6, <1>8, <2>2, <2>3 DEF v
<1> HIDE DEF v
<1> QED  BY <1>4, <1>5, <1>7, <1>8 DEF v

\* The fallback always has something to scan.
LEMMA ExactNonempty ==
    ASSUME NEW tier \in Tier, NEW gated \in SUBSET Held(tier), gated # {}
    PROVE  ExactCandidates(tier, gated) # {}
<1> DEFINE narrowed == {id \in gated : tier[id].lookup \/ tier[id].near}
           pool == IF narrowed = {} THEN gated ELSE narrowed
           Key(id) == <<IF tier[id].lookup THEN 0 ELSE 1, tier[id].dist, id>>
           K == [id \in pool |-> Key(id)]
<1>1. pool \in SUBSET gated /\ pool # {}
  OBVIOUS
<1> HIDE DEF pool
<1>2. pool \in SUBSET Ids /\ IsFiniteSet(pool)
  <2>1. pool \in SUBSET Ids
    BY <1>1 DEF Held
  <2> QED  BY <2>1, IdsAssumption, FS_Subset
<1>3. ASSUME NEW id \in pool  PROVE Key(id) \in Row(3) /\ Key(id)[3] = id
  <2>1. tier[id] \in Content /\ id \in Int
    BY <1>1, ContentsAssumption, OrderedIdsAssumption DEF Held, Tier
  <2>2. tier[id].dist \in Nat
    BY <2>1 DEF Content
  <2>3. (IF tier[id].lookup THEN 0 ELSE 1) \in Int
    OBVIOUS
  <2> QED  BY <2>1, <2>2, <2>3 DEF Row
<1>4. ExactCandidates(tier, gated) =
          {id \in pool : Cardinality({y \in pool : Lex(Key(y), Key(id))}) < MaxScored}
  BY DEF ExactCandidates, First, pool
<1> HIDE DEF Key
<1>5. K \in [pool -> Row(3)] /\ \A x, y \in pool : K[x] = K[y] => x = y
  BY <1>3
<1>6. PICK x \in pool : Place(pool, K, x) = 0
  BY <1>1, <1>2, <1>5, SomeoneIsFirst
<1>7. {y \in pool : Lex(Key(y), Key(x))} = Before(pool, K, x)
  BY DEF Before
<1> HIDE DEF K
<1>8. Cardinality({y \in pool : Lex(Key(y), Key(x))}) < MaxScored
  BY <1>6, <1>7, LimitsAssumption DEF Place
<1> QED  BY <1>4, <1>8

LEMMA CandidatesNonempty ==
    ASSUME NEW tier \in Tier, NEW p, Gated(tier, p) # {}
    PROVE  Candidates(tier, p) # {}
<1>1. Gated(tier, p) \in SUBSET Held(tier)
  BY DEF Gated
<1>2. ExactCandidates(tier, Gated(tier, p)) # {}
  BY <1>1, ExactNonempty
<1> QED  BY <1>2 DEF Candidates

\* A set of hits ranked by SegmentKey.
LEMMA HitsRanked ==
    ASSUME NEW A, Hits(A)
    PROVE  LET K == [a \in A |-> SegmentKey(a)]
           IN  /\ IsFiniteSet(A) /\ K \in [A -> Row(4)]
               /\ \A x, y \in A : K[x] = K[y] => x = y
               /\ \A x \in A : {y \in A : Lex(SegmentKey(y), SegmentKey(x))} =
                               Before(A, K, x)
<1> DEFINE K == [a \in A |-> SegmentKey(a)]
<1>1. IsFiniteSet(A)
  BY DistinctIdsFinite DEF Hits, Hit
<1>2. ASSUME NEW a \in A  PROVE SegmentKey(a) \in Row(4) /\ SegmentKey(a)[4] = a.id
  <2>1. /\ a.score \in Int /\ a.cap.trust \in Nat /\ a.cap.verified \in Int
        /\ a.id \in Int
    BY OrderedIdsAssumption DEF Hits, Hit, Content
  <2> QED  BY <2>1 DEF SegmentKey, Row
<1>3. K \in [A -> Row(4)]
  BY <1>2
<1>4. \A x, y \in A : K[x] = K[y] => x = y
  <2> SUFFICES ASSUME NEW x \in A, NEW y \in A, K[x] = K[y]  PROVE x.id = y.id
    BY DEF Hits
  <2>1. SegmentKey(x) = SegmentKey(y)
    OBVIOUS
  <2> QED  BY <1>2, <2>1
<1>5. \A x \in A : {y \in A : Lex(SegmentKey(y), SegmentKey(x))} = Before(A, K, x)
  BY DEF Before
<1> QED  BY <1>1, <1>3, <1>4, <1>5

\* A segment with a capsule that passes the gates answers with something: the
\* budget never refuses the first.
LEMMA AnswersNonempty ==
    ASSUME NEW tier \in Tier, NEW p, p.max \in Nat, p.max > 0, Gated(tier, p) # {}
    PROVE  Answers(tier, p) # {}
<1> DEFINE scored == {[id |-> id, cap |-> tier[id], score |-> tier[id].score] :
                          id \in Candidates(tier, p)}
           top == First(scored, p.max, SegmentKey)
           K == [a \in scored |-> SegmentKey(a)]
           L == [a \in top |-> SegmentKey(a)]
<1>1. scored # {}
  BY CandidatesNonempty
<1>2. Hits(scored)
  <2>1. Candidates(tier, p) \subseteq Held(tier)
    BY CandidatesAreGated DEF Gated
  <2>2. \A id \in Held(tier) : id \in Ids /\ tier[id] \in Content
    BY ContentsAssumption DEF Held, Tier
  <2>3. \A id \in Held(tier) : tier[id].score \in Int
    BY <2>2 DEF Content
  <2>4. scored \subseteq Hit
    BY <2>1, <2>2, <2>3 DEF Hit
  <2> QED  BY <2>4 DEF Hits
<1>3. Answers(tier, p) = WithinBudget(top, p)
  BY DEF Answers
<1> HIDE DEF scored
<1>4. /\ IsFiniteSet(scored) /\ K \in [scored -> Row(4)]
      /\ \A x, y \in scored : K[x] = K[y] => x = y
      /\ \A x \in scored : {y \in scored : Lex(SegmentKey(y), SegmentKey(x))} =
                           Before(scored, K, x)
  BY <1>2, HitsRanked
<1>5. top # {}
  <2>1. PICK x \in scored : Place(scored, K, x) = 0
    BY <1>1, <1>4, SomeoneIsFirst
  <2>2. Cardinality({y \in scored : Lex(SegmentKey(y), SegmentKey(x))}) = 0
    BY <1>4, <2>1 DEF Place
  <2> QED  BY <2>2 DEF First
<1>6. Hits(top)
  BY <1>2 DEF First, Hits
<1> HIDE DEF top, K
<1>7. /\ IsFiniteSet(top) /\ L \in [top -> Row(4)]
      /\ \A x, y \in top : L[x] = L[y] => x = y
      /\ \A x \in top : {y \in top : Lex(SegmentKey(y), SegmentKey(x))} =
                        Before(top, L, x)
  BY <1>6, HitsRanked
<1>8. PICK x \in top : Place(top, L, x) = 0
  BY <1>5, <1>7, SomeoneIsFirst
<1>9. Cardinality({y \in top : Lex(SegmentKey(y), SegmentKey(x))}) = 0
  BY <1>7, <1>8 DEF Place
<1>10. x \in WithinBudget(top, p)
  BY <1>9 DEF WithinBudget
<1> QED  BY <1>3, <1>10

LEMMA MergedNonempty ==
    ASSUME NEW frames, TierFrames(frames), NEW h \in DOMAIN frames,
           frames[h].answers # {}
    PROVE  Merged(frames) # {}
<1>1. PICK a \in frames[h].answers : TRUE
  OBVIOUS
<1> DEFINE J == {j \in DOMAIN frames : \E b \in frames[j].answers : b.id = a.id}
<1>2. J \in SUBSET (1 .. Len(frames)) /\ J # {} /\ Len(frames) \in Nat
  BY <1>1 DEF TierFrames
<1>3. PICK m \in J : \A k \in J : k <= m
  <2> HIDE DEF J
  <2> QED  BY <1>2, GreatestIndex
<1>4. PICK b \in frames[m].answers : b.id = a.id
  OBVIOUS
<1>5. LatestFrame(frames, m, b)
  <2> SUFFICES ASSUME NEW j \in m + 1 .. Len(frames), NEW c \in frames[j].answers,
                      c.id = b.id
               PROVE  FALSE
    BY DEF LatestFrame
  <2>1. m \in 1 .. Len(frames)
    BY <1>2
  <2>2. j \in 1 .. Len(frames) /\ ~(j <= m)
    BY <1>2, <2>1
  <2>3. j \in J
    BY <1>4, <2>2 DEF TierFrames
  <2> QED  BY <1>3, <2>2, <2>3
<1>6. m \in DOMAIN frames
  OBVIOUS
<1> QED  BY <1>4, <1>5, <1>6 DEF Merged

LEMMA FinishNonempty ==
    ASSUME NEW s, s.tombstones = {}, NEW n \in Nat, NEW frame, Keyed(frame.answers, n),
           frame.answers # {}, NEW max \in Nat, max > 0
    PROVE  Finish(s, frame, max).answers # {}
<1> DEFINE A == frame.answers
           alive == {a \in A : a.id \notin s.tombstones}
           best == {a \in alive : ~\E b \in alive :
                                      b.id = a.id /\ Lex(FrameKey(b), FrameKey(a))}
           K == [x \in A |-> FrameKey(x)]
<1>1. alive = A
  OBVIOUS
<1>2. Keyed(best, n)
  BY KeyedSubset
<1>3. K \in [A -> Row(3 + n)]
  <2>1. \A x \in A : FrameKey(x) \in Row(3 + n)
    BY FrameKeyType DEF Keyed
  <2> QED  BY <2>1
<1>4. IsFiniteSet(A) /\ 3 + n \in Nat /\ \A x, y \in A : K[x] = K[y] => x = y
  BY DEF Keyed
<1>5. PICK x \in A : Before(A, K, x) = {}
  <2> HIDE DEF K
  <2> QED  BY <1>3, <1>4, SomeoneIsFirst
<1>6. x \in best
  BY <1>1, <1>5 DEF Before
<1>7. Finish(s, frame, max).answers = First(best, max, FrameKey)
  BY DEF Finish
<1> HIDE DEF best
<1> QED  BY <1>2, <1>6, <1>7, FirstOfFrame

-----------------------------------------------------------------------------

\* The store under the queries keeps its type.
TypeOK == store \in Store

LEMMA InitType == Init => TypeOK
<1>1. <<>> \in Seq(Segment)
  OBVIOUS
<1> QED  BY <1>1, OpenType DEF Init, TypeOK

LEMMA NextType == TypeOK /\ [Next]_store => TypeOK'
<1> SUFFICES ASSUME TypeOK, [Next]_store  PROVE TypeOK'
  OBVIOUS
<1> USE DEF TypeOK
<1>1. CASE \E w \in Writes : DoInsert(w[1], w[2])
  BY <1>1, WritesAssumption, InsertType DEF DoInsert
<1>2. CASE \E id \in Ids : DoDelete(id)
  BY <1>2, DeleteType DEF DoDelete
<1>3. CASE DoCompact
  BY <1>3, CollectType, AdoptBaseType DEF DoCompact, Compact
<1>4. CASE DoCompactDelta
  BY <1>4, CompactDeltaType DEF DoCompactDelta
<1>5. CASE UNCHANGED store
  BY <1>5
<1> QED  BY <1>1, <1>2, <1>3, <1>4, <1>5 DEF Next

\* Every reachable store under the queries is well typed.
LEMMA TypeCorrect == Spec => []TypeOK
BY InitType, NextType, PTL DEF Spec

\* An id that was rewritten in one tier and again in another is answered once,
\* in whatever mode, and the limit the caller set is kept to.
THEOREM NoDoubleAnswers == Spec => []OneAnswerPerId
<1>1. TypeOK => OneAnswerPerId
  <2> SUFFICES ASSUME TypeOK, NEW mode \in Modes, NEW p \in Probes,
                      NEW frame \in Frames(store, mode, p)
               PROVE  OnePerId(frame.answers, p.max)
    BY DEF OneAnswerPerId, AnswerSets, OnePerId
  <2> QED  BY FramesKeyed DEF TypeOK
<1> QED  BY <1>1, TypeCorrect, PTL

\* Every operation of the queried store leaves the index of the buffer the
\* buffer itself.
IndexedInv == TypeOK /\ Indexed(store)

LEMMA NextIndexed == IndexedInv /\ [Next]_store => IndexedInv'
<1> SUFFICES ASSUME IndexedInv, [Next]_store  PROVE Indexed(store')
  <2>1. Indexed(store)' = Indexed(store')
    BY DEF Indexed
  <2> QED  BY <2>1, NextType DEF IndexedInv
<1>0. store \in Store /\ Indexed(store)
  BY DEF IndexedInv, TypeOK
<1>1. CASE \E w \in Writes : DoInsert(w[1], w[2])
  <2>1. PICK w \in Writes : store' = Insert(store, w[1], w[2])
    BY <1>1 DEF DoInsert
  <2>2. w[1] \in Ids /\ w[2] \in Capsules
    BY WritesAssumption
  <2> QED  BY <1>0, <2>1, <2>2, InsertLive
<1>2. ASSUME NEW id \in Ids, DoDelete(id)  PROVE Indexed(store')
  <2> DEFINE d == [store EXCEPT !.delta = [@ EXCEPT ![id] = NoCapsule],
                                !.tombstones = @ \cup {id}]
  <2>1. [store.delta EXCEPT ![id] = NoCapsule] \in Tier
    BY <1>0 DEF Store, Tier
  <2>2. d \in Store
    BY <1>0, <2>1 DEF Store
  <2>3. store' = RebuildActiveSegment(d)
    BY <1>2 DEF DoDelete, Delete
  <2> HIDE DEF d
  <2> QED  BY <2>2, <2>3, RebuildLive
<1>3. CASE DoCompact
  BY <1>0, <1>3, CollectType, AdoptBaseLive DEF DoCompact, Compact
<1>4. CASE DoCompactDelta
  BY <1>0, <1>4, CompactDeltaLive DEF DoCompactDelta
<1>5. CASE UNCHANGED store
  BY <1>0, <1>5
<1> QED  BY <1>1, <1>2, <1>3, <1>4, <1>5 DEF Next

LEMMA EntitledPass ==
    ASSUME NEW c, NEW p, Entitled(c, p)
    PROVE  HardGates(c, p)
<1>1. c.until = NoEnd \/ p.as_of <= c.until
  BY DEF Entitled
<1>2. c.until = NoEnd \/ c.until >= p.as_of
  BY <1>1
<1> QED  BY <1>2 DEF Entitled, Cleared, HardGates, Authorized, Meet

\* A live capsule that passes the gates and that no tier hides is found by the
\* gate scan of the tier that holds its live version.
LEMMA AnswerableIsGated ==
    ASSUME NEW id \in Ids, NEW p, Answerable(id, p), NEW i \in DOMAIN LiveSegments(store),
           LiveSegments(store)[i].caps[id] = Live(store)[id]
    PROVE  id \in Gated(LiveSegments(store)[i].caps, p)
<1> DEFINE tier == LiveSegments(store)[i].caps
<1>1. /\ tier[id] # NoCapsule /\ Entitled(tier[id], p) /\ ~Superseded(tier, id, p)
  BY DEF Answerable
<1> HIDE DEF tier
<1>2. HardGates(tier[id], p)
  BY <1>1, EntitledPass
<1>3. id \in Held(tier)
  BY <1>1 DEF Held
<1> QED  BY <1>1, <1>2, <1>3 DEF Gated, HardGates, Authorized, tier

LEMMA IndexedAlways == Spec => []IndexedInv
<1>1. Init => IndexedInv
  <2> SUFFICES ASSUME Init  PROVE IndexedInv
    OBVIOUS
  <2>1. Indexed(store)
    BY DEF Init, OpenSegments, Indexed, NoSegment
  <2> QED  BY <2>1, InitType DEF IndexedInv
<1> QED  BY <1>1, NextIndexed, PTL DEF Spec

\* With nothing deleted, a live capsule that nothing hides keeps the answer from
\* being empty: no narrowing, ranking, budget or merge can lose the last one.
THEOREM NeverSilentlyEmpty == Spec => []FindsSomething
<1>1. IndexedInv => FindsSomething
  <2> SUFFICES ASSUME IndexedInv, NEW p \in Probes, store.tombstones = {}, p.max > 0,
                      NEW id \in Ids, Answerable(id, p),
                      NEW frame \in Frames(store, "l5m", p)
               PROVE  frame.answers # {}
    BY DEF FindsSomething, AnswerSets
  <2>0. store \in Store /\ Indexed(store) /\ p.max \in Nat
    BY ProbesAssumption DEF IndexedInv, TypeOK, Probe
  <2> DEFINE segs == LiveSegments(store)
             frames == [i \in DOMAIN segs |-> Retrieve(segs[i].caps, p)]
             f == RetrieveL5m(store, p)
  <2>1. PICK i \in DOMAIN segs : segs[i].caps[id] = Live(store)[id]
    BY <2>0, LiveIsServed DEF Answerable
  <2>2. id \in Gated(segs[i].caps, p)
    BY <2>1, AnswerableIsGated
  <2>3. segs[i].caps \in Tier
    <3>1. segs \in Seq(Segment)
      BY <2>0, LiveSegmentsType
    <3> HIDE DEF segs
    <3>2. segs[i] \in Segment
      BY <2>1, <3>1
    <3> QED  BY <3>2 DEF Segment
  <2>4. frames[i].answers # {}
    <3>1. frames[i].answers = Answers(segs[i].caps, p)
      BY <2>1 DEF Retrieve
    <3> HIDE DEF segs, frames
    <3> QED  BY <2>0, <2>2, <2>3, <3>1, AnswersNonempty
  <2>5. TierFrames(frames)
    BY <2>0, TierFramesOf
  <2>6. f.answers = First(Merged(frames), p.max, FrameKey)
    BY MergedAnswers DEF RetrieveL5m
  <2>7. frame = Finish(store, f, p.max)
    BY DEF Frames
  <2>8. Keyed(f.answers, 5)
    BY <2>0, RetrieveL5mKeyed
  <2>9. i \in DOMAIN frames
    BY <2>1
  <2> HIDE DEF frames, f, segs
  <2>10. Merged(frames) # {} /\ Keyed(Merged(frames), 5)
    BY <2>4, <2>5, <2>9, MergedNonempty, MergedKeyed
  <2>11. f.answers # {}
    BY <2>0, <2>6, <2>10, FirstOfFrame
  <2> QED  BY <2>0, <2>7, <2>8, <2>11, FinishNonempty
<1> QED  BY <1>1, IndexedAlways, PTL

-----------------------------------------------------------------------------
(* A store in one tier.                                                      *)

\* An answer of the default mode is what one of the tiers holds for its id, and
\* has passed that tier's gate scan.
LEMMA AnswersFromTiers ==
    ASSUME NEW s, NEW p, NEW frame \in Frames(s, "l5m", p), NEW a \in frame.answers
    PROVE  /\ a.id \notin s.tombstones
           /\ \E i \in DOMAIN LiveSegments(s) :
                  /\ a.cap = LiveSegments(s)[i].caps[a.id]
                  /\ a.id \in Gated(LiveSegments(s)[i].caps, p)
                  /\ \E b \in Answers(LiveSegments(s)[i].caps, p) :
                         b.id = a.id /\ b.cap = a.cap
<1> DEFINE segs == LiveSegments(s)
           frames == [i \in DOMAIN segs |-> Retrieve(segs[i].caps, p)]
<1>1. frame = Finish(s, RetrieveL5m(s, p), p.max)
  BY DEF Frames
<1>2. a \in RetrieveL5m(s, p).answers /\ a.id \notin s.tombstones
  BY <1>1 DEF Finish, First
<1>3. RetrieveL5m(s, p).answers = First(Merged(frames), p.max, FrameKey)
  BY MergedAnswers DEF RetrieveL5m
<1>4. a \in Merged(frames)
  <2> HIDE DEF frames
  <2> QED  BY <1>2, <1>3 DEF First
<1>5. PICK i \in DOMAIN frames : \E b \in frames[i].answers : a.id = b.id /\ a.cap = b.cap
  <2> HIDE DEF frames
  <2> QED  BY <1>4 DEF Merged, FrameCapsule
<1>6. PICK b \in Answers(segs[i].caps, p) : a.id = b.id /\ a.cap = b.cap
  BY <1>5 DEF Retrieve
<1> DEFINE tier == segs[i].caps
           scored == {[id |-> id, cap |-> tier[id], score |-> tier[id].score] :
                          id \in Candidates(tier, p)}
<1> HIDE DEF segs
<1>7. b \in scored
  BY DEF Answers, WithinBudget, First
<1>8. b.id \in Candidates(tier, p) /\ b.cap = tier[b.id]
  BY <1>7
<1>9. b.id \in Gated(tier, p)
  BY <1>8, CandidatesAreGated
<1>10. i \in DOMAIN segs
  BY <1>5
<1> QED  BY <1>2, <1>6, <1>8, <1>9, <1>10 DEF segs

LEMMA JoinedMember ==
    ASSUME NEW S, NEW k \in Seq(S), NEW m \in Seq(S), NEW i \in DOMAIN Joined(k, m)
    PROVE  \/ \E h \in DOMAIN k : Joined(k, m)[i] = k[h]
           \/ \E h \in DOMAIN m : Joined(k, m)[i] = m[h]
<1> DEFINE l == k \o m
<1>1. /\ Len(k) \in Nat /\ Len(m) \in Nat
      /\ DOMAIN k = 1 .. Len(k) /\ DOMAIN m = 1 .. Len(m)
  OBVIOUS
<1>2. i \in 1 .. Len(k) + Len(m)
  BY <1>1 DEF Joined
<1>3. CASE i <= Len(k)
  <2>1. i \in DOMAIN k /\ l[i] = k[i]
    BY <1>1, <1>2, <1>3
  <2> HIDE DEF l
  <2>2. \E h \in DOMAIN k : l[i] = k[h]
    BY <2>1
  <2> QED  BY <2>2 DEF l, Joined
<1>4. CASE ~(i <= Len(k))
  <2>1. i - Len(k) \in DOMAIN m /\ l[i] = m[i - Len(k)]
    BY <1>1, <1>2, <1>4
  <2> HIDE DEF l
  <2>2. \E h \in DOMAIN m : l[i] = m[h]
    BY <2>1
  <2> QED  BY <2>2 DEF l, Joined
<1> QED  BY <1>3, <1>4

\* When there is one tier, it holds the live set, up to what is deleted.
LEMMA OneTierIsLive ==
    ASSUME NEW s \in Store, Indexed(s), Len(LiveSegments(s)) <= 1,
           NEW i \in DOMAIN LiveSegments(s), NEW id \in Ids, id \notin s.tombstones
    PROVE  LiveSegments(s)[i].caps[id] = Live(s)[id]
<1> DEFINE base == s.segments
           runs == s.sealed_deltas
           lower == Joined(base, runs)
           top == IF s.delta_segment = NoSegment THEN <<>> ELSE <<s.delta_segment>>
           segs == LiveSegments(s)
<1>1. base \in Seq(Segment) /\ runs \in Seq(Segment) /\ s.delta_segment \in Segment
  BY DEF Store
<1>2. lower \in Seq(Segment) /\ top \in Seq(Segment)
  BY <1>1 DEF Joined
<1>3. segs = Joined(lower, top)
  BY DEF LiveSegments, Joined
<1>4. CASE Live(s)[id] # NoCapsule
  <2>1. PICK j \in DOMAIN segs : segs[j].caps[id] = Live(s)[id]
    BY <1>4, LiveIsServed
  <2>2. segs \in Seq(Segment) /\ Len(segs) <= 1
    BY LiveSegmentsType
  <2> HIDE DEF segs
  <2>3. DOMAIN segs = 1 .. Len(segs) /\ Len(segs) \in Nat
    BY <2>2
  <2>4. i = j
    <3>1. i \in DOMAIN segs
      BY DEF segs
    <3> QED  BY <2>1, <2>2, <2>3, <3>1
  <2> QED  BY <2>1, <2>4 DEF segs
<1>5. CASE Live(s)[id] = NoCapsule
  <2>1. s.delta_segment.caps[id] = NoCapsule
    BY <1>5 DEF Live, Indexed
  <2>2. ~Holds(runs, id)
    BY <1>1, <1>5, LastHeldIndex DEF Live, Indexed
  <2>3. ~Holds(base, id)
    BY <1>1, <1>5, <2>2, LastHeldIndex DEF Live, Indexed
  <2>4. \A h \in DOMAIN base : base[h].caps[id] = NoCapsule
    BY <2>3 DEF Holds
  <2>5. \A h \in DOMAIN runs : runs[h].caps[id] = NoCapsule
    BY <2>2 DEF Holds
  <2>6. \A h \in DOMAIN top : top[h].caps[id] = NoCapsule
    BY <2>1
  <2>7. \A h \in DOMAIN lower : lower[h].caps[id] = NoCapsule
    <3> HIDE DEF base, runs
    <3> QED  BY <1>1, <2>4, <2>5, JoinedMember
  <2>8. i \in DOMAIN Joined(lower, top)
    BY <1>3
  <2> HIDE DEF lower, top
  <2>9. Joined(lower, top)[i].caps[id] = NoCapsule
    BY <1>2, <2>6, <2>7, <2>8, JoinedMember
  <2> QED  BY <1>3, <1>5, <2>9
<1> QED  BY <1>4, <1>5

\* As long as a store is in one tier - all in the buffer, or just compacted -
\* no answer is a version that has been replaced, and none is superseded by a
\* visible current capsule.
THEOREM OneTierIsCurrent ==
    Spec => [](Len(LiveSegments(store)) <= 1 => Freshest("l5m") /\ Excluded("l5m"))
<1>1. IndexedInv => (Len(LiveSegments(store)) <= 1 => Freshest("l5m") /\ Excluded("l5m"))
  <2> SUFFICES ASSUME IndexedInv, Len(LiveSegments(store)) <= 1, NEW p \in Probes,
                      NEW frame \in Frames(store, "l5m", p), NEW a \in frame.answers
               PROVE  /\ a.cap = Live(store)[a.id]
                      /\ ~\E id \in Ids :
                             /\ Live(store)[id] # NoCapsule
                             /\ Entitled(Live(store)[id], p)
                             /\ [kind |-> "Supersedes", to |-> a.id] \in Live(store)[id].edges
    BY DEF Freshest, Excluded, AnswerSets
  <2>0. store \in Store /\ Indexed(store)
    BY DEF IndexedInv, TypeOK
  <2>1. a.id \notin store.tombstones
    BY AnswersFromTiers
  <2>2. PICK i \in DOMAIN LiveSegments(store) :
            /\ a.cap = LiveSegments(store)[i].caps[a.id]
            /\ a.id \in Gated(LiveSegments(store)[i].caps, p)
    BY AnswersFromTiers
  <2> DEFINE tier == LiveSegments(store)[i].caps
  <2>3. a.id \in Ids /\ ~Superseded(tier, a.id, p)
    BY <2>2 DEF Gated, Held
  <2>4. a.cap = Live(store)[a.id]
    BY <2>0, <2>1, <2>2, <2>3, OneTierIsLive
  <2>5. ASSUME NEW id \in Ids, Live(store)[id] # NoCapsule, Entitled(Live(store)[id], p),
               [kind |-> "Supersedes", to |-> a.id] \in Live(store)[id].edges
        PROVE  FALSE
    <3>1. id \notin store.tombstones
      BY <2>5 DEF Live
    <3>2. tier[id] = Live(store)[id]
      BY <2>0, <2>2, <3>1, OneTierIsLive
    <3> HIDE DEF tier
    <3>3. HardGates(tier[id], p)
      BY <2>5, <3>2, EntitledPass
    <3>4. id \in Held(tier)
      BY <2>5, <3>2 DEF Held
    <3> QED  BY <2>3, <2>5, <3>2, <3>3, <3>4 DEF Superseded
  <2> QED  BY <2>4, <2>5
<1> QED  BY <1>1, IndexedAlways, PTL

-----------------------------------------------------------------------------
(* The token budget.                                                         *)

\* What holds of 0, and of n + 1 where it holds of n, holds of every number.
LEMMA Induction ==
    ASSUME NEW H \in SUBSET Nat, 0 \in H, \A n \in H : n + 1 \in H
    PROVE  H = Nat
<1> SUFFICES ASSUME Nat \ H # {}  PROVE FALSE
  OBVIOUS
<1>1. PICK m \in Nat \ H : \A n \in Nat \ H : m <= n
  BY LeastNat
<1>2. m # 0 /\ m - 1 \in Nat
  BY <1>1
<1>3. m - 1 \in H
  BY <1>1, <1>2
<1> QED  BY <1>1, <1>2, <1>3

-----------------------------------------------------------------------------
(* Sums, as the folds of the community modules take them.  The sum of the  *)
(* subsets of S is a recursive function; that there is one, and what it    *)
(* does to sets that differ in an element, is by induction on their size.  *)

Chosen(s) == CHOOSE x \in s : TRUE

\* One step of the fold.
Step(v, g, s) == IF s = {} THEN 0 ELSE v[Chosen(s)] + g[s \ {Chosen(s)}]

IsFold(v, S, g) == g = [s \in SUBSET S |-> Step(v, g, s)]

Partial(v, S) == CHOOSE g : IsFold(v, S, g)

Total(v, S) == Partial(v, S)[S]

LEMMA ChosenIsIn == ASSUME NEW s, s # {} PROVE Chosen(s) \in s
BY DEF Chosen

\* Taking an element away.
LEMMA OneLess ==
    ASSUME NEW s, IsFiniteSet(s), NEW x \in s
    PROVE  /\ IsFiniteSet(s \ {x})
           /\ Cardinality(s) \in Nat \ {0}
           /\ Cardinality(s \ {x}) = Cardinality(s) - 1
<1>1. Cardinality(s) \in Nat
  BY FS_CardinalityType
<1>2. IsFiniteSet(s \ {x}) /\ Cardinality(s \ {x}) = Cardinality(s) - 1
  BY FS_RemoveElement
<1>3. Cardinality(s) # 0
  BY FS_EmptySet
<1> QED  BY <1>1, <1>2, <1>3

\* The fold's recursion is well founded.
LEMMA PartialIsFold ==
    ASSUME NEW v, NEW S, IsFiniteSet(S)
    PROVE  IsFold(v, S, Partial(v, S))
<1> DEFINE Good(g, n) == \A s \in SUBSET S : Cardinality(s) <= n => g[s] = Step(v, g, s)
           H == {n \in Nat : \E g : g = [s \in SUBSET S |-> g[s]] /\ Good(g, n)}
<1>0. \A s \in SUBSET S : IsFiniteSet(s) /\ Cardinality(s) \in Nat
  BY FS_Subset, FS_CardinalityType
<1>1. 0 \in H
  <2> DEFINE g == [s \in SUBSET S |-> 0]
  <2>1. \A s \in SUBSET S : Cardinality(s) <= 0 => s = {}
    BY <1>0, FS_EmptySet
  <2>2. Good(g, 0)
    BY <2>1 DEF Step
  <2> QED  BY <2>2
<1>2. \A n \in H : n + 1 \in H
  <2> TAKE n \in H
  <2>1. PICK g : g = [s \in SUBSET S |-> g[s]] /\ Good(g, n)
    OBVIOUS
  <2> DEFINE h == [s \in SUBSET S |-> IF Cardinality(s) <= n THEN g[s] ELSE Step(v, g, s)]
  <2>2. Good(h, n + 1)
    <3> SUFFICES ASSUME NEW s \in SUBSET S, Cardinality(s) <= n + 1  PROVE h[s] = Step(v, h, s)
      OBVIOUS
    <3>1. h[s] = Step(v, g, s)
      BY <2>1
    <3>2. CASE s = {}
      BY <3>1, <3>2 DEF Step
    <3>3. CASE s # {}
      <4>1. Chosen(s) \in s
        BY <3>3, ChosenIsIn
      <4>2. Cardinality(s \ {Chosen(s)}) <= n /\ s \ {Chosen(s)} \in SUBSET S
        BY <1>0, <4>1, OneLess
      <4>3. h[s \ {Chosen(s)}] = g[s \ {Chosen(s)}]
        BY <4>2
      <4> HIDE DEF h
      <4> QED  BY <3>1, <4>3 DEF Step
    <3> QED  BY <3>2, <3>3
  <2>3. h = [s \in SUBSET S |-> h[s]]
    OBVIOUS
  <2> HIDE DEF h, Good
  <2>4. \E f : f = [s \in SUBSET S |-> f[s]] /\ Good(f, n + 1)
    BY <2>2, <2>3, Zenon
  <2> QED  BY <2>4
<1>3. Cardinality(S) \in H
  <2>1. H \in SUBSET Nat
    OBVIOUS
  <2> HIDE DEF H
  <2>2. H = Nat
    BY <1>1, <1>2, <2>1, Induction
  <2> QED  BY <1>0, <2>2
<1>4. PICK g : g = [s \in SUBSET S |-> g[s]] /\ Good(g, Cardinality(S))
  BY <1>3
<1>5. \A s \in SUBSET S : Cardinality(s) <= Cardinality(S)
  BY FS_Subset
<1>6. IsFold(v, S, g)
  BY <1>4, <1>5, Zenon DEF IsFold
<1> QED  BY <1>6, Zenon DEF Partial

LEMMA PartialStep ==
    ASSUME NEW v, NEW S, IsFiniteSet(S)
    PROVE  \A s \in SUBSET S : Partial(v, S)[s] = Step(v, Partial(v, S), s)
<1> DEFINE g == Partial(v, S)
<1>1. IsFold(v, S, g)
  BY PartialIsFold
<1> HIDE DEF g
<1>2. \A s \in SUBSET S : g[s] = Step(v, g, s)
  BY <1>1, Zenon DEF IsFold
<1> QED  BY <1>2 DEF g

\* Sums of numbers are numbers.
LEMMA PartialType ==
    ASSUME NEW v, NEW S, IsFiniteSet(S), \A x \in S : v[x] \in Nat
    PROVE  \A s \in SUBSET S : Partial(v, S)[s] \in Nat
<1> DEFINE g == Partial(v, S)
           H == {n \in Nat : \A s \in SUBSET S : Cardinality(s) = n => g[s] \in Nat}
<1>0. \A s \in SUBSET S : IsFiniteSet(s) /\ Cardinality(s) \in Nat
  BY FS_Subset, FS_CardinalityType
<1>1. \A s \in SUBSET S : g[s] = Step(v, g, s)
  BY PartialStep
<1> HIDE DEF g
<1>2. 0 \in H
  <2>1. \A s \in SUBSET S : Cardinality(s) = 0 => s = {}
    BY <1>0, FS_EmptySet
  <2>2. g[{}] = 0
    BY <1>1 DEF Step
  <2> QED  BY <2>1, <2>2
<1>3. \A n \in H : n + 1 \in H
  <2> TAKE n \in H
  <2> SUFFICES ASSUME NEW s \in SUBSET S, Cardinality(s) = n + 1  PROVE g[s] \in Nat
    OBVIOUS
  <2>1. s # {}
    BY FS_EmptySet
  <2>2. Chosen(s) \in s
    BY <2>1, ChosenIsIn
  <2>3. Cardinality(s \ {Chosen(s)}) = n
    BY <1>0, <2>2, OneLess
  <2>4. g[s \ {Chosen(s)}] \in Nat
    BY <2>3
  <2> QED  BY <1>1, <2>1, <2>2, <2>4 DEF Step
<1>4. H = Nat
  <2>1. H \in SUBSET Nat
    OBVIOUS
  <2> HIDE DEF H
  <2> QED  BY <1>2, <1>3, <2>1, Induction
<1> QED  BY <1>0, <1>4 DEF g

\* It does not matter which element is added last.
LEMMA PartialRemove ==
    ASSUME NEW v, NEW S, IsFiniteSet(S), \A x \in S : v[x] \in Nat,
           NEW U \in SUBSET S, NEW e \in U
    PROVE  Partial(v, S)[U] = v[e] + Partial(v, S)[U \ {e}]
<1> DEFINE g == Partial(v, S)
           H == {n \in Nat : \A s \in SUBSET S : Cardinality(s) = n =>
                                \A x \in s : g[s] = v[x] + g[s \ {x}]}
<1>0. \A s \in SUBSET S : IsFiniteSet(s) /\ Cardinality(s) \in Nat
  BY FS_Subset, FS_CardinalityType
<1>1. \A s \in SUBSET S : g[s] = Step(v, g, s)
  BY PartialStep
<1>5. \A s \in SUBSET S : g[s] \in Nat
  BY PartialType
<1> HIDE DEF g
<1>2. 0 \in H
  <2>1. \A s \in SUBSET S : Cardinality(s) = 0 => s = {}
    BY <1>0, FS_EmptySet
  <2> QED  BY <2>1
<1>3. \A n \in H : n + 1 \in H
  <2> TAKE n \in H
  <2> SUFFICES ASSUME NEW s \in SUBSET S, Cardinality(s) = n + 1, NEW x \in s
               PROVE  g[s] = v[x] + g[s \ {x}]
    OBVIOUS
  <2>1. PICK c : c = Chosen(s)
    OBVIOUS
  <2>2. c \in s
    BY <2>1, ChosenIsIn
  <2>3. g[s] = v[c] + g[s \ {c}]
    BY <1>1, <2>1 DEF Step
  <2>4. CASE c = x
    BY <2>3, <2>4
  <2>5. CASE c # x
    <3>1. /\ s \ {c} \in SUBSET S /\ Cardinality(s \ {c}) = n /\ x \in s \ {c}
          /\ s \ {x} \in SUBSET S /\ Cardinality(s \ {x}) = n /\ c \in s \ {x}
      BY <1>0, <2>2, <2>5, OneLess
    <3>2. g[s \ {c}] = v[x] + g[(s \ {c}) \ {x}]
      BY <3>1
    <3>3. g[s \ {x}] = v[c] + g[(s \ {x}) \ {c}]
      BY <3>1
    <3>4. PICK rest \in SUBSET S : rest = (s \ {c}) \ {x} /\ rest = (s \ {x}) \ {c}
      <4>1. (s \ {c}) \ {x} \in SUBSET S /\ (s \ {c}) \ {x} = (s \ {x}) \ {c}
        OBVIOUS
      <4> QED  BY <4>1
    <3>5. g[rest] \in Nat /\ v[c] \in Nat /\ v[x] \in Nat
      BY <1>5, <2>2
    <3>6. g[s \ {c}] = v[x] + g[rest] /\ g[s \ {x}] = v[c] + g[rest]
      BY <3>2, <3>3, <3>4
    <3> QED  BY <2>3, <3>5, <3>6
  <2> QED  BY <2>4, <2>5
<1>4. H = Nat
  <2>1. H \in SUBSET Nat
    OBVIOUS
  <2> HIDE DEF H
  <2> QED  BY <1>2, <1>3, <2>1, Induction
<1> QED  BY <1>0, <1>4 DEF g

\* A sum depends on what is summed.
LEMMA PartialAgree ==
    ASSUME NEW v, NEW S, IsFiniteSet(S), NEW w, NEW T, IsFiniteSet(T),
           NEW U \in SUBSET (S \cap T), \A x \in U : v[x] = w[x]
    PROVE  Partial(v, S)[U] = Partial(w, T)[U]
<1> DEFINE g == Partial(v, S)
           h == Partial(w, T)
           H == {n \in Nat : \A s \in SUBSET U : Cardinality(s) = n => g[s] = h[s]}
<1>0. \A s \in SUBSET U : IsFiniteSet(s) /\ Cardinality(s) \in Nat
  <2>1. \A s \in SUBSET S : IsFiniteSet(s) /\ Cardinality(s) \in Nat
    BY FS_Subset, FS_CardinalityType
  <2> QED  BY <2>1
<1>1. \A s \in SUBSET U : g[s] = Step(v, g, s) /\ h[s] = Step(w, h, s)
  <2>1. \A s \in SUBSET S : g[s] = Step(v, g, s)
    BY PartialStep
  <2>2. \A s \in SUBSET T : h[s] = Step(w, h, s)
    BY PartialStep
  <2> HIDE DEF g, h
  <2> QED  BY <2>1, <2>2
<1> HIDE DEF g, h
<1>2. 0 \in H
  <2>1. \A s \in SUBSET U : Cardinality(s) = 0 => s = {}
    BY <1>0, FS_EmptySet
  <2> QED  BY <1>1, <2>1 DEF Step
<1>3. \A n \in H : n + 1 \in H
  <2> TAKE n \in H
  <2> SUFFICES ASSUME NEW s \in SUBSET U, Cardinality(s) = n + 1  PROVE g[s] = h[s]
    OBVIOUS
  <2>0. n \in Nat /\ IsFiniteSet(s) /\ Cardinality(s) = n + 1
    BY <1>0
  <2>1. s # {}
    BY <2>0, FS_EmptySet
  <2>2. Chosen(s) \in s
    BY <2>1, ChosenIsIn
  <2>3. Cardinality(s \ {Chosen(s)}) = n
    <3>1. Cardinality(s \ {Chosen(s)}) = Cardinality(s) - 1
      BY <2>0, <2>2, OneLess
    <3> QED  BY <2>0, <3>1
  <2>4. g[s \ {Chosen(s)}] = h[s \ {Chosen(s)}]
    <3>1. PICK r \in SUBSET U : r = s \ {Chosen(s)}
      OBVIOUS
    <3>2. Cardinality(r) = n
      BY <2>3, <3>1
    <3>3. g[r] = h[r]
      BY <3>2
    <3> QED  BY <3>1, <3>3
  <2>5. g[s] = v[Chosen(s)] + g[s \ {Chosen(s)}]
    BY <1>1, <2>1 DEF Step
  <2>6. h[s] = w[Chosen(s)] + h[s \ {Chosen(s)}]
    BY <1>1, <2>1 DEF Step
  <2>7. v[Chosen(s)] = w[Chosen(s)]
    BY <2>2
  <2> QED  BY <2>4, <2>5, <2>6, <2>7
<1>4. H = Nat
  <2>1. H \in SUBSET Nat
    OBVIOUS
  <2> HIDE DEF H
  <2> QED  BY <1>2, <1>3, <2>1, Induction
<1> QED  BY <1>0, <1>4 DEF g, h

\* A function that takes the same steps is the same function.
LEMMA PartialUnique ==
    ASSUME NEW v, NEW S, IsFiniteSet(S), NEW h,
           \A s \in SUBSET S : h[s] = Step(v, h, s)
    PROVE  h[S] = Partial(v, S)[S]
<1> DEFINE g == Partial(v, S)
           H == {n \in Nat : \A s \in SUBSET S : Cardinality(s) = n => g[s] = h[s]}
<1>0. \A s \in SUBSET S : IsFiniteSet(s) /\ Cardinality(s) \in Nat
  BY FS_Subset, FS_CardinalityType
<1>1. \A s \in SUBSET S : g[s] = Step(v, g, s)
  BY PartialStep
<1> HIDE DEF g
<1>2. 0 \in H
  <2>1. \A s \in SUBSET S : Cardinality(s) = 0 => s = {}
    BY <1>0, FS_EmptySet
  <2>2. g[{}] = 0 /\ h[{}] = 0
    BY <1>1 DEF Step
  <2> QED  BY <2>1, <2>2
<1>3. \A n \in H : n + 1 \in H
  <2> TAKE n \in H
  <2> SUFFICES ASSUME NEW s \in SUBSET S, Cardinality(s) = n + 1  PROVE g[s] = h[s]
    OBVIOUS
  <2>0. n \in Nat /\ IsFiniteSet(s) /\ Cardinality(s) = n + 1
    BY <1>0
  <2>1. s # {}
    BY <2>0, FS_EmptySet
  <2>2. Chosen(s) \in s
    BY <2>1, ChosenIsIn
  <2>3. Cardinality(s \ {Chosen(s)}) = n
    <3>1. Cardinality(s \ {Chosen(s)}) = Cardinality(s) - 1
      BY <2>0, <2>2, OneLess
    <3> QED  BY <2>0, <3>1
  <2>4. g[s \ {Chosen(s)}] = h[s \ {Chosen(s)}]
    BY <2>3
  <2>5. g[s] = v[Chosen(s)] + g[s \ {Chosen(s)}]
    BY <1>1, <2>1 DEF Step
  <2>6. h[s] = v[Chosen(s)] + h[s \ {Chosen(s)}]
    BY <1>1, <2>1 DEF Step
  <2> QED  BY <2>4, <2>5, <2>6
<1>4. H = Nat
  <2>1. H \in SUBSET Nat
    OBVIOUS
  <2> HIDE DEF H
  <2> QED  BY <1>2, <1>3, <2>1, Induction
<1>5. Cardinality(S) \in Nat /\ S \in SUBSET S
  BY <1>0
<1> QED  BY <1>4, <1>5 DEF g

LEMMA TotalType ==
    ASSUME NEW v, NEW S, IsFiniteSet(S), \A x \in S : v[x] \in Nat
    PROVE  Total(v, S) \in Nat
BY PartialType DEF Total

LEMMA TotalOfNone == ASSUME NEW v  PROVE Total(v, {}) = 0
<1>1. Partial(v, {})[{}] = Step(v, Partial(v, {}), {})
  BY PartialStep, FS_EmptySet
<1> QED  BY <1>1 DEF Total, Step

\* An element and the rest.
LEMMA TotalRemove ==
    ASSUME NEW v, NEW S, IsFiniteSet(S), \A x \in S : v[x] \in Nat, NEW e \in S
    PROVE  Total(v, S) = v[e] + Total(v, S \ {e})
<1>1. Partial(v, S)[S] = v[e] + Partial(v, S)[S \ {e}]
  BY PartialRemove
<1>2. IsFiniteSet(S \ {e}) /\ S \ {e} \in SUBSET (S \cap (S \ {e}))
  BY FS_RemoveElement
<1>3. Partial(v, S)[S \ {e}] = Partial(v, S \ {e})[S \ {e}]
  BY <1>2, PartialAgree
<1> QED  BY <1>1, <1>3 DEF Total

\* The elements outside a sum count for nothing, and so does their order: what
\* can be told apart in B adds up to no more than B.
LEMMA TotalInjected ==
    ASSUME NEW v, NEW A, IsFiniteSet(A), NEW w, NEW B, IsFiniteSet(B),
           NEW h \in [A -> B], \A x, y \in A : h[x] = h[y] => x = y,
           \A x \in A : v[x] = w[h[x]], \A y \in B : w[y] \in Nat
    PROVE  Total(v, A) <= Total(w, B)
<1> DEFINE H == {n \in Nat : \A s \in SUBSET A, t \in SUBSET B :
                                Cardinality(s) = n /\ (\A x \in s : h[x] \in t)
                                => Total(v, s) <= Total(w, t)}
<1>0. /\ \A s \in SUBSET A : IsFiniteSet(s) /\ Cardinality(s) \in Nat
      /\ \A t \in SUBSET B : IsFiniteSet(t)
  BY FS_Subset, FS_CardinalityType
<1>1. \A s \in SUBSET A, t \in SUBSET B : Total(v, s) \in Nat /\ Total(w, t) \in Nat
  <2> SUFFICES ASSUME NEW s \in SUBSET A, NEW t \in SUBSET B
               PROVE  Total(v, s) \in Nat /\ Total(w, t) \in Nat
    OBVIOUS
  <2>1. /\ IsFiniteSet(s) /\ \A x \in s : v[x] \in Nat
        /\ IsFiniteSet(t) /\ \A y \in t : w[y] \in Nat
    BY <1>0
  <2> QED  BY <2>1, TotalType
<1>2. 0 \in H
  <2> SUFFICES ASSUME NEW s \in SUBSET A, NEW t \in SUBSET B, Cardinality(s) = 0
               PROVE  Total(v, s) <= Total(w, t)
    OBVIOUS
  <2>1. s = {}
    BY <1>0, FS_EmptySet
  <2>2. Total(v, s) = 0
    BY <2>1, TotalOfNone
  <2> QED  BY <1>1, <2>2
<1>3. \A n \in H : n + 1 \in H
  <2> TAKE n \in H
  <2> SUFFICES ASSUME NEW s \in SUBSET A, NEW t \in SUBSET B, Cardinality(s) = n + 1,
                      \A x \in s : h[x] \in t
               PROVE  Total(v, s) <= Total(w, t)
    OBVIOUS
  <2>0. n \in Nat /\ IsFiniteSet(s) /\ IsFiniteSet(t)
    BY <1>0
  <2>1. s # {}
    BY <2>0, FS_EmptySet
  <2>2. PICK x \in s : TRUE
    BY <2>1
  <2>3. PICK y \in t : y = h[x]
    OBVIOUS
  <2>4. PICK s1, t1 : s1 = s \ {x} /\ t1 = t \ {y}
    OBVIOUS
  <2>5. Cardinality(s1) = n
    <3>1. Cardinality(s \ {x}) = Cardinality(s) - 1
      BY <2>0, OneLess
    <3> QED  BY <2>0, <2>4, <3>1
  <2>6. /\ s1 \in SUBSET A /\ t1 \in SUBSET B
        /\ \A z \in s1 : h[z] \in t1
    BY <2>3, <2>4
  <2>7. Total(v, s1) <= Total(w, t1)
    BY <2>5, <2>6
  <2>8. (\A z \in s : v[z] \in Nat) /\ (\A z \in t : w[z] \in Nat)
    OBVIOUS
  <2>9. Total(v, s) = v[x] + Total(v, s1)
    BY <2>0, <2>4, <2>8, TotalRemove
  <2>10. Total(w, t) = w[y] + Total(w, t1)
    BY <2>0, <2>4, <2>8, TotalRemove
  <2>11. v[x] = w[y] /\ w[y] \in Nat
    BY <2>3
  <2>12. Total(v, s1) \in Nat /\ Total(w, t1) \in Nat
    BY <1>1, <2>6
  <2> QED  BY <2>7, <2>9, <2>10, <2>11, <2>12
<1>4. H = Nat
  <2>1. H \in SUBSET Nat
    OBVIOUS
  <2> HIDE DEF H
  <2> QED  BY <1>2, <1>3, <2>1, Induction
<1> QED  BY <1>0, <1>4

\* What the property adds up.
LEMMA TokensAreTotal ==
    ASSUME NEW A, IsFiniteSet(A)
    PROVE  MapThenSumSet(LAMBDA a : a.cap.tokens, A) = Total([a \in A |-> a.cap.tokens], A)
<1> DEFINE F(g, s) == IF s = {} THEN 0 ELSE Chosen(s).cap.tokens + g[s \ {Chosen(s)}]
           G == CHOOSE g : g = [s \in SUBSET A |-> F(g, s)]
           v == [a \in A |-> a.cap.tokens]
<1>1. MapThenSumSet(LAMBDA a : a.cap.tokens, A) = G[A]
  BY Zenon DEF MapThenSumSet, MapThenFoldSet, Chosen
<1>2. \A s \in SUBSET A : s # {} => v[Chosen(s)] = Chosen(s).cap.tokens
  BY ChosenIsIn
<1>3. \A g, s : s \in SUBSET A => F(g, s) = Step(v, g, s)
  BY <1>2 DEF Step
<1>4. IsFold(v, A, Partial(v, A))
  BY PartialIsFold
<1> HIDE DEF F, v
<1>5. Partial(v, A) = [s \in SUBSET A |-> F(Partial(v, A), s)]
  BY <1>3, <1>4 DEF IsFold
<1>6. G = [s \in SUBSET A |-> F(G, s)]
  BY <1>5, Zenon
<1> HIDE DEF G
<1>7. \A s \in SUBSET A : G[s] = Step(v, G, s)
  BY <1>3, <1>6
<1>8. G[A] = Partial(v, A)[A]
  BY <1>7, PartialUnique
<1> QED  BY <1>1, <1>8 DEF Total, v

-----------------------------------------------------------------------------
(* The budget loop of retrieve_with_timings.  The hits come in the order of  *)
(* their ranks; `left` is what the loop variable token_budget holds when the *)
(* hit of a rank is looked at.                                               *)

RankIn(top, a) == Cardinality({b \in top : Lex(SegmentKey(b), SegmentKey(a))})
Nth(top, i) == CHOOSE a \in top : RankIn(top, a) = i

Spend(top, f, p, i) ==
    IF i = 0 THEN p.budget
    ELSE IF i = 1 \/ Nth(top, i - 1).cap.tokens <= f[i - 1]
    THEN Max({0, f[i - 1] - Nth(top, i - 1).cap.tokens})
    ELSE f[i - 1]

IsLeft(top, p, f) == f = [i \in 0 .. Cardinality(top) |-> Spend(top, f, p, i)]
Left(top, p) == CHOOSE f : IsLeft(top, p, f)

LEMMA BudgetLoop ==
    ASSUME NEW top, NEW p
    PROVE  WithinBudget(top, p) =
               {a \in top : RankIn(top, a) = 0 \/ a.cap.tokens <= Left(top, p)[RankIn(top, a)]}
BY Zenon DEF WithinBudget, Left, IsLeft, Spend, RankIn, Nth

\* The recursion over the ranks is well founded.
LEMMA LeftIsLeft ==
    ASSUME NEW top, IsFiniteSet(top), NEW p
    PROVE  \A i \in 0 .. Cardinality(top) : Left(top, p)[i] = Spend(top, Left(top, p), p, i)
<1> DEFINE N == Cardinality(top)
           Good(f, n) == \A i \in 0 .. N : i <= n => f[i] = Spend(top, f, p, i)
           H == {n \in Nat : \E f : f = [i \in 0 .. N |-> f[i]] /\ Good(f, n)}
<1>0. N \in Nat
  BY FS_CardinalityType
<1> HIDE DEF N
<1>1. 0 \in H
  <2> DEFINE f == [i \in 0 .. N |-> p.budget]
  <2>1. Good(f, 0)
    BY <1>0 DEF Spend
  <2> QED  BY <2>1
<1>2. \A n \in H : n + 1 \in H
  <2> TAKE n \in H
  <2>1. PICK f : f = [i \in 0 .. N |-> f[i]] /\ Good(f, n)
    OBVIOUS
  <2> DEFINE g == [i \in 0 .. N |-> IF i <= n THEN f[i] ELSE Spend(top, f, p, i)]
  <2>2. Good(g, n + 1)
    <3> SUFFICES ASSUME NEW i \in 0 .. N, i <= n + 1  PROVE g[i] = Spend(top, g, p, i)
      OBVIOUS
    <3>1. g[i] = Spend(top, f, p, i)
      BY <2>1
    <3>2. i # 0 => i - 1 \in 0 .. N /\ i - 1 <= n
      BY <1>0
    <3>3. i # 0 => g[i - 1] = f[i - 1]
      BY <3>2
    <3> HIDE DEF g
    <3> QED  BY <3>1, <3>3 DEF Spend
  <2>3. g = [i \in 0 .. N |-> g[i]]
    OBVIOUS
  <2> HIDE DEF g, Good
  <2>4. \E h : h = [i \in 0 .. N |-> h[i]] /\ Good(h, n + 1)
    BY <2>2, <2>3, Zenon
  <2>5. n + 1 \in Nat
    OBVIOUS
  <2> QED  BY <2>4, <2>5, Zenon
<1>3. N \in H
  <2>1. H \in SUBSET Nat
    OBVIOUS
  <2> HIDE DEF H
  <2>2. H = Nat
    BY <1>1, <1>2, <2>1, Induction
  <2> QED  BY <1>0, <2>2
<1>4. PICK f : f = [i \in 0 .. N |-> f[i]] /\ Good(f, N)
  BY <1>3
<1>5. \A i \in 0 .. N : f[i] = Spend(top, f, p, i)
  BY <1>0, <1>4
<1>6. IsLeft(top, p, f)
  BY <1>4, <1>5, Zenon DEF IsLeft, N
<1>7. IsLeft(top, p, Left(top, p))
  BY <1>6, Zenon DEF Left
<1> DEFINE m == Left(top, p)
<1> HIDE DEF m
<1>8. \A i \in 0 .. Cardinality(top) : m[i] = Spend(top, m, p, i)
  BY <1>7, Zenon DEF IsLeft, m
<1> QED  BY <1>8 DEF m

\* Every rank is taken, by one hit.
LEMMA RanksAreFilled ==
    ASSUME NEW top, Hits(top), NEW i \in 0 .. Cardinality(top) - 1
    PROVE  /\ Nth(top, i) \in top /\ RankIn(top, Nth(top, i)) = i
           /\ \A a \in top : RankIn(top, a) = i => a = Nth(top, i)
<1> DEFINE K == [a \in top |-> SegmentKey(a)]
           N == Cardinality(top)
           h == [a \in top |-> RankIn(top, a)]
<1>1. /\ IsFiniteSet(top) /\ K \in [top -> Row(4)]
      /\ \A x, y \in top : K[x] = K[y] => x = y
      /\ \A x \in top : {y \in top : Lex(SegmentKey(y), SegmentKey(x))} = Before(top, K, x)
  BY HitsRanked
<1>2. \A x \in top : RankIn(top, x) = Place(top, K, x)
  BY <1>1 DEF RankIn, Place
<1> HIDE DEF K
<1>3. N \in Nat
  BY <1>1, FS_CardinalityType
<1>4. \A x \in top : RankIn(top, x) \in Nat /\ RankIn(top, x) < N
  BY <1>1, <1>2, PlaceType
<1>5. \A x, y \in top : RankIn(top, x) = RankIn(top, y) => x = y
  <2> SUFFICES ASSUME NEW x \in top, NEW y \in top, x # y,
                      RankIn(top, x) = RankIn(top, y)
               PROVE  FALSE
    OBVIOUS
  <2>1. K[x] # K[y] /\ K[x] \in Row(4) /\ K[y] \in Row(4)
    BY <1>1
  <2>2. Lex(K[x], K[y]) \/ Lex(K[y], K[x])
    BY <2>1, LexTotal
  <2>3. Lex(K[x], K[y]) => Place(top, K, x) < Place(top, K, y)
    BY <1>1, PlaceOrders
  <2>4. Lex(K[y], K[x]) => Place(top, K, y) < Place(top, K, x)
    BY <1>1, PlaceOrders
  <2> QED  BY <1>2, <1>4, <2>2, <2>3, <2>4
<1> HIDE DEF N
<1>6. /\ IsFiniteSet(0 .. N - 1) /\ Cardinality(0 .. N - 1) = N
  BY <1>3, FS_Interval
<1>7. h \in Injection(top, 0 .. N - 1)
  BY <1>3, <1>4, <1>5 DEF Injection, IsInjective
<1> HIDE DEF h
<1>8. h \in Surjection(top, 0 .. N - 1)
  BY <1>6, <1>7, FS_Injection DEF N
<1>9. \E a \in top : h[a] = i
  BY <1>8 DEF Surjection, N
<1>10. \E a \in top : RankIn(top, a) = i
  BY <1>9 DEF h
<1> QED  BY <1>5, <1>10 DEF Nth

LEMMA RankType ==
    ASSUME NEW top, Hits(top), NEW a \in top
    PROVE  RankIn(top, a) \in Nat /\ RankIn(top, a) < Cardinality(top)
<1> DEFINE K == [b \in top |-> SegmentKey(b)]
<1>1. /\ IsFiniteSet(top) /\ K \in [top -> Row(4)]
      /\ \A x \in top : {y \in top : Lex(SegmentKey(y), SegmentKey(x))} = Before(top, K, x)
  BY HitsRanked
<1> HIDE DEF K
<1>2. Place(top, K, a) \in Nat /\ Place(top, K, a) < Cardinality(top)
  BY <1>1, PlaceType
<1> QED  BY <1>1, <1>2 DEF RankIn, Place

LEMMA LargerOfZero ==
    ASSUME NEW x \in Int
    PROVE  Max({0, x}) = IF x > 0 THEN x ELSE 0
<1> DEFINE m == IF x > 0 THEN x ELSE 0
<1>1. m \in {0, x} /\ \A y \in {0, x} : m >= y
  OBVIOUS
<1>2. \A z \in {0, x} : (\A y \in {0, x} : z >= y) => z = m
  OBVIOUS
<1> QED  BY <1>1, <1>2 DEF Max

\* Where the loop starts, and one round of it.
LEMMA LeftStarts ==
    ASSUME NEW top, IsFiniteSet(top), NEW p
    PROVE  Left(top, p)[0] = p.budget
<1>1. 0 \in 0 .. Cardinality(top)
  BY FS_CardinalityType
<1>2. Left(top, p)[0] = Spend(top, Left(top, p), p, 0)
  BY <1>1, LeftIsLeft
<1> QED  BY <1>2 DEF Spend

LEMMA LeftStep ==
    ASSUME NEW top, Hits(top), NEW p, NEW i \in 0 .. Cardinality(top) - 1,
           Left(top, p)[i] \in Nat,
           NEW cost, cost = Nth(top, i).cap.tokens
    PROVE  /\ cost \in Nat /\ Left(top, p)[i + 1] \in Nat
           /\ Left(top, p)[i + 1] =
                  IF i = 0 \/ cost <= Left(top, p)[i]
                  THEN IF cost <= Left(top, p)[i] THEN Left(top, p)[i] - cost ELSE 0
                  ELSE Left(top, p)[i]
<1> DEFINE f == Left(top, p)
<1>1. IsFiniteSet(top) /\ Cardinality(top) \in Nat
  BY HitsRanked, FS_CardinalityType
<1>2. cost \in Nat
  <2>1. Nth(top, i) \in Hit
    BY RanksAreFilled DEF Hits
  <2> QED  BY <2>1 DEF Hit, Content
<1>3. i + 1 \in 0 .. Cardinality(top) /\ i + 1 # 0 /\ (i + 1) - 1 = i
  BY <1>1
<1>4. f[i + 1] = Spend(top, f, p, i + 1)
  BY <1>1, <1>3, LeftIsLeft
<1>5. f[i] \in Nat /\ f[i] - cost \in Int
  BY <1>2
<1> HIDE DEF f
<1>6. f[i + 1] = IF i + 1 = 1 \/ cost <= f[i] THEN Max({0, f[i] - cost}) ELSE f[i]
  BY <1>3, <1>4 DEF Spend
<1>7. Max({0, f[i] - cost}) = IF f[i] - cost > 0 THEN f[i] - cost ELSE 0
  BY <1>5, LargerOfZero
<1> QED  BY <1>2, <1>5, <1>6, <1>7 DEF f

LEMMA LeftType ==
    ASSUME NEW top, Hits(top), NEW p, p.budget \in Nat
    PROVE  \A i \in 0 .. Cardinality(top) : Left(top, p)[i] \in Nat
<1> DEFINE N == Cardinality(top)
           H == {n \in Nat : n <= N => Left(top, p)[n] \in Nat}
<1>1. IsFiniteSet(top) /\ N \in Nat
  BY HitsRanked, FS_CardinalityType
<1>2. 0 \in H
  BY <1>1, LeftStarts
<1>3. \A n \in H : n + 1 \in H
  <2> SUFFICES ASSUME NEW n \in H, n + 1 <= N  PROVE Left(top, p)[n + 1] \in Nat
    OBVIOUS
  <2>1. n \in 0 .. Cardinality(top) - 1 /\ Left(top, p)[n] \in Nat
    BY <1>1
  <2>2. PICK cost : cost = Nth(top, n).cap.tokens
    OBVIOUS
  <2> QED  BY <2>1, <2>2, LeftStep
<1>4. H = Nat
  <2>1. H \in SUBSET Nat
    OBVIOUS
  <2> HIDE DEF H
  <2> QED  BY <1>2, <1>3, <2>1, Induction
<1> QED  BY <1>1, <1>4

\* When M hits of the size of any of them fit, the loop refuses none.
LEMMA RoomForAll ==
    ASSUME NEW top, Hits(top), NEW p, p.budget \in Nat, NEW M \in Nat,
           Cardinality(top) <= M, \A a \in top : a.cap.tokens * M <= p.budget
    PROVE  WithinBudget(top, p) = top
<1> DEFINE N == Cardinality(top)
           f == Left(top, p)
           b == p.budget
           H == {n \in Nat : n <= N => M * f[n] + n * b >= M * b}
<1>1. IsFiniteSet(top) /\ N \in Nat /\ b \in Nat
  BY HitsRanked, FS_CardinalityType
<1>2. \A i \in 0 .. N : f[i] \in Nat
  BY LeftType
<1>3. 0 \in H
  <2>1. f[0] = b
    BY <1>1, LeftStarts
  <2>2. M * b + 0 * b >= M * b
    BY <1>1
  <2> QED  BY <2>1, <2>2
<1>4. \A n \in H : n + 1 \in H
  <2> SUFFICES ASSUME NEW n \in H, n + 1 <= N
               PROVE  M * f[n + 1] + (n + 1) * b >= M * b
    OBVIOUS
  <2>1. n \in 0 .. Cardinality(top) - 1 /\ f[n] \in Nat /\ f[n + 1] \in Nat /\ n \in Nat
    BY <1>1, <1>2
  <2>2. PICK cost : cost = Nth(top, n).cap.tokens
    OBVIOUS
  <2>3. cost \in Nat /\ f[n + 1] >= f[n] - cost
    <3>1. cost \in Nat
      BY <2>1, <2>2, LeftStep
    <3>2. f[n + 1] = IF n = 0 \/ cost <= f[n]
                     THEN IF cost <= f[n] THEN f[n] - cost ELSE 0 ELSE f[n]
      BY <2>1, <2>2, LeftStep
    <3> HIDE DEF f
    <3> QED  BY <2>1, <3>1, <3>2
  <2>4. cost * M <= b
    BY <2>1, <2>2, RanksAreFilled
  <2>5. M * f[n] + n * b >= M * b
    BY <1>1, <2>1
  <2> HIDE DEF f, b
  <2>6. M * f[n + 1] >= M * f[n] - cost * M
    <3>1. PICK x \in Int : x = f[n + 1] - (f[n] - cost)
      BY <2>1, <2>3
    <3>2. x >= 0 /\ f[n + 1] = f[n] - cost + x
      BY <2>1, <2>3, <3>1
    <3>3. M * x >= 0
      BY <3>1, <3>2
    <3>4. M * f[n + 1] = M * f[n] - M * cost + M * x
      BY <2>1, <2>3, <3>1, <3>2
    <3> QED  BY <2>1, <2>3, <3>1, <3>3, <3>4
  <2>7. (n + 1) * b = n * b + b
    BY <1>1, <2>1
  <2> QED  BY <1>1, <2>1, <2>3, <2>4, <2>5, <2>6, <2>7
<1>5. H = Nat
  <2>1. H \in SUBSET Nat
    OBVIOUS
  <2> HIDE DEF H
  <2> QED  BY <1>3, <1>4, <2>1, Induction
<1>6. ASSUME NEW a \in top  PROVE a.cap.tokens <= f[RankIn(top, a)]
  <2>1. PICK r, cost : r = RankIn(top, a) /\ cost = a.cap.tokens
    OBVIOUS
  <2>2. r \in Nat /\ r < N
    BY <2>1, RankType
  <2>3. cost \in Nat /\ cost * M <= b
    <3>1. a \in Hit
      BY DEF Hits
    <3> QED  BY <2>1, <3>1 DEF Hit, Content
  <2>4. M * f[r] + r * b >= M * b /\ f[r] \in Nat
    BY <1>1, <1>2, <1>5, <2>2
  <2>5. cost <= f[r]
    <3> HIDE DEF f, b, N
    <3> SUFFICES ASSUME cost >= f[r] + 1  PROVE FALSE
      BY <2>3, <2>4
    <3>1. PICK x \in Nat : cost = f[r] + 1 + x
      <4>1. cost - f[r] - 1 \in Nat
        BY <2>3, <2>4
      <4> QED  BY <2>3, <2>4, <4>1
    <3>2. cost * M = f[r] * M + M + x * M /\ x * M >= 0
      BY <2>3, <2>4, <3>1
    <3>3. PICK y \in Nat : M = r + 1 + y
      <4>1. N <= M
        BY DEF N
      <4>2. M - r - 1 \in Nat
        BY <1>1, <2>2, <4>1
      <4> QED  BY <2>2, <4>2
    <3>4. M * b = r * b + b + y * b /\ y * b >= 0
      BY <1>1, <2>2, <3>3
    <3>5. M * f[r] = f[r] * M /\ f[r] * M \in Nat /\ r * b \in Nat /\ M >= 1
      BY <1>1, <2>2, <2>4, <3>3
    <3> QED  BY <1>1, <2>3, <2>4, <3>2, <3>4, <3>5
  <2> QED  BY <2>1, <2>5
<1> QED  BY <1>6, BudgetLoop

\* What the loop admits: no more than one hit, or no more than the budget.
LEMMA SpentWithin ==
    ASSUME NEW top, Hits(top), NEW p, p.budget \in Nat, NEW v,
           \A a \in top : v[a] = a.cap.tokens
    PROVE  \/ Cardinality(WithinBudget(top, p)) <= 1
           \/ Total(v, WithinBudget(top, p)) <= p.budget
<1> DEFINE N == Cardinality(top)
           f == Left(top, p)
           b == p.budget
           sel == {a \in top : RankIn(top, a) = 0 \/ a.cap.tokens <= f[RankIn(top, a)]}
           S(n) == {a \in sel : RankIn(top, a) < n}
           Spent(n) == \/ Total(v, S(n)) + f[n] = b
                       \/ S(n) \subseteq {Nth(top, 0)} /\ f[n] = 0
           H == {n \in Nat : n <= N => Spent(n)}
<1>1. IsFiniteSet(top) /\ N \in Nat /\ b \in Nat
  BY HitsRanked, FS_CardinalityType
<1>2. \A i \in 0 .. N : f[i] \in Nat
  BY LeftType
<1>3. \A a \in top : RankIn(top, a) \in Nat /\ RankIn(top, a) < N
  BY RankType
<1>4. \A a \in top : a.cap.tokens \in Nat \ {0}
  BY DEF Hits, Hit, Content
<1>5. WithinBudget(top, p) = sel
  BY BudgetLoop
<1>6. \A n \in Nat : S(n) \in SUBSET top
  OBVIOUS
<1>7. 0 \in H
  <2>1. f[0] = b
    BY <1>1, LeftStarts
  <2>2. S(0) = {}
    BY <1>3
  <2>3. Total(v, S(0)) = 0
    BY <2>2, TotalOfNone
  <2> QED  BY <1>1, <2>1, <2>3
<1>8. \A n \in H : n + 1 \in H
  <2> SUFFICES ASSUME NEW n \in Nat, n + 1 <= N, Spent(n)
               PROVE  Spent(n + 1)
    <3> HIDE DEF Spent
    <3>1. \A n \in H : n + 1 <= N => n <= N
      BY <1>1
    <3> QED  BY <3>1
  <2>1. n \in 0 .. Cardinality(top) - 1 /\ f[n] \in Nat /\ f[n + 1] \in Nat /\ n \in Nat
    BY <1>1, <1>2
  <2>2. PICK x, cost : x = Nth(top, n) /\ cost = x.cap.tokens
    OBVIOUS
  <2>3. /\ x \in top /\ RankIn(top, x) = n
        /\ \A a \in top : RankIn(top, a) = n => a = x
    BY <2>1, <2>2, RanksAreFilled
  <2>4. cost \in Nat \ {0} /\ v[x] = cost
    BY <1>4, <2>2, <2>3
  <2>5. f[n + 1] = IF n = 0 \/ cost <= f[n]
                   THEN IF cost <= f[n] THEN f[n] - cost ELSE 0 ELSE f[n]
    BY <2>1, <2>2, LeftStep
  <2>6. \/ Total(v, S(n)) + f[n] = b
        \/ S(n) \subseteq {Nth(top, 0)} /\ f[n] = 0
    OBVIOUS
  <2>7. \A a \in sel : RankIn(top, a) < n + 1 <=> (RankIn(top, a) < n \/ a = x)
    BY <1>3, <2>1, <2>3
  <2>8. x \in sel <=> (n = 0 \/ cost <= f[n])
    BY <2>2, <2>3
  <2>9. x \notin S(n)
    BY <2>3
  <2>10. CASE n = 0 \/ cost <= f[n]
    <3>1. S(n + 1) = S(n) \cup {x} /\ S(n) = S(n + 1) \ {x} /\ x \in S(n + 1)
      BY <2>7, <2>8, <2>9, <2>10
    <3>2. IsFiniteSet(S(n + 1)) /\ \A a \in S(n + 1) : v[a] \in Nat
      <4>1. S(n + 1) \in SUBSET top
        OBVIOUS
      <4> HIDE DEF S
      <4> QED  BY <1>1, <1>4, <4>1, FS_Subset
    <3>3. PICK s, t : s = S(n) /\ t = S(n + 1)
      OBVIOUS
    <3>4. Total(v, t) = v[x] + Total(v, s)
      <4>1. Total(v, t) = v[x] + Total(v, t \ {x})
        BY <3>1, <3>2, <3>3, TotalRemove
      <4> QED  BY <3>1, <3>3, <4>1
    <3>5. Total(v, s) \in Nat
      <4>1. IsFiniteSet(s) /\ \A a \in s : v[a] \in Nat
        <5>1. s \in SUBSET t
          BY <3>1, <3>3
        <5> QED  BY <3>2, <3>3, <5>1, FS_Subset
      <4> QED  BY <4>1, TotalType
    <3>6. CASE cost <= f[n]
      <4>1. f[n + 1] = f[n] - cost
        BY <2>5, <3>6
      <4>2. ~(f[n] = 0)
        BY <2>1, <2>4, <3>6
      <4> HIDE DEF S, f, b
      <4>3. Total(v, s) + f[n] = b
        BY <2>6, <3>3, <4>2
      <4>4. Total(v, t) + f[n + 1] = b
        BY <2>1, <2>4, <3>4, <3>5, <4>1, <4>3
      <4> QED  BY <3>3, <4>4
    <3>7. CASE ~(cost <= f[n])
      <4>1. n = 0 /\ f[n + 1] = 0
        BY <2>5, <2>10, <3>7
      <4>2. S(n) = {}
        BY <1>3, <4>1
      <4>3. S(n + 1) \subseteq {Nth(top, 0)}
        BY <2>2, <3>1, <4>1, <4>2
      <4> QED  BY <4>1, <4>3
    <3> QED  BY <3>6, <3>7
  <2>11. CASE ~(n = 0 \/ cost <= f[n])
    <3>1. S(n + 1) = S(n)
      BY <2>7, <2>8, <2>11
    <3>2. f[n + 1] = f[n]
      BY <2>5, <2>11
    <3> QED  BY <2>6, <3>1, <3>2
  <2> QED  BY <2>10, <2>11
<1>9. H = Nat
  <2>1. H \in SUBSET Nat
    OBVIOUS
  <2> HIDE DEF H
  <2> QED  BY <1>7, <1>8, <2>1, Induction
<1>10. S(N) = sel
  BY <1>3
<1>11. Total(v, sel) + f[N] = b \/ sel \subseteq {Nth(top, 0)}
  BY <1>1, <1>9, <1>10
<1>12. CASE sel \subseteq {Nth(top, 0)}
  <2>1. IsFiniteSet({Nth(top, 0)}) /\ Cardinality({Nth(top, 0)}) = 1
    BY FS_Singleton
  <2> HIDE DEF sel
  <2>2. Cardinality(sel) <= 1
    BY <1>12, <2>1, FS_Subset
  <2> QED  BY <1>5, <2>2
<1>13. CASE Total(v, sel) + f[N] = b
  <2>1. IsFiniteSet(sel) /\ \A a \in sel : v[a] \in Nat
    <3>1. sel \in SUBSET top
      OBVIOUS
    <3> HIDE DEF sel
    <3> QED  BY <1>1, <1>4, <3>1, FS_Subset
  <2> HIDE DEF sel
  <2>2. Total(v, sel) \in Nat
    BY <2>1, TotalType
  <2>3. f[N] \in Nat
    BY <1>1, <1>2
  <2> QED  BY <1>1, <1>5, <1>13, <2>2, <2>3
<1> QED  BY <1>11, <1>12, <1>13

-----------------------------------------------------------------------------
(* One tier and the budget.                                                  *)

Costs == [a \in Hit |-> a.cap.tokens]

\* What one tier answers fits the budget, unless it is one capsule.
LEMMA TierFits ==
    ASSUME NEW tier \in Tier, NEW p \in Probe
    PROVE  \/ Cardinality(Answers(tier, p)) <= 1
           \/ Total(Costs, Answers(tier, p)) <= p.budget
<1> DEFINE scored == {[id |-> x, cap |-> tier[x], score |-> tier[x].score] :
                          x \in Candidates(tier, p)}
           top == First(scored, p.max, SegmentKey)
<1>1. Candidates(tier, p) \subseteq Held(tier)
  BY CandidatesAreGated DEF Gated
<1>2. \A x \in Held(tier) : x \in Ids /\ tier[x] \in Content
  BY ContentsAssumption DEF Held, Tier
<1>3. \A x \in Held(tier) : tier[x].score \in Int
  BY <1>2 DEF Content
<1>4. scored \subseteq Hit
  BY <1>1, <1>2, <1>3 DEF Hit
<1>5. \A a, b \in scored : a.id = b.id => a = b
  OBVIOUS
<1>6. Answers(tier, p) = WithinBudget(top, p)
  BY DEF Answers
<1> HIDE DEF scored
<1>7. top \subseteq scored
  BY DEF First
<1>8. Hits(top) /\ \A a \in top : Costs[a] = a.cap.tokens
  BY <1>4, <1>5, <1>7 DEF Hits, Costs
<1>9. p.budget \in Nat
  BY DEF Probe
<1> HIDE DEF top
<1> QED  BY <1>6, <1>8, <1>9, SpentWithin

LEMMA OneTierFits ==
    ASSUME NEW s \in Store, Len(LiveSegments(s)) <= 1, NEW p \in Probe,
           NEW frame \in Frames(s, "l5m", p)
    PROVE  \/ Cardinality(frame.answers) <= 1
           \/ MapThenSumSet(LAMBDA a : a.cap.tokens, frame.answers) <= p.budget
<1> DEFINE A == frame.answers
           segs == LiveSegments(s)
<1>1. p.max \in Nat /\ p.budget \in Nat
  BY DEF Probe
<1>2. IsFiniteSet(A) /\ \A x, y \in A : x.id = y.id => x = y
  <2>1. frame = Finish(s, RetrieveL5m(s, p), p.max)
    BY DEF Frames
  <2>2. Keyed(RetrieveL5m(s, p).answers, 5)
    BY RetrieveL5mKeyed
  <2>3. OnePerId(A, p.max)
    BY <1>1, <2>1, <2>2, FinishOnePerId
  <2>4. A \in SUBSET RetrieveL5m(s, p).answers
    BY <2>1 DEF Finish, First
  <2>5. IsFiniteSet(A)
    BY <2>2, <2>4, FS_Subset DEF Keyed
  <2> QED  BY <2>3, <2>5 DEF OnePerId
<1>3. CASE A = {}
  BY <1>3, FS_EmptySet
<1>4. CASE A # {}
  <2>1. PICK x0 \in A : TRUE
    BY <1>4
  <2>2. PICK i \in DOMAIN segs : TRUE
    BY <2>1, AnswersFromTiers
  <2>3. DOMAIN segs = 1 .. Len(segs) /\ Len(segs) \in Nat /\ segs[i].caps \in Tier
    <3>1. segs \in Seq(Segment)
      BY LiveSegmentsType
    <3> HIDE DEF segs
    <3>2. segs[i] \in Segment
      BY <2>2, <3>1
    <3> QED  BY <3>1, <3>2 DEF Segment
  <2>4. \A j \in DOMAIN segs : j = i
    BY <2>2, <2>3
  <2> DEFINE B == Answers(segs[i].caps, p)
             h == [a \in A |-> CHOOSE b \in B : b.id = a.id /\ b.cap = a.cap]
  <2>5. \A a \in A : \E b \in B : b.id = a.id /\ b.cap = a.cap
    BY <2>4, AnswersFromTiers
  <2>6. Hits(B)
    BY <2>3, AnswersAreHits
  <2>7. \/ Cardinality(B) <= 1
        \/ Total(Costs, B) <= p.budget
    BY <2>3, TierFits
  <2> HIDE DEF A, B, segs
  <2>8. \A a \in A : h[a] \in B /\ h[a].id = a.id /\ h[a].cap = a.cap
    BY <2>5
  <2>9. h \in [A -> B]
    BY <2>8
  <2> HIDE DEF h
  <2>10. \A x, y \in A : h[x] = h[y] => x = y
    BY <1>2, <2>8
  <2>11. IsFiniteSet(B) /\ Cardinality(B) \in Nat
    <3>1. IsFiniteSet(B)
      BY <2>6, DistinctIdsFinite DEF Hits, Hit
    <3> QED  BY <3>1, FS_CardinalityType
  <2>12. CASE Cardinality(B) <= 1
    <3>1. h \in Injection(A, B)
      BY <2>9, <2>10 DEF Injection, IsInjective
    <3>2. Cardinality(A) <= Cardinality(B)
      BY <2>11, <3>1, FS_Injection
    <3>3. Cardinality(A) \in Nat
      BY <1>2, FS_CardinalityType
    <3> QED  BY <2>11, <2>12, <3>2, <3>3 DEF A
  <2>13. CASE Total(Costs, B) <= p.budget
    <3> DEFINE v == [a \in A |-> a.cap.tokens]
    <3>1. \A y \in B : Costs[y] = y.cap.tokens /\ Costs[y] \in Nat
      BY <2>6 DEF Hits, Hit, Content, Costs
    <3>2. \A x \in A : v[x] = Costs[h[x]]
      BY <2>8, <3>1
    <3>3. \A x \in A : v[x] \in Nat
      BY <2>8, <3>1, <3>2
    <3>4. MapThenSumSet(LAMBDA a : a.cap.tokens, A) = Total(v, A)
      BY <1>2, TokensAreTotal
    <3> HIDE DEF v
    <3>5. Total(v, A) <= Total(Costs, B)
      BY <1>2, <2>9, <2>10, <2>11, <3>1, <3>2, TotalInjected
    <3>6. Total(v, A) \in Nat /\ Total(Costs, B) \in Nat
      BY <1>2, <2>11, <3>1, <3>3, TotalType
    <3> QED  BY <1>1, <2>13, <3>4, <3>5, <3>6 DEF A
  <2> QED  BY <2>7, <2>12, <2>13
<1> QED  BY <1>3, <1>4

\* As long as a store is in one tier - all in the buffer, or just compacted -
\* no answer is a version that has been replaced, none is superseded by a
\* visible current capsule, and together they fit the token budget, unless the
\* first alone exceeds it.
THEOREM OneTierExact == Spec => []OneTierIsExact
<1>1. IndexedInv => (Len(LiveSegments(store)) <= 1 => FitsBudget("l5m"))
  <2> SUFFICES ASSUME IndexedInv, Len(LiveSegments(store)) <= 1, NEW p \in Probes,
                      NEW frame \in Frames(store, "l5m", p)
               PROVE  \/ Cardinality(frame.answers) <= 1
                      \/ MapThenSumSet(LAMBDA a : a.cap.tokens, frame.answers) <= p.budget
    BY DEF FitsBudget, AnswerSets
  <2>1. store \in Store /\ p \in Probe
    BY ProbesAssumption DEF IndexedInv, TypeOK
  <2> QED  BY <2>1, OneTierFits
<1>2. (/\ Len(LiveSegments(store)) <= 1 => Freshest("l5m") /\ Excluded("l5m")
       /\ Len(LiveSegments(store)) <= 1 => FitsBudget("l5m"))
      => OneTierIsExact
  BY DEF OneTierIsExact
<1> QED  BY <1>1, <1>2, OneTierIsCurrent, IndexedAlways, PTL

-----------------------------------------------------------------------------
(* The newest version of an id, and where it is.                             *)

\* The last of the tiers that hold id holds c.
LatestIs(segs, id, c) ==
    \E i \in DOMAIN segs : /\ segs[i].caps[id] = c
                           /\ \A j \in DOMAIN segs : j > i => segs[j].caps[id] = NoCapsule

LEMMA JoinedPlaces ==
    ASSUME NEW S, NEW k \in Seq(S), NEW m \in Seq(S)
    PROVE  /\ DOMAIN Joined(k, m) = 1 .. Len(k) + Len(m)
           /\ Len(k) \in Nat /\ Len(m) \in Nat
           /\ DOMAIN k = 1 .. Len(k) /\ DOMAIN m = 1 .. Len(m)
           /\ \A i \in 1 .. Len(k) : Joined(k, m)[i] = k[i]
           /\ \A i \in 1 .. Len(k) + Len(m) : i > Len(k) =>
                  i - Len(k) \in 1 .. Len(m) /\ Joined(k, m)[i] = m[i - Len(k)]
BY DEF Joined

LEMMA LatestOfLater ==
    ASSUME NEW k \in Seq(Segment), NEW m \in Seq(Segment), NEW id, NEW c, LatestIs(m, id, c)
    PROVE  LatestIs(Joined(k, m), id, c)
<1> DEFINE l == Joined(k, m)
<1>1. /\ DOMAIN l = 1 .. Len(k) + Len(m)
      /\ Len(k) \in Nat /\ Len(m) \in Nat /\ DOMAIN m = 1 .. Len(m)
      /\ \A i \in 1 .. Len(k) + Len(m) : i > Len(k) =>
             i - Len(k) \in 1 .. Len(m) /\ l[i] = m[i - Len(k)]
  BY JoinedPlaces
<1> HIDE DEF l
<1>2. PICK h \in DOMAIN m : /\ m[h].caps[id] = c
                            /\ \A j \in DOMAIN m : j > h => m[j].caps[id] = NoCapsule
  BY DEF LatestIs
<1>3. PICK i \in Int : i = Len(k) + h
  BY <1>1
<1>4. i \in DOMAIN l /\ i > Len(k) /\ i - Len(k) = h
  BY <1>1, <1>3
<1>5. l[i].caps[id] = c
  BY <1>1, <1>2, <1>4
<1>6. ASSUME NEW j \in DOMAIN l, j > i  PROVE l[j].caps[id] = NoCapsule
  <2>1. j > Len(k) /\ j - Len(k) \in DOMAIN m /\ j - Len(k) > h /\ l[j] = m[j - Len(k)]
    BY <1>1, <1>3, <1>4, <1>6
  <2> QED  BY <1>2, <2>1
<1> QED  BY <1>4, <1>5, <1>6 DEF LatestIs, l

LEMMA LatestOfEarlier ==
    ASSUME NEW k \in Seq(Segment), NEW m \in Seq(Segment), NEW id, NEW c, LatestIs(k, id, c),
           \A h \in DOMAIN m : m[h].caps[id] = NoCapsule
    PROVE  LatestIs(Joined(k, m), id, c)
<1> DEFINE l == Joined(k, m)
<1>1. /\ DOMAIN l = 1 .. Len(k) + Len(m)
      /\ Len(k) \in Nat /\ Len(m) \in Nat
      /\ DOMAIN k = 1 .. Len(k) /\ DOMAIN m = 1 .. Len(m)
      /\ \A i \in 1 .. Len(k) : l[i] = k[i]
      /\ \A i \in 1 .. Len(k) + Len(m) : i > Len(k) =>
             i - Len(k) \in 1 .. Len(m) /\ l[i] = m[i - Len(k)]
  BY JoinedPlaces
<1> HIDE DEF l
<1>2. PICK i \in DOMAIN k : /\ k[i].caps[id] = c
                            /\ \A j \in DOMAIN k : j > i => k[j].caps[id] = NoCapsule
  BY DEF LatestIs
<1>3. i \in DOMAIN l /\ l[i].caps[id] = c
  BY <1>1, <1>2
<1>4. ASSUME NEW j \in DOMAIN l, j > i  PROVE l[j].caps[id] = NoCapsule
  <2>1. CASE j <= Len(k)
    <3>1. j \in DOMAIN k /\ l[j] = k[j]
      BY <1>1, <2>1
    <3> QED  BY <1>2, <1>4, <3>1
  <2>2. CASE ~(j <= Len(k))
    <3>1. j > Len(k) /\ j \in 1 .. Len(k) + Len(m)
      BY <1>1, <2>2
    <3>2. j - Len(k) \in DOMAIN m /\ l[j] = m[j - Len(k)]
      BY <1>1, <3>1
    <3> QED  BY <3>2
  <2> QED  BY <2>1, <2>2
<1> QED  BY <1>3, <1>4 DEF LatestIs, l

\* With the index of the buffer up to date, the last tier that is searched and
\* holds a live capsule holds its live version.
LEMMA LiveIsLatest ==
    ASSUME NEW s \in Store, Indexed(s), NEW id \in Ids, Live(s)[id] # NoCapsule
    PROVE  LatestIs(LiveSegments(s), id, Live(s)[id])
<1> DEFINE base == s.segments
           runs == s.sealed_deltas
           lower == Joined(base, runs)
           top == IF s.delta_segment = NoSegment THEN <<>> ELSE <<s.delta_segment>>
           v == Live(s)[id]
<1>1. base \in Seq(Segment) /\ runs \in Seq(Segment) /\ s.delta_segment \in Segment
  BY DEF Store
<1>2. lower \in Seq(Segment) /\ top \in Seq(Segment)
  BY <1>1 DEF Joined
<1>3. LiveSegments(s) = Joined(lower, top)
  BY DEF LiveSegments, Joined
<1>4. v = IF s.delta[id] # NoCapsule THEN s.delta[id]
          ELSE IF Holds(runs, id) THEN LastHeld(runs, id) ELSE LastHeld(base, id)
  BY DEF Live
<1>5. s.delta_segment.caps[id] = s.delta[id]
  BY DEF Indexed
<1>6. CASE s.delta[id] # NoCapsule
  <2>1. s.delta_segment # NoSegment
    BY <1>5, <1>6 DEF NoSegment, EmptyTier
  <2>2. DOMAIN top = {1} /\ top[1].caps[id] = v
    BY <1>4, <1>5, <1>6, <2>1
  <2> HIDE DEF top, lower, v
  <2>3. LatestIs(top, id, v)
    BY <2>2 DEF LatestIs
  <2> QED  BY <1>2, <1>3, <2>3, LatestOfLater DEF v
<1>7. CASE s.delta[id] = NoCapsule
  <2>1. \A h \in DOMAIN top : top[h].caps[id] = NoCapsule
    BY <1>5, <1>7
  <2>2. LatestIs(lower, id, v)
    <3>1. CASE Holds(runs, id)
      <4>1. v = LastHeld(runs, id)
        BY <1>4, <1>7, <3>1
      <4> HIDE DEF v, runs, base
      <4>2. LatestIs(runs, id, v)
        BY <1>1, <3>1, <4>1, LastHeldIndex DEF LatestIs
      <4> QED  BY <1>1, <4>2, LatestOfLater
    <3>2. CASE ~Holds(runs, id)
      <4>1. v = LastHeld(base, id) /\ v # NoCapsule
        BY <1>4, <1>7, <3>2
      <4>2. Holds(base, id) /\ \A h \in DOMAIN runs : runs[h].caps[id] = NoCapsule
        BY <3>2, <4>1 DEF Holds, LastHeld
      <4> HIDE DEF v, runs, base
      <4>3. LatestIs(base, id, v)
        BY <1>1, <4>1, <4>2, LastHeldIndex DEF LatestIs
      <4> QED  BY <1>1, <4>2, <4>3, LatestOfEarlier
    <3> QED  BY <3>1, <3>2
  <2> HIDE DEF top, lower, v
  <2> QED  BY <1>2, <1>3, <2>1, <2>2, LatestOfEarlier DEF v
<1> QED  BY <1>6, <1>7

-----------------------------------------------------------------------------
(* When the limits leave room for every id, no stage drops a match.          *)

\* Both ways of generating candidates take a capsule an entity or anchor
\* matches.
LEMMA MatchIsCandidate ==
    ASSUME NEW tier \in Tier, NEW p, NEW id \in Gated(tier, p), tier[id].lookup = TRUE,
           Cardinality(Ids) <= MaxScored
    PROVE  id \in Candidates(tier, p)
<1> DEFINE gated == Gated(tier, p)
<1>1. gated \in SUBSET Held(tier) /\ gated \in SUBSET Ids
  BY DEF Gated, Held
<1>2. ASSUME NEW x \in gated  PROVE tier[x].dist \in Nat /\ x \in Int
  <2>1. x \in Held(tier)
    BY <1>1
  <2>2. tier[x] \in Content /\ x \in Int
    BY <1>1, <2>1, ContentsAssumption, OrderedIdsAssumption DEF Held, Tier
  <2> QED  BY <2>2 DEF Content
<1> HIDE DEF gated
<1>3. ASSUME NEW pool \in SUBSET gated, NEW class \in [pool -> Int], NEW x \in pool
      PROVE  Cardinality({y \in pool : Lex(<<class[y], tier[y].dist, y>>,
                                           <<class[x], tier[x].dist, x>>)}) < MaxScored
  <2> DEFINE K == [y \in pool |-> <<class[y], tier[y].dist, y>>]
  <2>1. K \in [pool -> Row(3)]
    BY <1>2 DEF Row
  <2>2. pool \in SUBSET Ids
    BY <1>1
  <2>3. IsFiniteSet(pool) /\ Cardinality(pool) <= Cardinality(Ids)
    BY <2>2, IdsAssumption, FS_Subset
  <2>4. {y \in pool : Lex(<<class[y], tier[y].dist, y>>, <<class[x], tier[x].dist, x>>)} =
            Before(pool, K, x)
    BY DEF Before
  <2> HIDE DEF K
  <2>5. Place(pool, K, x) < Cardinality(pool) /\ Place(pool, K, x) \in Nat
    BY <2>1, <2>3, PlaceType
  <2>6. Cardinality(pool) \in Nat /\ Cardinality(Ids) \in Nat
    BY <2>3, IdsAssumption, FS_CardinalityType
  <2>7. Place(pool, K, x) < MaxScored
    BY <2>3, <2>5, <2>6, LimitsAssumption
  <2> QED  BY <2>4, <2>7 DEF Place
<1>4. id \in ExactCandidates(tier, gated)
  <2> DEFINE narrowed == {x \in gated : tier[x].lookup \/ tier[x].near}
             pool == IF narrowed = {} THEN gated ELSE narrowed
             class == [x \in pool |-> IF tier[x].lookup THEN 0 ELSE 1]
  <2>1. pool \in SUBSET gated /\ class \in [pool -> Int]
    OBVIOUS
  <2>2. id \in pool
    BY DEF gated
  <2>3. \A y \in pool : class[y] = IF tier[y].lookup THEN 0 ELSE 1
    OBVIOUS
  <2>4. ExactCandidates(tier, gated) =
            {x \in pool : Cardinality({y \in pool :
                 Lex(<<IF tier[y].lookup THEN 0 ELSE 1, tier[y].dist, y>>,
                     <<IF tier[x].lookup THEN 0 ELSE 1, tier[x].dist, x>>)}) < MaxScored}
    BY DEF ExactCandidates, First
  <2> HIDE DEF pool, class
  <2>5. {y \in pool : Lex(<<IF tier[y].lookup THEN 0 ELSE 1, tier[y].dist, y>>,
                          <<IF tier[id].lookup THEN 0 ELSE 1, tier[id].dist, id>>)} =
        {y \in pool : Lex(<<class[y], tier[y].dist, y>>, <<class[id], tier[id].dist, id>>)}
    BY <2>2, <2>3
  <2>6. Cardinality({y \in pool : Lex(<<class[y], tier[y].dist, y>>,
                                      <<class[id], tier[id].dist, id>>)}) < MaxScored
    BY <1>3, <2>1, <2>2
  <2> QED  BY <2>2, <2>4, <2>5, <2>6
<1>5. id \in AnnCandidates(tier, gated, p)
  <2> DEFINE DenseHit(x) == p.dense /\ tier[x].dense_band
             pool == {x \in gated : DenseHit(x) \/ tier[x].lookup \/ tier[x].band}
             Class(x) == IF DenseHit(x) THEN 0 ELSE IF tier[x].lookup THEN 1 ELSE 2
             class == [x \in pool |-> Class(x)]
  <2>1. pool \in SUBSET gated /\ class \in [pool -> Int]
    OBVIOUS
  <2>2. id \in pool
    BY DEF gated
  <2>3. \A y \in pool : class[y] = Class(y)
    OBVIOUS
  <2>4. AnnCandidates(tier, gated, p) =
            {x \in pool : Cardinality({y \in pool : Lex(<<Class(y), tier[y].dist, y>>,
                                                        <<Class(x), tier[x].dist, x>>)})
                          < MaxScored}
    BY DEF AnnCandidates, First
  <2> HIDE DEF pool, class, Class
  <2>5. {y \in pool : Lex(<<Class(y), tier[y].dist, y>>, <<Class(id), tier[id].dist, id>>)} =
        {y \in pool : Lex(<<class[y], tier[y].dist, y>>, <<class[id], tier[id].dist, id>>)}
    BY <2>2, <2>3
  <2>6. Cardinality({y \in pool : Lex(<<class[y], tier[y].dist, y>>,
                                      <<class[id], tier[id].dist, id>>)}) < MaxScored
    BY <1>3, <2>1, <2>2
  <2> QED  BY <2>2, <2>4, <2>5, <2>6
<1> QED  BY <1>4, <1>5 DEF Candidates, gated

\* One tier answers with every match.
LEMMA MatchIsAnswered ==
    ASSUME NEW tier \in Tier, NEW p \in Probe, NEW id \in Gated(tier, p),
           tier[id].lookup = TRUE,
           Cardinality(Ids) <= MaxScored, Cardinality(Ids) <= p.max,
           \A c \in Capsules : c.tokens * Cardinality(Ids) <= p.budget
    PROVE  [id |-> id, cap |-> tier[id], score |-> tier[id].score] \in Answers(tier, p)
<1> DEFINE scored == {[id |-> x, cap |-> tier[x], score |-> tier[x].score] :
                          x \in Candidates(tier, p)}
           top == First(scored, p.max, SegmentKey)
<1>0. p.max \in Nat /\ p.budget \in Nat /\ Cardinality(Ids) \in Nat
  BY IdsAssumption, FS_CardinalityType DEF Probe
<1>1. Candidates(tier, p) \subseteq Held(tier)
  BY CandidatesAreGated DEF Gated
<1>2. \A x \in Held(tier) : x \in Ids /\ tier[x] \in Capsules /\ tier[x] \in Content
  BY ContentsAssumption DEF Held, Tier
<1>3. Hits(scored) /\ \A a \in scored : a.cap \in Capsules
  <2>1. \A x \in Held(tier) : tier[x].score \in Int
    BY <1>2 DEF Content
  <2>2. scored \subseteq Hit
    BY <1>1, <1>2, <2>1 DEF Hit
  <2> QED  BY <1>1, <1>2, <2>2 DEF Hits
<1>4. [id |-> id, cap |-> tier[id], score |-> tier[id].score] \in scored
  BY MatchIsCandidate
<1>5. Answers(tier, p) = WithinBudget(top, p)
  BY DEF Answers
<1> HIDE DEF scored
<1>6. IsFiniteSet(scored) /\ Cardinality(scored) <= Cardinality(Ids)
  BY <1>3, DistinctIdsFinite DEF Hits, Hit
<1>7. Cardinality(scored) \in Nat
  BY <1>6, FS_CardinalityType
<1>8. top = scored
  <2>1. \A a \in scored : RankIn(scored, a) \in Nat /\ RankIn(scored, a) < Cardinality(scored)
    BY <1>3, RankType
  <2>2. \A a \in scored : RankIn(scored, a) < p.max
    BY <1>0, <1>6, <1>7, <2>1
  <2> QED  BY <2>2 DEF First, RankIn
<1>9. WithinBudget(scored, p) = scored
  <2>1. \A a \in scored : a.cap.tokens * Cardinality(Ids) <= p.budget
    BY <1>3
  <2> QED  BY <1>0, <1>3, <1>6, <2>1, RoomForAll
<1> QED  BY <1>4, <1>5, <1>8, <1>9

\* An answer is what the tier holds for its id.
LEMMA AnswersAreHeld ==
    ASSUME NEW tier, NEW p, NEW a \in Answers(tier, p)
    PROVE  a.id \in Held(tier) /\ a.cap = tier[a.id]
<1> DEFINE scored == {[id |-> id, cap |-> tier[id], score |-> tier[id].score] :
                          id \in Candidates(tier, p)}
<1>1. a \in scored
  BY DEF Answers, WithinBudget, First
<1>2. a.id \in Candidates(tier, p) /\ a.cap = tier[a.id]
  BY <1>1
<1>3. a.id \in Gated(tier, p)
  BY <1>2, CandidatesAreGated
<1> QED  BY <1>2, <1>3 DEF Gated

\* What a merge keeps of the last frame that answers with an id, the closing
\* deduplication keeps too, when there is room for every id.
LEMMA MergeServes ==
    ASSUME NEW s, NEW frames, TierFrames(frames), NEW max \in Nat,
           Cardinality(Ids) <= max,
           NEW i \in DOMAIN frames, NEW a \in frames[i].answers,
           LatestFrame(frames, i, a), a.id \notin s.tombstones,
           NEW frame, frame.answers = First(Merged(frames), max, FrameKey)
    PROVE  \E b \in Finish(s, frame, max).answers : b.id = a.id /\ b.cap = a.cap
<1> DEFINE M == Merged(frames)
           b == FrameCapsule(a.id, a.cap, a.score, FirstSeen(frames, a))
<1>1. b \in M
  BY DEF Merged
<1>2. b.id = a.id /\ b.cap = a.cap
  BY DEF FrameCapsule
<1>3. Keyed(M, 5) /\ \A x, y \in M : x.id = y.id => x = y
  BY MergedKeyed
<1>4. \A x \in M : x.id \in Ids
  BY <1>3 DEF Keyed, FrameCapsules
<1> HIDE DEF M, b
<1>5. \A S \in SUBSET M : IsFiniteSet(S) /\ Cardinality(S) <= max /\ Keyed(S, 5)
  <2> SUFFICES ASSUME NEW S \in SUBSET M
               PROVE  IsFiniteSet(S) /\ Cardinality(S) <= max /\ Keyed(S, 5)
    OBVIOUS
  <2>1. IsFiniteSet(S) /\ Cardinality(S) <= Cardinality(Ids)
    BY <1>3, <1>4, DistinctIdsFinite
  <2>2. Cardinality(S) \in Nat /\ Cardinality(Ids) \in Nat
    BY <2>1, IdsAssumption, FS_CardinalityType
  <2>3. Keyed(S, 5)
    BY <1>3, KeyedSubset
  <2> QED  BY <2>1, <2>2, <2>3
<1>6. \A S \in SUBSET M : First(S, max, FrameKey) = S
  BY <1>5, FirstOfFrame
<1>7. frame.answers = M
  BY <1>6 DEF M
<1> DEFINE alive == {x \in frame.answers : x.id \notin s.tombstones}
           best == {x \in alive : ~\E y \in alive :
                                      y.id = x.id /\ Lex(FrameKey(y), FrameKey(x))}
<1>8. ~Lex(FrameKey(b), FrameKey(b))
  <2>1. FrameKey(b) \in Row(3 + 5)
    BY <1>1, <1>3, FrameKeyType DEF Keyed
  <2> QED  BY <2>1, LexIrreflexive
<1>9. b \in best
  BY <1>1, <1>2, <1>3, <1>7, <1>8
<1>10. best \in SUBSET M
  BY <1>7
<1>11. Finish(s, frame, max).answers = First(best, max, FrameKey)
  BY DEF Finish
<1> HIDE DEF best
<1>12. Finish(s, frame, max).answers = best
  BY <1>6, <1>10, <1>11
<1> QED  BY <1>2, <1>9, <1>12

\* A rewritten capsule is found under its newest version whatever tier the older
\* ones are left in, whenever it matches, passes the gates and there is room.
THEOREM UpdatesAreSeen == Spec => []UpdatesResolveToFreshest
<1>1. IndexedInv => UpdatesResolveToFreshest
  <2> SUFFICES ASSUME IndexedInv, NEW p \in Probes, NEW id \in Ids,
                      Answerable(id, p), Live(store)[id].lookup,
                      p.max >= Cardinality(Ids), MaxScored >= Cardinality(Ids),
                      \A c \in Capsules : c.tokens * Cardinality(Ids) <= p.budget,
                      NEW frame \in Frames(store, "l5m", p)
               PROVE  \E a \in frame.answers : a.id = id /\ a.cap = Live(store)[id]
    BY DEF UpdatesResolveToFreshest, AnswerSets
  <2> DEFINE segs == LiveSegments(store)
             frames == [i \in DOMAIN segs |-> Retrieve(segs[i].caps, p)]
             c == Live(store)[id]
             f == RetrieveL5m(store, p)
  <2>0. /\ store \in Store /\ Indexed(store) /\ p \in Probe /\ p.max \in Nat
        /\ Cardinality(Ids) \in Nat /\ MaxScored \in Nat
        /\ Cardinality(Ids) <= p.max /\ Cardinality(Ids) <= MaxScored
    BY ProbesAssumption, IdsAssumption, LimitsAssumption, FS_CardinalityType
       DEF IndexedInv, TypeOK, Probe
  <2>1. c # NoCapsule
    BY DEF Answerable
  <2>2. id \notin store.tombstones
    BY <2>1 DEF Live
  <2>3. PICK i \in DOMAIN segs :
            /\ segs[i].caps[id] = c
            /\ \A j \in DOMAIN segs : j > i => segs[j].caps[id] = NoCapsule
    BY <2>0, <2>1, LiveIsLatest DEF LatestIs
  <2>4. id \in Gated(segs[i].caps, p)
    BY <2>3, AnswerableIsGated
  <2>5. TierFrames(frames)
    BY <2>0, TierFramesOf
  <2>6. f.answers = First(Merged(frames), p.max, FrameKey)
    BY MergedAnswers DEF RetrieveL5m
  <2>7. frame = Finish(store, f, p.max)
    BY DEF Frames
  <2>8. segs \in Seq(Segment)
    BY <2>0, LiveSegmentsType
  <2>9. \A j \in DOMAIN segs : j \in DOMAIN frames /\ frames[j].answers = Answers(segs[j].caps, p)
    BY DEF Retrieve
  <2>10. DOMAIN frames = DOMAIN segs
    OBVIOUS
  <2> HIDE DEF frames, f, segs
  <2>11. DOMAIN segs = 1 .. Len(segs) /\ Len(segs) \in Nat /\ segs[i].caps \in Tier
    <3>1. segs[i] \in Segment
      BY <2>3, <2>8
    <3> QED  BY <2>8, <3>1 DEF Segment
  <2>12. c.lookup = TRUE
    <3>1. c \in Content
      <4>1. c \in Capsules
        BY <2>1, <2>3, <2>11 DEF Tier
      <4> QED  BY <4>1, ContentsAssumption
    <3> QED  BY <3>1 DEF Content
  <2> HIDE DEF c
  <2>13. PICK a \in frames[i].answers : a.id = id /\ a.cap = c
    <3>1. [id |-> id, cap |-> segs[i].caps[id], score |-> segs[i].caps[id].score]
              \in Answers(segs[i].caps, p)
      BY <2>0, <2>3, <2>4, <2>11, <2>12, MatchIsAnswered
    <3> QED  BY <2>3, <2>9, <3>1
  <2>14. LatestFrame(frames, i, a)
    <3> SUFFICES ASSUME NEW j \in i + 1 .. Len(frames), NEW b \in frames[j].answers,
                        b.id = id
                 PROVE  FALSE
      BY <2>13 DEF LatestFrame
    <3>1. j \in DOMAIN segs /\ j > i
      BY <2>3, <2>5, <2>10, <2>11 DEF TierFrames
    <3>2. b \in Answers(segs[j].caps, p)
      BY <2>9, <3>1
    <3>3. b.id \in Held(segs[j].caps)
      BY <3>2, AnswersAreHeld
    <3> QED  BY <2>3, <3>1, <3>3 DEF Held
  <2>15. i \in DOMAIN frames
    BY <2>3, <2>10
  <2> QED  BY <2>0, <2>2, <2>5, <2>6, <2>7, <2>13, <2>14, <2>15, MergeServes DEF c
<1> QED  BY <1>1, IndexedAlways, PTL

=============================================================================
