---------------------------- MODULE MCSegmentFile ----------------------------
(* An instance of SegmentFile for TLC: words are 1 .. 9, of which 1 is short; *)
(* fingerprints have 8 bits in 4 bands.                                       *)
EXTENDS SegmentFile

Digest(f) == f[1] + 3 * f[Len(f)] + 5 * Len(f)
Bits(f) == {Digest(f) % 8, (5 * Digest(f) + 1) % 8}
Weight(f, lane) == IF Digest(f) % 2 = lane THEN 1 ELSE -2
Sign(n) == IF ((n * n + n) \div 3) % 2 = 0 THEN 1 ELSE -1
Id(material) == material[1] + 10 * material[2] + 100 * material[3] + 1000 * material[4]

Plain == [id |-> 1, tenant |-> 1, ctx |-> 3, policy |-> 5, copied |-> 9,
          claim |-> <<3, 1, 2>>, evidence |-> <<4, 2>>, uri |-> None,
          from |-> 0, until |-> None, observed |-> 0, verified |-> 1,
          anchors |-> None, entities |-> None, embedding |-> None, edges |-> <<>>]

\* Memory 1 again, with everything given that may be left out.
Full == [Plain EXCEPT !.uri = <<6, 7>>, !.until = 99, !.embedding = <<1, -2>>,
                      !.anchors = <<<<5, 3>>, <<3>>>>, !.entities = <<<<8>>>>]

Edge(from, kind) == [from |-> from, to |-> 1, kind |-> kind, weight |-> -1]

Replacing == [Plain EXCEPT !.id = 2, !.tenant = 2, !.claim = <<2, 2>>, !.from = 1,
                           !.until = 4, !.embedding = <<2, 1>>,
                           !.edges = <<Edge(2, "Supersedes"), Edge(2, "Supports")>>]

\* An edge that starts at another memory.
Misplaced == [Plain EXCEPT !.id = 2, !.edges = <<Edge(1, "Contradicts")>>]

Huge == [Plain EXCEPT !.id = 3, !.claim = <<>>, !.evidence = <<1>>,
                      !.embedding = <<TooBig, -1>>]
Longer == [Plain EXCEPT !.id = 3, !.embedding = <<1, 1, 1>>]
BadId == [Plain EXCEPT !.id = Unreadable]
BadLane == [Plain EXCEPT !.embedding = <<Null>>]

AllInserts == {Plain, Full, Replacing, Misplaced, Huge, Longer, BadId, BadLane}

AllDocuments == {<<>>, <<Replacing, Full>>, <<Replacing, Plain>>, <<Plain, Full>>,
                 <<Misplaced, Plain>>, <<Huge, Full>>, <<Plain, BadId>>}

Turn(turn, role, text) == [turn |-> turn, role |-> role, text |-> text]

Record(memory, turns) ==
    [memory |-> memory, session |-> 1, tenant |-> 1, evidence |-> 5, copied |-> 7,
     ctx |-> 3, policy |-> 5, from |-> 0, until |-> None, observed |-> 2,
     turns |-> turns]

AllExports == {<<Record(2, <<Turn(1, User, <<2, 3>>), Turn(2, Assistant, <<4>>)>>),
                 Record(1, <<Turn(1, User, <<3>>)>>)>>,
               <<Record(1, <<Turn(1, User, <<2>>), Turn(1, Assistant, <<3>>)>>)>>}

=============================================================================
