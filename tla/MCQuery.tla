------------------------------ MODULE MCQuery -------------------------------
(* Instances of Query for TLC.  Times run from 0. *)
EXTENDS Query

Plain == [tenant |-> 1, ctx |-> {1}, policy |-> {1}, trust |-> 5,
          from |-> 0, until |-> NoEnd, verified |-> 0, source |-> 1, tokens |-> 2,
          score |-> 10, lookup |-> TRUE, near |-> TRUE, dist |-> 1,
          band |-> TRUE, dense_band |-> FALSE, edges |-> {}]

\* Versions of memory 1: as first stored, with its window closed ("Close the
\* old fact", docs/time-travel.md), and rewritten so that it matches less.
Office == Plain
OfficeClosed == [Plain EXCEPT !.until = 1]
OfficeReworded == [Plain EXCEPT !.score = 4, !.verified = 2]

\* Memory 2: the fact that supersedes memory 1; another tenant's; a weak rumour
\* that contradicts memory 1, beyond the fingerprint bands.
NewOffice == [Plain EXCEPT !.from = 1, !.score = 6, !.tokens = 3,
                           !.edges = {[kind |-> "Supersedes", to |-> 1]}]
Foreign == [Plain EXCEPT !.tenant = 2]
Rumour == [Plain EXCEPT !.trust = 1, !.lookup = FALSE, !.near = FALSE,
                        !.dist = 9, !.band = FALSE, !.dense_band = TRUE,
                        !.source = 2,
                        !.edges = {[kind |-> "Contradicts", to |-> 1]}]

\* Memory 3: restricted and not yet valid, both supporting and contradicting
\* what memory 2 says; or the rumour again.
Future == [Plain EXCEPT !.from = 3, !.policy = {2}, !.score = 8, !.source = 2,
                        !.edges = {[kind |-> "Supports", to |-> 2],
                                   [kind |-> "Contradicts", to |-> 2]}]

AllContents == {Office, OfficeClosed, OfficeReworded, NewOffice, Foreign, Rumour, Future}

AllWrites == {<<1, Office>>, <<1, OfficeClosed>>, <<1, OfficeReworded>>,
              <<2, NewOffice>>, <<2, Foreign>>, <<2, Rumour>>,
              <<3, Future>>, <<3, Rumour>>}

Ask == [tenant |-> 1, as_of |-> 2, ctx |-> {1}, policy |-> {1}, floor |-> 0,
        max |-> 3, budget |-> 100, hops |-> 1, dense |-> FALSE,
        supporting |-> FALSE, contradictions |-> FALSE]

AllProbes ==
    {Ask,
     [Ask EXCEPT !.max = 1, !.as_of = 0],
     [Ask EXCEPT !.policy = {1, 2}, !.floor = 3, !.as_of = 4, !.dense = TRUE,
                 !.contradictions = TRUE, !.supporting = TRUE],
     [Ask EXCEPT !.budget = 3, !.contradictions = TRUE]}

AllModes == {"l5m", "parent_aggregate", "hybrid", "rrf_parent"}

=============================================================================
