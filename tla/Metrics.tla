------------------------------- MODULE Metrics --------------------------------
(***************************************************************************)
(* The counters behind /metrics and /v1/usage                              *)
(* (crates/l5m-core/src/metrics.rs).                                       *)
(***************************************************************************)
EXTENDS Integers, Sequences, FiniteSetsExt, Functions

CONSTANTS BucketBounds, \* upper bounds of the latency buckets, ascending
          MaxTracked,   \* MAX_TRACKED_TENANTS
          Other         \* OVERFLOW_TENANT

ASSUME BucketBoundsAssumption == BucketBounds \in Seq(Nat) \ {<<>>}
ASSUME MaxTrackedAssumption == MaxTracked \in Nat

NewMetrics ==
    [queries |-> 0, returned |-> 0, inserts |-> 0, deletes |-> 0,
     buckets |-> [b \in DOMAIN BucketBounds |-> 0]]

NoUsage == [queries |-> 0, returned |-> 0, inserts |-> 0, deletes |-> 0]

\* A query slower than every bound falls into the last bucket.
BucketIndex(latency) ==
    LET fits == {b \in DOMAIN BucketBounds : latency <= BucketBounds[b]}
    IN  IF fits = {} THEN Max(DOMAIN BucketBounds) ELSE Min(fits)

\* record_query, in the two groups of atomic additions a reader may come between.
CountQuery(m, returned) ==
    [m EXCEPT !.queries = @ + 1, !.returned = @ + returned]

CountLatency(m, latency) == [m EXCEPT !.buckets[BucketIndex(latency)] = @ + 1]

RecordInsert(m) == [m EXCEPT !.inserts = @ + 1]
RecordDelete(m) == [m EXCEPT !.deletes = @ + 1]

\* Mutant: once the table is full, newcomers are counted in whichever row is there.
RowOfFullTable(usage, t) ==
    IF t \in DOMAIN usage \/ Cardinality(DOMAIN usage) < MaxTracked THEN t
    ELSE CHOOSE row \in DOMAIN usage : TRUE

\* The row a tenant is counted in; rows beyond MaxTracked are one.
RowOf(usage, t) ==
    IF t \in DOMAIN usage \/ Cardinality(DOMAIN usage) < MaxTracked THEN t ELSE Other

\* with_tenant: add to the row's counters.
WithTenant(usage, t, more) ==
    LET row == RowOf(usage, t)
        before == IF row \in DOMAIN usage THEN usage[row] ELSE NoUsage
    IN  [u \in DOMAIN usage \cup {row} |->
            IF u = row
            THEN [queries |-> before.queries + more.queries,
                  returned |-> before.returned + more.returned,
                  inserts |-> before.inserts + more.inserts,
                  deletes |-> before.deletes + more.deletes]
            ELSE usage[u]]

\* record_query_for and record_insert_for.  record_delete_for has no caller.
RecordQueryFor(usage, t, returned) ==
    WithTenant(usage, t, [NoUsage EXCEPT !.queries = 1, !.returned = returned])

RecordInsertFor(usage, t) == WithTenant(usage, t, [NoUsage EXCEPT !.inserts = 1])

\* What the rendered le="1.0" line shows: the buckets, summed.
Histogram(m) == FoldFunction(LAMBDA a, b : a + b, 0, m.buckets)

Billed(usage, Counter(_)) ==
    FoldFunction(LAMBDA row, sum : Counter(row) + sum, 0, usage)

=============================================================================
