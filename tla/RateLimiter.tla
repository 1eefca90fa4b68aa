----------------------------- MODULE RateLimiter ------------------------------
(***************************************************************************)
(* The per-tenant token buckets (crates/l5m-server/src/ratelimit.rs).      *)
(* A request reads the clock first and takes the mutex afterwards, so the  *)
(* requests of a tenant may reach its bucket in another order than that of *)
(* their clock readings.                                                   *)
(*                                                                         *)
(* Tokens are counted in ticks of refill: a bucket gains one unit a tick,  *)
(* and Cost units make the one token a request consumes.                   *)
(***************************************************************************)
EXTENDS Integers

CONSTANTS Requests,  \* the requests in flight
          Tenants,
          Cost,      \* ticks until a token is refilled: 1 / rate_per_sec
          Burst,     \* the configured burst
          MaxClock   \* bound: ticks

ASSUME CostAssumption == Cost \in Nat \ {0}
ASSUME BurstAssumption == Burst \in Nat
ASSUME MaxClockAssumption == MaxClock \in Nat

VARIABLES clock,    \* Instant::now()
          reading,  \* the clock as each request read it
          buckets,  \* RateLimiter.buckets
          owed,     \* history: what was granted and the rate has not paid back
          late      \* history: how long its requests had waited for the mutex

limiterVars == <<clock, reading, buckets, owed, late>>

NoBucket == [tokens |-> 0, last |-> -1]

Larger(a, b) == IF a >= b THEN a ELSE b
Smaller(a, b) == IF a <= b THEN a ELSE b

\* RateLimiter::new: a burst holds a token at least.
Full == Larger(Burst, Cost)

LimiterInit ==
    /\ clock = 0
    /\ reading = [r \in Requests |-> 0]
    /\ buckets = [t \in Tenants |-> NoBucket]
    /\ owed = [t \in Tenants |-> 0]
    /\ late = [t \in Tenants |-> 0]

Tick ==
    /\ clock < MaxClock
    /\ clock' = clock + 1
    /\ owed' = [t \in Tenants |-> Larger(0, owed[t] - 1)]
    /\ UNCHANGED <<reading, buckets, late>>

ReadClock(r) ==
    /\ reading' = [reading EXCEPT ![r] = clock]
    /\ UNCHANGED <<clock, buckets, owed, late>>

\* entry(tenant).or_insert: a tenant's first request finds a full bucket.
BucketOf(t, now) ==
    IF buckets[t] = NoBucket THEN [tokens |-> Full, last |-> now] ELSE buckets[t]

\* Mutant: the time since the last request counts in full however often.
RefilledUncapped(t, now) ==
    BucketOf(t, now).tokens + Larger(0, now - BucketOf(t, now).last)

\* duration_since is zero for an earlier instant.
Refilled(t, now) ==
    Smaller(BucketOf(t, now).tokens + Larger(0, now - BucketOf(t, now).last), Full)

\* Whether allow returns true.
Allowed(r, t) == Refilled(t, reading[r]) >= Cost

\* The rest of allow, under the mutex.  The reading becomes the bucket's clock
\* even when that sets it back.
Consume(r, t) ==
    LET now == reading[r]
        price == IF Allowed(r, t) THEN Cost ELSE 0
    IN  /\ buckets' = [buckets EXCEPT ![t] =
                          [tokens |-> Refilled(t, now) - price, last |-> now]]
        /\ owed' = [owed EXCEPT ![t] = @ + price]
        /\ late' = [late EXCEPT ![t] = @ + (clock - now)]
        /\ reading' = [reading EXCEPT ![r] = 0]
        /\ UNCHANGED clock

-----------------------------------------------------------------------------
(* Properties. *)

\* In no stretch of time is a tenant granted more than its burst and what the
\* rate gives for that stretch, but for the time its requests had waited for the
\* mutex: a reading older than the bucket's sets the bucket back, and what lies
\* between is credited again (ratelimit.rs:34-50, allow).  owed is the largest
\* excess, over the stretches that end now, of the grants over the rate.
AdmissionBounded == \A t \in Tenants : owed[t] <= Full + late[t]

\* What the bucket would hold if it were refilled now.
Present(t) ==
    IF buckets[t] = NoBucket THEN Full
    ELSE Smaller(buckets[t].tokens + (clock - buckets[t].last), Full)

\* The bucket and the debt make up the burst; only waiting adds to their sum.
Balanced(t) == Full <= owed[t] + Present(t) /\ owed[t] + Present(t) <= Full + late[t]

LimiterInv ==
    /\ clock \in Nat
    /\ reading \in [Requests -> Nat]
    /\ buckets \in [Tenants -> [tokens : Int, last : Int]]
    /\ owed \in [Tenants -> Nat]
    /\ late \in [Tenants -> Nat]
    /\ \A r \in Requests : reading[r] <= clock
    /\ \A t \in Tenants :
        /\ buckets[t] # NoBucket =>
               buckets[t].tokens \in 0 .. Full /\ buckets[t].last \in 0 .. clock
        /\ Balanced(t)

=============================================================================
