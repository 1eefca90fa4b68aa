-------------------------------- MODULE Server --------------------------------
(***************************************************************************)
(* l5m-server: its requests from their arrival to their reply              *)
(* (crates/l5m-server/src/lib.rs), through authentication with the reload  *)
(* of a rotated key set (principal.rs), scopes, the rate limiter and the   *)
(* store's read-write lock, with the counters kept on the way.             *)
(*                                                                         *)
(* The memories are known here by their owner only: MemoryStore and Query  *)
(* have the store, AuditLog the part of a query after its answer.          *)
(***************************************************************************)
EXTENDS RateLimiter, Principals, Metrics

CONSTANTS Environments, \* what main finds in its environment
          Calls,        \* per kind of provider: what clients send
          Loaded,       \* the memories a server may start with: id -> owner
          Replays,      \* lines of its log: how many inserts, how many deletes
          KeySets,      \* usable key sets: key id -> key
          Unusable,     \* a key file that has no usable key or does not parse
          Absent,       \* no key file; no modification time
          Latencies,    \* what a query may take
          MaxVersions,  \* bound: versions of the key file
          MaxArrivals   \* bound: requests that arrive

Numbers == Tenants \cup {None, BadNumber}

ASSUME TenantsAssumption == {None, BadNumber} \cap Tenants = {}
ASSUME NoneAssumption == None \notin Nat
ASSUME MaxVersionsAssumption == MaxVersions \in Nat \ {0}
ASSUME LoadedAssumption ==
    \A loaded \in Loaded : IsFiniteSet(DOMAIN loaded) /\ Range(loaded) \subseteq Tenants \cup {None}
ASSUME KeySetsAssumption == {Unusable, Absent} \cap KeySets = {} /\ Absent \notin Nat
ASSUME CallsAssumption ==
    \A kind \in {"headers", "jwt", "jwks"} : \A c \in Calls[kind] :
        /\ c # None /\ c.tenant \in Numbers
        /\ c.token # None => c.token.claims.tenant \in Numbers
ASSUME EnvironmentsAssumption ==
    \A env \in Environments :
        env.api_keys # None =>
            /\ DOMAIN env.api_keys \subseteq Nat
            /\ \A i \in DOMAIN env.api_keys : env.api_keys[i].tenant \in Numbers
ASSUME ReplaysAssumption == Replays \subseteq [inserts : Nat, deletes : Nat]

VARIABLES server,    \* AppState: provider, limited, checkpoints, audited,
                     \* durable; history: what the start replayed
          jwks_file, \* [version, keys]; every rewrite has its own mtime
          cache,     \* JwksCache: [loaded_at, keys]
          owners,    \* store: the owner of each memory, None when there is none
          metrics, usage, \* Metrics
          pc, call, who,  \* per request: where it is, what it asks, as whom
          stamp,     \* per request: the modification time it saw
          fresh,     \* per request: the keys it read from the file
          shown,     \* per request: its count of capsules, or the scraped total
          answer,    \* per request: the status of its reply
          arrivals,
          served,    \* history: what each tenant was served
          calm       \* history: per request, the keys held still since its stat

authVars == <<jwks_file, cache, stamp, fresh, calm>>
storeVars == <<owners, metrics, usage, served>>
requestVars == <<pc, call, who, shown, answer>>
vars == <<server, authVars, storeVars, requestVars, arrivals, limiterVars>>

Operations == {"query", "insert", "delete", "usage", "stats", "compact",
               "checkpoint", "export", "verify", "metrics"}

Open == {"verify", "metrics"}

\* The scope each handler asks authorize for.
Required(op) == CASE op = "query" -> "read"
                  [] op \in {"insert", "delete"} -> "write"
                  [] OTHER -> "admin"

\* Steps at which the store's read lock is held.
Reading == {"bucket", "meter", "render"}
Unlocked == \A r \in Requests : pc[r] \notin Reading

At(points) == Cardinality({r \in Requests : pc[r] \in points})

-----------------------------------------------------------------------------
(* Starting: main.  It exits where Provider is None or the key file is bad. *)

NoReplay == [inserts |-> 0, deletes |-> 0]

AppState(env, replayed) ==
    [provider |-> Provider(env), limited |-> env.rate,
     checkpoints |-> env.checkpoint_dir, audited |-> env.audit_log,
     durable |-> env.data_dir, replayed |-> replayed]

\* Without L5M_DATA_DIR there is no log to replay.
Starts == {AppState(env, replayed) : env \in {e \in Environments : Provider(e) # None /\ e.data_dir},
                                     replayed \in Replays}
          \cup {AppState(env, NoReplay) :
                    env \in {e \in Environments : Provider(e) # None /\ ~e.data_dir}}

KeyFiles(state) ==
    [version : {1}, keys : IF state.provider.kind = "jwks" THEN KeySets ELSE {Absent}]

\* metadata(path).modified(), where there is a file.
Mtime == IF jwks_file.keys = Absent THEN Absent ELSE jwks_file.version

\* Every counter starts at zero, but open_durable counts the lines it replays -
\* in the totals, not in the rows of the tenants they are from.
Init ==
    /\ server \in Starts
    /\ jwks_file \in KeyFiles(server)
    /\ cache = [loaded_at |-> 1, keys |-> jwks_file.keys]
    /\ owners \in Loaded
    /\ metrics = [NewMetrics EXCEPT !.inserts = server.replayed.inserts,
                                    !.deletes = server.replayed.deletes]
    /\ usage = <<>>
    /\ pc = [r \in Requests |-> "idle"]
    /\ call = [r \in Requests |-> None]
    /\ who = [r \in Requests |-> None]
    /\ stamp = [r \in Requests |-> Absent]
    /\ fresh = [r \in Requests |-> Absent]
    /\ shown = [r \in Requests |-> 0]
    /\ answer = [r \in Requests |-> None]
    /\ arrivals = 0
    /\ served = [t \in Tenants |-> NoUsage]
    /\ calm = [r \in Requests |-> FALSE]
    /\ LimiterInit

-----------------------------------------------------------------------------
(* Arriving and leaving. *)

Goto(r, point) == pc' = [pc EXCEPT ![r] = point]

Answer(r, status) ==
    Goto(r, "answered") /\ answer' = [answer EXCEPT ![r] = status]

\* The Json extractor's: a body that is no JSON, or no QueryBody.
Unreadable(c) == \/ c.op \in {"query", "insert"} /\ c.body = "malformed"
                 \/ c.op = "query" /\ c.body # "good"

\* build_router.  A body is read before the handler is called, and with it
\* authorize; 400 stands for each of the extractor's statuses.
Arrive(r) ==
    /\ pc[r] = "idle"
    /\ arrivals < MaxArrivals
    /\ arrivals' = arrivals + 1
    /\ \E c \in Calls[server.provider.kind] :
          /\ call' = [call EXCEPT ![r] = c]
          /\ \/ Unreadable(c) /\ Answer(r, 400)
             \/ /\ ~Unreadable(c)
                /\ Goto(r, IF c.op \in Open THEN "serve"
                           ELSE IF server.provider.kind = "jwks" /\ c.token # None
                           THEN "stat" ELSE "decide")
                /\ UNCHANGED answer
    /\ UNCHANGED <<server, authVars, storeVars, who, shown, limiterVars>>

Forget(r) ==
    /\ Goto(r, "idle")
    /\ call' = [call EXCEPT ![r] = None]
    /\ who' = [who EXCEPT ![r] = None]
    /\ shown' = [shown EXCEPT ![r] = 0]
    /\ answer' = [answer EXCEPT ![r] = None]
    /\ UNCHANGED <<server, authVars, storeVars, arrivals, limiterVars>>

\* ApiError::into_response, or the handler's own response.
Reply(r) == pc[r] = "answered" /\ Forget(r)

\* The client goes away while the request waits for the store's lock.
HangUp(r) == pc[r] = "serve" /\ Forget(r)

\* insert writes tenant_id into the body, which panics when that is a number, a
\* text or a list: the connection is closed without a reply.  No lock is held yet.
Panic(r) ==
    /\ pc[r] = "serve" /\ call[r].op = "insert" /\ call[r].body = "scalar"
    /\ Forget(r)

-----------------------------------------------------------------------------
(* JWKS: reload_if_changed and reload, call by call. *)

\* Keys that were read from the file before this stat may still be stored.
Stat(r) ==
    /\ pc[r] = "stat"
    /\ stamp' = [stamp EXCEPT ![r] = Mtime]
    /\ calm' = [calm EXCEPT ![r] = \A s \in Requests \ {r} : pc[s] # "store_keys"]
    /\ Goto(r, "compare")
    /\ UNCHANGED <<server, jwks_file, cache, fresh, storeVars, call, who, shown, answer,
                   arrivals, limiterVars>>

Compare(r) ==
    /\ pc[r] = "compare"
    /\ Goto(r, IF stamp[r] \notin {Absent, cache.loaded_at} THEN "restat" ELSE "decide")
    /\ UNCHANGED <<server, authVars, storeVars, call, who, shown, answer, arrivals,
                   limiterVars>>

\* reload takes the modification time again, before it reads.
Restat(r) ==
    /\ pc[r] = "restat"
    /\ stamp' = [stamp EXCEPT ![r] = Mtime]
    /\ Goto(r, IF Mtime = Absent THEN "decide" ELSE "read_keys")
    /\ UNCHANGED <<server, jwks_file, cache, fresh, calm, storeVars, call, who, shown,
                   answer, arrivals, limiterVars>>

\* Mutant: whatever the file holds is taken for a key set.
ReadKeysUnchecked(r) ==
    /\ pc[r] = "read_keys"
    /\ fresh' = [fresh EXCEPT ![r] = jwks_file.keys]
    /\ Goto(r, "store_keys")
    /\ UNCHANGED <<server, jwks_file, cache, stamp, calm, storeVars, call, who, shown,
                   answer, arrivals, limiterVars>>

\* A file that cannot be used leaves the cache as it was.
ReadKeys(r) ==
    /\ pc[r] = "read_keys"
    /\ fresh' = [fresh EXCEPT ![r] =
                    IF jwks_file.keys \in KeySets THEN jwks_file.keys ELSE Absent]
    /\ Goto(r, IF jwks_file.keys \in KeySets THEN "store_keys" ELSE "decide")
    /\ UNCHANGED <<server, jwks_file, cache, stamp, calm, storeVars, call, who, shown,
                   answer, arrivals, limiterVars>>

\* Mutant: the keys are labelled with the time the file has after the read.
StoreKeysStampedLate(r) ==
    /\ pc[r] = "store_keys"
    /\ cache' = [loaded_at |-> Mtime, keys |-> fresh[r]]
    /\ fresh' = [fresh EXCEPT ![r] = Absent]
    /\ Goto(r, "decide")
    /\ UNCHANGED <<server, jwks_file, stamp, calm, storeVars, call, who, shown, answer,
                   arrivals, limiterVars>>

StoreKeys(r) ==
    /\ pc[r] = "store_keys"
    /\ cache' = [loaded_at |-> stamp[r], keys |-> fresh[r]]
    /\ fresh' = [fresh EXCEPT ![r] = Absent]
    /\ Goto(r, "decide")
    /\ UNCHANGED <<server, jwks_file, stamp, calm, storeVars, call, who, shown, answer,
                   arrivals, limiterVars>>

\* The operator replaces or removes the key file.
RotateFile ==
    /\ server.provider.kind = "jwks"
    /\ jwks_file.version < MaxVersions
    /\ \E keys \in KeySets \cup {Unusable, Absent} :
          jwks_file' = [version |-> jwks_file.version + 1, keys |-> keys]
    /\ calm' = [r \in Requests |-> FALSE]
    /\ UNCHANGED <<server, cache, stamp, fresh, storeVars, requestVars, arrivals,
                   limiterVars>>

-----------------------------------------------------------------------------
(* authorize *)

PrincipalOf(c) ==
    CASE server.provider.kind = "headers" -> HeaderPrincipal(server.provider.keys, c)
      [] server.provider.kind = "jwt" ->
            JwtPrincipal(Head(server.provider.keys), c.token)
      [] server.provider.kind = "jwks" ->
            IF c.token = None THEN Missing ELSE JwksPrincipal(cache.keys, c.token)

\* The principal, then its scope; with a limiter, then the clock.
Decide(r) ==
    LET p == PrincipalOf(call[r])
    IN  /\ pc[r] = "decide"
        /\ stamp' = [stamp EXCEPT ![r] = Absent]
        /\ calm' = [calm EXCEPT ![r] = FALSE]
        /\ \/ /\ p.status # 200
              /\ Answer(r, p.status)
              /\ UNCHANGED who
           \/ /\ p.status = 200
              /\ Rank(p.scope) < Rank(Required(call[r].op))
              /\ Answer(r, 403)
              /\ UNCHANGED who
           \/ /\ p.status = 200
              /\ Rank(p.scope) >= Rank(Required(call[r].op))
              /\ who' = [who EXCEPT ![r] = p]
              /\ Goto(r, IF server.limited THEN "clock" ELSE "serve")
              /\ UNCHANGED answer
        /\ UNCHANGED <<server, jwks_file, cache, fresh, storeVars, call, shown, arrivals,
                       limiterVars>>

\* RateLimiter::allow up to its mutex.
AskClock(r) ==
    /\ pc[r] = "clock"
    /\ ReadClock(r)
    /\ Goto(r, "limit")
    /\ UNCHANGED <<server, authVars, storeVars, call, who, shown, answer, arrivals>>

\* Mutant: the buckets are not kept apart.
LimitTogether(r) ==
    LET t == CHOOSE t \in Tenants : TRUE
    IN  /\ pc[r] = "limit"
        /\ Consume(r, t)
        /\ IF Allowed(r, t) THEN Goto(r, "serve") /\ UNCHANGED answer ELSE Answer(r, 429)
        /\ UNCHANGED <<server, authVars, storeVars, call, who, shown, arrivals>>

Limit(r) ==
    LET t == who[r].tenant
    IN  /\ pc[r] = "limit"
        /\ Consume(r, t)
        /\ IF Allowed(r, t) THEN Goto(r, "serve") /\ UNCHANGED answer ELSE Answer(r, 429)
        /\ UNCHANGED <<server, authVars, storeVars, call, who, shown, arrivals>>

-----------------------------------------------------------------------------
(* The handlers. *)

Asked(r, op) == pc[r] = "serve" /\ call[r].op = op

Tally(t, more) ==
    served' = [served EXCEPT ![t] = [field \in DOMAIN @ |-> @[field] + more[field]]]

\* MemoryStore::query, up to the counters; masks that are no numbers end it.
BeginQuery(r) ==
    /\ Asked(r, "query")
    /\ \/ /\ who[r].masks = BadNumber
          /\ Answer(r, 500)
          /\ UNCHANGED <<storeVars, shown>>
       \/ /\ who[r].masks # BadNumber
          /\ \E n \in 0 .. Cardinality({i \in DOMAIN owners : owners[i] = who[r].tenant}) :
                /\ metrics' = CountQuery(metrics, n)
                /\ shown' = [shown EXCEPT ![r] = n]
          /\ Goto(r, "bucket")
          /\ UNCHANGED <<owners, usage, served, answer>>
    /\ UNCHANGED <<server, authVars, call, who, arrivals, limiterVars>>

\* The latency bucket of record_query.
Bucket(r) ==
    /\ pc[r] = "bucket"
    /\ \E latency \in Latencies : metrics' = CountLatency(metrics, latency)
    /\ Goto(r, "meter")
    /\ UNCHANGED <<server, authVars, owners, usage, served, call, who, shown, answer,
                   arrivals, limiterVars>>

\* record_query_for, and the reply.
Meter(r) ==
    /\ pc[r] = "meter"
    /\ usage' = RecordQueryFor(usage, who[r].tenant, shown[r])
    /\ Tally(who[r].tenant, [NoUsage EXCEPT !.queries = 1, !.returned = shown[r]])
    /\ Answer(r, 200)
    /\ UNCHANGED <<server, authVars, owners, metrics, call, who, shown, arrivals,
                   limiterVars>>

\* Mutant: the tenant the body claims is not overwritten.
InsertAsClaimed(r) ==
    LET owner == call[r].claimed
    IN  /\ Asked(r, "insert")
        /\ call[r].body = "good"
        /\ Unlocked
        /\ owners' = [owners EXCEPT ![call[r].id] = owner]
        /\ metrics' = RecordInsert(metrics)
        /\ usage' = RecordInsertFor(usage, owner)
        /\ Tally(who[r].tenant, [NoUsage EXCEPT !.inserts = 1])
        /\ Answer(r, 201)
        /\ UNCHANGED <<server, authVars, call, who, shown, arrivals, limiterVars>>

\* The capsule is the caller's, whatever the body says.
Insert(r) ==
    LET owner == who[r].tenant
    IN  /\ Asked(r, "insert")
        /\ call[r].body = "good"
        /\ Unlocked
        /\ owners' = [owners EXCEPT ![call[r].id] = owner]
        /\ metrics' = RecordInsert(metrics)
        /\ usage' = RecordInsertFor(usage, owner)
        /\ Tally(who[r].tenant, [NoUsage EXCEPT !.inserts = 1])
        /\ Answer(r, 201)
        /\ UNCHANGED <<server, authVars, call, who, shown, arrivals, limiterVars>>

\* An object that is no capsule is refused once the lock is held; an id that is
\* no number, before.
BadBody(r) ==
    /\ \/ Asked(r, "insert") /\ Unlocked
       \/ Asked(r, "delete")
    /\ call[r].body = "bad"
    /\ Answer(r, 400)
    /\ UNCHANGED <<server, authVars, storeVars, call, who, shown, arrivals, limiterVars>>

\* insert or delete whose line cannot be appended to the log: nothing is applied
\* or counted.
LogFails(r) ==
    /\ \/ Asked(r, "insert") /\ Answer(r, 400)
       \/ Asked(r, "delete") /\ Answer(r, 500)
    /\ call[r].body = "good"
    /\ server.durable
    /\ Unlocked
    /\ UNCHANGED <<server, authVars, storeVars, call, who, shown, arrivals, limiterVars>>

\* MemoryStore::delete: by id.  No tenant is metered for it.
Delete(r) ==
    /\ Asked(r, "delete")
    /\ call[r].body = "good"
    /\ Unlocked
    /\ owners' = [owners EXCEPT ![call[r].id] = None]
    /\ metrics' = RecordDelete(metrics)
    /\ Answer(r, 200)
    /\ UNCHANGED <<server, authVars, usage, served, call, who, shown, arrivals, limiterVars>>

\* What they do not have, they cannot do.
Unconfigured(op) == \/ op = "checkpoint" /\ ~server.checkpoints
                    \/ op \in {"export", "verify"} /\ ~server.audited

\* usage, admin_stats, admin_audit_export and audit_verify read; compaction and
\* checkpoints (MemoryStore, DurableStore) change no memory.  A checkpoint may
\* fail, a file may be unreadable, a chain broken; compact_delta and the rest
\* have nothing that could.
Administer(r) ==
    LET op == call[r].op
    IN  /\ pc[r] = "serve"
        /\ op \notin {"query", "insert", "delete", "metrics"}
        /\ op \in {"compact", "checkpoint"} /\ ~Unconfigured(op) => Unlocked
        /\ \/ Unconfigured(op) /\ Answer(r, IF op = "verify" THEN 404 ELSE 400)
           \/ ~Unconfigured(op) /\ Answer(r, 200)
           \/ /\ op \in {"checkpoint", "export", "verify"} /\ ~Unconfigured(op)
              /\ Answer(r, 500)
        /\ UNCHANGED <<server, authVars, storeVars, call, who, shown, arrivals, limiterVars>>

\* render_prometheus loads the total of queries first.
Scrape(r) ==
    /\ Asked(r, "metrics")
    /\ shown' = [shown EXCEPT ![r] = metrics.queries]
    /\ Goto(r, "render")
    /\ UNCHANGED <<server, authVars, storeVars, call, who, answer, arrivals, limiterVars>>

\* It loads the latency buckets afterwards, one by one, and the usage rows.
Render(r) ==
    /\ pc[r] = "render"
    /\ Answer(r, 200)
    /\ UNCHANGED <<server, authVars, storeVars, call, who, shown, arrivals, limiterVars>>

-----------------------------------------------------------------------------
\* Bound: without a limiter the time is of no account.
TimePasses ==
    /\ server.limited
    /\ Tick
    /\ UNCHANGED <<server, authVars, storeVars, requestVars, arrivals>>

Authenticates(r) == Stat(r) \/ Compare(r) \/ Restat(r) \/ ReadKeys(r) \/ StoreKeys(r)

Handles(r) ==
    \/ BeginQuery(r) \/ Bucket(r) \/ Meter(r)
    \/ Insert(r) \/ Delete(r) \/ BadBody(r) \/ LogFails(r)
    \/ Administer(r) \/ Scrape(r) \/ Render(r)

Next ==
    \/ \E r \in Requests :
          \/ Arrive(r) \/ Reply(r) \/ HangUp(r) \/ Panic(r)
          \/ Authenticates(r) \/ Decide(r) \/ AskClock(r) \/ Limit(r)
          \/ Handles(r)
    \/ RotateFile
    \/ TimePasses

Spec == Init /\ [][Next]_vars

-----------------------------------------------------------------------------
(* Properties. *)

Points == {"idle", "answered", "stat", "compare", "restat", "read_keys", "store_keys",
           "decide", "clock", "limit", "serve"} \cup Reading

\* Every variable keeps its type: no file that could not be used ever becomes
\* the key set, and a request past authorize has a tenant.
TypeOK ==
    /\ jwks_file.version \in 1 .. MaxVersions
    /\ jwks_file.keys \in KeySets \cup {Unusable, Absent}
    /\ cache.loaded_at \in 1 .. MaxVersions
    /\ cache.keys \in IF server.provider.kind = "jwks" THEN KeySets ELSE {Absent}
    /\ \A t \in Range(owners) : t \in Tenants \cup {None}
    /\ DOMAIN usage \subseteq Tenants \cup {Other}
    /\ \A r \in Requests :
        /\ pc[r] \in Points
        /\ pc[r] = "idle" <=> call[r] = None
        /\ pc[r] = "answered" <=> answer[r] # None
        /\ pc[r] \in {"clock", "limit"} \cup Reading /\ call[r].op \notin Open
               => who[r].tenant \in Tenants
        /\ pc[r] = "store_keys" <=> fresh[r] # Absent

\* Only a tenant that has spent its burst is turned away: what it owes comes
\* within one token of it, give or take the time the request waited for the
\* mutex (ratelimit.rs:3-5, one noisy tenant starves no other).
RefusedOnlyWhenSpent ==
    [][TRUE /\ \A r \in Requests :
          pc[r] = "limit" /\ pc'[r] = "answered"
              => owed[who[r].tenant] + Cost + (clock - reading[r]) > Full]_vars

\* A request decides by the keys in the file, when the file has usable ones and
\* neither it nor an older reload was under way since the request looked at it:
\* whatever order concurrent reloads store in, the next request finds out
\* (principal.rs:340-383, reload and reload_if_changed).
DecidesByCurrentKeys ==
    \A r \in Requests :
        pc[r] = "decide" /\ calm[r] /\ jwks_file.keys \in KeySets
            => cache.keys = jwks_file.keys

\* The counters agree with each other and with what was served, but for the
\* queries between their additions: the histogram holds every query, however
\* slow; the usage rows add up to the totals, less the inserts that the start
\* replayed, which are counted again and for nobody; a tenant with a row of its
\* own is billed for its own operations since the start, all of them, and
\* nothing else; the rows stay few; a scrape misses in the histogram only
\* queries still under way.
Metered ==
    /\ metrics.queries = Histogram(metrics) + At({"bucket"})
    /\ metrics.queries = Billed(usage, LAMBDA row : row.queries) + At({"bucket", "meter"})
    /\ metrics.inserts = server.replayed.inserts + Billed(usage, LAMBDA row : row.inserts)
    /\ \A t \in DOMAIN usage \ {Other} : usage[t] = served[t]
    /\ Cardinality(DOMAIN usage) <= MaxTracked + 1
    /\ \A r \in Requests :
          pc[r] = "render" => shown[r] <= Histogram(metrics) + At({"bucket"})

=============================================================================
