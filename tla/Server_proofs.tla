--------------------------- MODULE Server_proofs -----------------------------
(***************************************************************************)
(* Theorems about Server, for any number of requests, tenants and versions *)
(* of the key file, and for every rate, burst and size of the usage table: *)
(* the account of the rate limiter, the keys a request decides by, the     *)
(* types, and the counters.                                                *)
(***************************************************************************)
EXTENDS Server, FiniteSetTheorems, WellFoundedInduction, TLAPS

-----------------------------------------------------------------------------
(* The rate limiter. *)

LEMMA FullBurst == Full \in Nat /\ Full >= Cost /\ Cost \in Nat /\ Cost > 0
BY CostAssumption, BurstAssumption DEF Full, Larger

LEMMA LimiterStarts == LimiterInit => LimiterInv
<1> SUFFICES ASSUME LimiterInit  PROVE LimiterInv
  OBVIOUS
<1>1. \A t \in Tenants : Balanced(t)
  <2> SUFFICES ASSUME NEW t \in Tenants  PROVE Balanced(t)
    OBVIOUS
  <2>1. buckets[t] = NoBucket /\ owed[t] = 0 /\ late[t] = 0
    BY DEF LimiterInit
  <2>2. Present(t) = Full
    BY <2>1 DEF Present
  <2> QED  BY <2>1, <2>2, FullBurst DEF Balanced
<1> QED  BY <1>1 DEF LimiterInit, LimiterInv, NoBucket

LEMMA TickBalances == LimiterInv /\ Tick => LimiterInv'
<1> SUFFICES ASSUME LimiterInv, Tick  PROVE LimiterInv'
  OBVIOUS
<1>1. \A t \in Tenants : Balanced(t)'
  <2> SUFFICES ASSUME NEW t \in Tenants  PROVE Balanced(t)'
    OBVIOUS
  <2>1. /\ buckets'[t] = buckets[t] /\ late'[t] = late[t] /\ clock' = clock + 1
        /\ owed'[t] = IF owed[t] = 0 THEN 0 ELSE owed[t] - 1
    <3>1. buckets' = buckets /\ late' = late /\ clock' = clock + 1
      BY DEF Tick
    <3>2. owed'[t] = Larger(0, owed[t] - 1) /\ owed[t] \in Nat
      BY DEF Tick, LimiterInv
    <3> QED  BY <3>1, <3>2 DEF Larger
  <2>2. Balanced(t) /\ clock \in Nat /\ owed[t] \in Nat /\ late[t] \in Nat
    BY DEF LimiterInv
  <2>3. CASE buckets[t] = NoBucket
    BY <2>1, <2>2, <2>3, FullBurst DEF Balanced, Present
  <2>4. CASE buckets[t] # NoBucket
    <3>1. buckets[t].tokens \in 0 .. Full /\ buckets[t].last \in 0 .. clock
      BY <2>4 DEF LimiterInv
    <3> QED  BY <2>1, <2>2, <2>4, <3>1, FullBurst DEF Balanced, Present, Smaller
  <2> QED  BY <2>3, <2>4
<1>2. owed' \in [Tenants -> Nat]
  BY DEF Tick, LimiterInv, Larger
<1> QED  BY <1>1, <1>2 DEF Tick, LimiterInv

\* One call of allow, seen from the bucket it works on.
LEMMA ConsumeBalances ==
    ASSUME LimiterInv, NEW r \in Requests, NEW t \in Tenants, Consume(r, t)
    PROVE  /\ LimiterInv'
           /\ ~Allowed(r, t) => owed[t] + Cost + (clock - reading[r]) > Full
<1> DEFINE now == reading[r]
           price == IF Allowed(r, t) THEN Cost ELSE 0
<1>1. /\ now \in Nat /\ now <= clock /\ clock \in Nat
      /\ owed[t] \in Nat /\ late[t] \in Nat
      /\ Balanced(t)
  BY DEF LimiterInv
<1>2. /\ buckets' = [buckets EXCEPT ![t] = [tokens |-> Refilled(t, now) - price, last |-> now]]
      /\ owed' = [owed EXCEPT ![t] = @ + price]
      /\ late' = [late EXCEPT ![t] = @ + (clock - now)]
      /\ reading' = [reading EXCEPT ![r] = 0]
      /\ clock' = clock
  BY DEF Consume
<1>3. BucketOf(t, now).tokens \in 0 .. Full /\ BucketOf(t, now).last \in 0 .. clock
  BY <1>1, FullBurst DEF LimiterInv, BucketOf
<1>4. Refilled(t, now) \in 0 .. Full
  BY <1>1, <1>3, FullBurst DEF Refilled, Smaller, Larger
<1>5. price \in Nat /\ Refilled(t, now) - price \in 0 .. Full
  BY <1>4, FullBurst DEF Allowed
<1>6. /\ Present(t) >= Refilled(t, now)
      /\ Present(t) <= Refilled(t, now) + (clock - now)
  <2>1. CASE buckets[t] = NoBucket
    BY <2>1, <1>1, FullBurst DEF Present, Refilled, BucketOf, Smaller, Larger
  <2>2. CASE buckets[t] # NoBucket
    <3>1. buckets[t].tokens \in 0 .. Full /\ buckets[t].last \in 0 .. clock
      BY <2>2 DEF LimiterInv
    <3> QED  BY <2>2, <3>1, <1>1, FullBurst DEF Present, Refilled, BucketOf, Smaller, Larger
  <2> QED  BY <2>1, <2>2
<1>7. Present(t) \in 0 .. Full
  BY <1>1, FullBurst DEF Present, LimiterInv, Smaller
<1> DEFINE rest == Refilled(t, now) - price
<1>8. Present(t)' = Smaller(rest + (clock - now), Full)
  <2>1. buckets'[t] = [tokens |-> rest, last |-> now]
    BY <1>2 DEF LimiterInv
  <2>2. buckets'[t] # NoBucket
    BY <2>1, <1>1 DEF NoBucket
  <2> QED  BY <1>2, <2>1, <2>2 DEF Present
<1>9. Balanced(t)'
  <2>1. owed'[t] = owed[t] + price /\ late'[t] = late[t] + (clock - now)
    BY <1>2 DEF LimiterInv
  <2>2. Full <= owed[t] + Present(t) /\ owed[t] + Present(t) <= Full + late[t]
    BY <1>1 DEF Balanced
  <2> DEFINE present == Smaller(rest + (clock - now), Full)
  <2>7. Present(t)' = present
    BY <1>8
  <2>3. Full <= owed[t] + price + present
    BY <2>2, <1>1, <1>4, <1>5, <1>6, <1>7, FullBurst DEF Smaller
  <2>4. owed[t] + price + present <= Full + (late[t] + (clock - now))
    BY <2>2, <1>1, <1>4, <1>5, <1>6, <1>7, FullBurst DEF Smaller
  <2>5. Full' = Full
    BY DEF Full, Larger
  <2> HIDE DEF present, price, now
  <2>6. Full' <= owed'[t] + Present(t)' /\ owed'[t] + Present(t)' <= Full' + late'[t]
    BY <2>1, <2>3, <2>4, <2>5, <2>7
  <2> QED  BY <2>6 DEF Balanced
<1>10. \A u \in Tenants \ {t} : Balanced(u)'
  BY <1>2 DEF LimiterInv, Balanced, Present
<1>11. LimiterInv'
  <2>1. buckets' \in [Tenants -> [tokens : Int, last : Int]]
    BY <1>1, <1>2, <1>4, <1>5 DEF LimiterInv
  <2>2. owed' \in [Tenants -> Nat] /\ late' \in [Tenants -> Nat] /\ reading' \in [Requests -> Nat]
    BY <1>1, <1>2, <1>5 DEF LimiterInv
  <2>3. \A q \in Requests : reading'[q] <= clock'
    BY <1>1, <1>2 DEF LimiterInv
  <2>4. \A u \in Tenants : buckets'[u] # NoBucket =>
            buckets'[u].tokens \in 0 .. Full /\ buckets'[u].last \in 0 .. clock'
    BY <1>1, <1>2, <1>5 DEF LimiterInv
  <2> QED  BY <1>1, <1>2, <1>9, <1>10, <2>1, <2>2, <2>3, <2>4 DEF LimiterInv
<1>12. ~Allowed(r, t) => owed[t] + Cost + (clock - now) > Full
  BY <1>1, <1>4, <1>6, <1>7, FullBurst DEF Allowed, Balanced
<1> QED  BY <1>11, <1>12

LEMMA ClockReadBalances ==
    ASSUME LimiterInv, NEW r \in Requests, ReadClock(r)
    PROVE  LimiterInv'
BY DEF LimiterInv, ReadClock, Balanced, Present

LEMMA LimiterRests == LimiterInv /\ UNCHANGED limiterVars => LimiterInv'
BY DEF LimiterInv, limiterVars, Balanced, Present

-----------------------------------------------------------------------------
(* Who the limiter is asked about. *)

\* A nonempty set of naturals has a least element.
LEMMA LeastNat ==
    ASSUME NEW S \in SUBSET Nat, S # {}
    PROVE  \E m \in S : \A n \in S : m <= n
<1> DEFINE R == OpToRel(<, Nat)
<1>1. \E m \in S : \A n \in S : ~(<<n, m>> \in R)
  BY NatLessThanWellFounded, WFMin
<1>2. \A m, n \in Nat : <<n, m>> \in R <=> n < m
  BY DEF OpToRel
<1> HIDE DEF R
<1>3. PICK m \in S : \A n \in S : ~(<<n, m>> \in R)
  BY <1>1
<1>4. ASSUME NEW n \in S PROVE m <= n
  <2>1. m \in Nat /\ n \in Nat
    OBVIOUS
  <2>2. ~(n < m)
    BY <1>2, <1>3, <2>1
  <2> QED  BY <2>1, <2>2
<1> QED  BY <1>4

ReloadPoints == {"compare", "restat", "read_keys", "store_keys", "decide"}
Asking == {"stat"} \cup ReloadPoints
Kinds == {"headers", "jwt", "jwks"}
KeyTenants == Tenants \cup {None}

ProviderOK(p) ==
    /\ p.kind \in Kinds
    /\ p.kind = "headers" => DOMAIN p.keys \subseteq Nat
    /\ p.kind = "headers" => \A i \in DOMAIN p.keys : p.keys[i].tenant \in KeyTenants

\* A request carries what its client sent until a principal is made of it, and
\* the principal is a tenant's.
CallInv ==
    /\ ProviderOK(server.provider)
    /\ DOMAIN pc = Requests /\ DOMAIN call = Requests /\ DOMAIN who = Requests
    /\ \A r \in Requests : pc[r] \in Asking => call[r] \in Calls[server.provider.kind]
    /\ \A r \in Requests : pc[r] \in {"clock", "limit"} => who[r].tenant \in Tenants

\* What main starts with is one of the three providers.
LEMMA ProviderStarts ==
    ASSUME NEW env \in Environments, Provider(env) # None
    PROVE  ProviderOK(Provider(env))
<1>1. CASE env.jwks # None
  BY <1>1 DEF Provider, ProviderOK, Kinds
<1>2. CASE env.jwks = None /\ env.jwt_key # None
  BY <1>2 DEF Provider, ProviderOK, Kinds
<1>3. CASE env.jwks = None /\ env.jwt_key = None /\ env.api_keys # None
  <2> DEFINE parsed == [i \in DOMAIN env.api_keys |-> ParseKey(env.api_keys[i])]
  <2>1. None \notin Range(parsed) /\ Provider(env) = [kind |-> "headers", keys |-> parsed]
    BY <1>3 DEF Provider
  <2>2. ASSUME NEW i \in DOMAIN env.api_keys
        PROVE  parsed[i].tenant \in KeyTenants
    <3> DEFINE entry == env.api_keys[i]
    <3>1. parsed[i] = ParseKey(entry) /\ ParseKey(entry) # None
      BY <2>1 DEF Range
    <3>2. entry.tenant # BadNumber
      BY <3>1 DEF ParseKey
    <3>3. ParseKey(entry) = [entry EXCEPT !.scope = IF @ = None THEN "write" ELSE @]
      BY <3>1 DEF ParseKey
    <3>4. ParseKey(entry).tenant = entry.tenant
      BY <3>3
    <3>5. entry.tenant \in Numbers
      BY <1>3, EnvironmentsAssumption
    <3> QED  BY <3>1, <3>2, <3>4, <3>5 DEF Numbers, KeyTenants
  <2>3. DOMAIN parsed = DOMAIN env.api_keys /\ DOMAIN env.api_keys \subseteq Nat
    BY <1>3, EnvironmentsAssumption
  <2> HIDE DEF parsed
  <2> QED  BY <2>1, <2>2, <2>3 DEF ProviderOK, Kinds
<1>4. CASE env.jwks = None /\ env.jwt_key = None /\ env.api_keys = None
  BY <1>4 DEF Provider, ProviderOK, Kinds, SingleKey, OpenMode, KeyTenants
<1> QED  BY <1>1, <1>2, <1>3, <1>4

\* An accepted request is some tenant's, by each provider.
LEMMA PrincipalIsATenant ==
    ASSUME ProviderOK(server.provider), NEW c \in Calls[server.provider.kind],
           PrincipalOf(c).status = 200
    PROVE  PrincipalOf(c).tenant \in Tenants
<1>1. c.tenant \in Numbers /\ (c.token # None => c.token.claims.tenant \in Numbers)
  BY CallsAssumption DEF ProviderOK, Kinds
<1>2. ASSUME NEW token, NEW key, token.claims.tenant \in Numbers, Decodes(token, key)
      PROVE  ClaimsPrincipal(token.claims).tenant \in Tenants
  BY <1>2 DEF Decodes, ClaimsPrincipal, Principal, Numbers
<1>3. CASE server.provider.kind = "headers"
  <2> DEFINE keys == server.provider.keys
             matched == {i \in DOMAIN keys : keys[i].secret = c.key}
             first == CHOOSE i \in matched : \A j \in matched : i <= j
             key == IF keys = <<>> THEN [scope |-> "write", tenant |-> None]
                    ELSE keys[first]
             tenant == IF key.tenant # None THEN key.tenant ELSE c.tenant
  <2>1. PrincipalOf(c) = HeaderPrincipal(keys, c)
    BY <1>3 DEF PrincipalOf
  <2>0. HeaderPrincipal(keys, c) =
            IF keys # <<>> /\ matched = {} THEN Unauthorized
            ELSE IF tenant = None THEN Missing
            ELSE IF tenant = BadNumber \/ c.trust = BadNumber THEN Invalid
            ELSE Principal(tenant, key.scope, c.masks)
    BY DEF HeaderPrincipal
  <2>2. ~ (keys # <<>> /\ matched = {})
    <3> HIDE DEF key, matched, tenant
    <3> QED  BY <2>0, <2>1 DEF Unauthorized, Refusal
  <2>3. key.tenant \in KeyTenants
    <3>1. CASE keys = <<>>
      BY <3>1 DEF KeyTenants
    <3>2. CASE keys # <<>>
      <4>2. DOMAIN keys \subseteq Nat
        BY <1>3 DEF ProviderOK
      <4>3. first \in matched
        <5> HIDE DEF first
        <5>1. \E i \in matched : \A j \in matched : i <= j
          <6>1. matched \in SUBSET Nat /\ matched # {}
            BY <2>2, <3>2, <4>2
          <6> HIDE DEF matched
          <6> QED  BY <6>1, LeastNat
        <5> QED  BY <5>1 DEF first
      <4> HIDE DEF first
      <4> QED  BY <3>2, <4>3, <1>3 DEF ProviderOK
    <3> QED  BY <3>1, <3>2
  <2> HIDE DEF key
  <2>4. tenant # None /\ tenant # BadNumber /\ HeaderPrincipal(keys, c).tenant = tenant
    <3> HIDE DEF matched, tenant
    <3> QED  BY <2>0, <2>1, <2>2 DEF Missing, Invalid, Unauthorized, Refusal, Principal
  <2>5. tenant \in Tenants
    BY <2>3, <2>4, <1>1 DEF KeyTenants, Numbers
  <2> QED  BY <2>1, <2>4, <2>5
<1>4. CASE server.provider.kind = "jwt"
  <2>1. PICK key : PrincipalOf(c) = JwtPrincipal(key, c.token)
    BY <1>4 DEF PrincipalOf
  <2>2. c.token # None /\ Decodes(c.token, key)
    BY <2>1 DEF JwtPrincipal, Missing, Unauthorized, Refusal
  <2>3. PrincipalOf(c) = ClaimsPrincipal(c.token.claims)
    BY <2>1, <2>2 DEF JwtPrincipal
  <2> QED  BY <1>1, <1>2, <2>2, <2>3
<1>5. CASE server.provider.kind = "jwks"
  <2>1. c.token # None /\ PrincipalOf(c) = JwksPrincipal(cache.keys, c.token)
    BY <1>5 DEF PrincipalOf, Missing, Refusal
  <2>2. PICK kid \in DOMAIN cache.keys : Decodes(c.token, cache.keys[kid])
    BY <2>1 DEF JwksPrincipal, Unauthorized, Refusal
  <2>3. PrincipalOf(c) = ClaimsPrincipal(c.token.claims)
    BY <2>1 DEF JwksPrincipal, Unauthorized, Refusal
  <2> QED  BY <1>1, <1>2, <2>1, <2>2, <2>3
<1> QED  BY <1>3, <1>4, <1>5 DEF ProviderOK, Kinds

-----------------------------------------------------------------------------
(* Steps away from authentication and the limiter. *)

AwayPoints == {"idle", "answered", "serve"} \cup Reading

\* A step of request r among the points behind the limiter, or out of them.
Away(r) ==
    /\ UNCHANGED <<server, authVars, limiterVars>>
    /\ pc[r] \in AwayPoints
    /\ \E p \in AwayPoints : pc' = [pc EXCEPT ![r] = p]
    /\ DOMAIN call' = DOMAIN call /\ DOMAIN who' = DOMAIN who
    /\ \A s \in Requests \ {r} : call'[s] = call[s] /\ who'[s] = who[s]

LEMMA HandlersAreAway ==
    ASSUME CallInv, NEW r \in Requests,
           Reply(r) \/ HangUp(r) \/ Panic(r) \/ Handles(r)
    PROVE  Away(r)
<1>1. CASE Reply(r) \/ HangUp(r) \/ Panic(r)
  BY <1>1 DEF CallInv, Reply, HangUp, Panic, Forget, Goto, Away, AwayPoints
<1>2. CASE Handles(r)
  <2>1. CASE BeginQuery(r)
    BY <2>1 DEF BeginQuery, Asked, Goto, Answer, Away, AwayPoints, Reading
  <2>2. CASE Bucket(r) \/ Meter(r)
    BY <2>2 DEF Bucket, Meter, Goto, Answer, Away, AwayPoints, Reading
  <2>3. CASE Insert(r) \/ Delete(r) \/ BadBody(r) \/ LogFails(r)
    BY <2>3 DEF Insert, Delete, BadBody, LogFails, Asked, Goto, Answer, Away, AwayPoints
  <2>4. CASE Administer(r)
    BY <2>4 DEF Administer, Goto, Answer, Away, AwayPoints
  <2>5. CASE Scrape(r) \/ Render(r)
    BY <2>5 DEF Scrape, Render, Asked, Goto, Answer, Away, AwayPoints, Reading
  <2> QED  BY <1>2, <2>1, <2>2, <2>3, <2>4, <2>5 DEF Handles
<1> QED  BY <1>1, <1>2

\* A step of the key-set reload.
LEMMA ReloadMoves ==
    ASSUME NEW r \in Requests, Authenticates(r)
    PROVE  /\ UNCHANGED <<server, call, who, limiterVars>>
           /\ pc[r] \in Asking \ {"decide"}
           /\ \E p \in ReloadPoints : pc' = [pc EXCEPT ![r] = p]
<1>1. CASE Stat(r) \/ Compare(r)
  BY <1>1 DEF Stat, Compare, Goto, Asking, ReloadPoints
<1>2. CASE Restat(r) \/ ReadKeys(r) \/ StoreKeys(r)
  BY <1>2 DEF Restat, ReadKeys, StoreKeys, Goto, Asking, ReloadPoints
<1> QED  BY <1>1, <1>2 DEF Authenticates

LEMMA CallStarts == Init => CallInv
<1> SUFFICES ASSUME Init  PROVE CallInv
  OBVIOUS
<1>1. ProviderOK(server.provider)
  <2>1. PICK env \in Environments, replayed \in Replays \cup {NoReplay} :
            Provider(env) # None /\ server = AppState(env, replayed)
    BY DEF Init, Starts
  <2>2. server.provider = Provider(env)
    BY <2>1 DEF AppState
  <2> QED  BY <2>1, <2>2, ProviderStarts
<1> QED  BY <1>1 DEF Init, CallInv, Asking, ReloadPoints

\* A request that arrives is turned away at once or goes where its call says.
LEMMA Arrival ==
    ASSUME NEW r \in Requests, Arrive(r)
    PROVE  /\ pc[r] = "idle"
           /\ UNCHANGED <<server, authVars, storeVars, who, shown, limiterVars>>
           /\ \E c \in Calls[server.provider.kind],
                 p \in {"answered", "serve", "stat", "decide"} :
                  /\ call' = [call EXCEPT ![r] = c]
                  /\ pc' = [pc EXCEPT ![r] = p]
                  /\ answer' = IF p = "answered" THEN [answer EXCEPT ![r] = 400] ELSE answer
                  /\ p = "serve" => c.op \in Open
                  /\ p = "stat" => server.provider.kind = "jwks"
<1>1. /\ pc[r] = "idle"
      /\ UNCHANGED <<server, authVars, storeVars, who, shown, limiterVars>>
  BY DEF Arrive
<1>2. PICK c \in Calls[server.provider.kind] :
          /\ call' = [call EXCEPT ![r] = c]
          /\ \/ Answer(r, 400)
             \/ /\ Goto(r, IF c.op \in Open THEN "serve"
                           ELSE IF server.provider.kind = "jwks" /\ c.token # None
                           THEN "stat" ELSE "decide")
                /\ UNCHANGED answer
  BY DEF Arrive
<1> DEFINE q == IF c.op \in Open THEN "serve"
                ELSE IF server.provider.kind = "jwks" /\ c.token # None
                THEN "stat" ELSE "decide"
<1>3. /\ q \in {"serve", "stat", "decide"}
      /\ q = "serve" => c.op \in Open
      /\ q = "stat" => server.provider.kind = "jwks"
  OBVIOUS
<1>4. CASE Answer(r, 400)
  <2>1. pc' = [pc EXCEPT ![r] = "answered"] /\ answer' = [answer EXCEPT ![r] = 400]
    BY <1>4 DEF Answer, Goto
  <2> QED  BY <1>1, <1>2, <2>1
<1>5. CASE Goto(r, q) /\ UNCHANGED answer
  <2>1. pc' = [pc EXCEPT ![r] = q] /\ answer' = answer /\ q # "answered"
    BY <1>3, <1>5 DEF Goto
  <2> HIDE DEF q
  <2> QED  BY <1>1, <1>2, <1>3, <2>1
<1> QED  BY <1>2, <1>4, <1>5

LEMMA CallStep == CallInv /\ [Next]_vars => CallInv'
<1> SUFFICES ASSUME CallInv, [Next]_vars  PROVE CallInv'
  OBVIOUS
<1> USE DEF Asking, ReloadPoints
<1>1. ASSUME NEW r \in Requests, Arrive(r)  PROVE CallInv'
  BY <1>1, Arrival DEF CallInv
<1>2. ASSUME NEW r \in Requests, Away(r)  PROVE CallInv'
  BY <1>2 DEF CallInv, Away, AwayPoints, Reading
<1>3. ASSUME NEW r \in Requests, Authenticates(r)  PROVE CallInv'
  BY <1>3, ReloadMoves DEF CallInv
<1>4. ASSUME NEW r \in Requests, Decide(r)  PROVE CallInv'
  <2>1. call[r] \in Calls[server.provider.kind] /\ ProviderOK(server.provider)
    BY <1>4 DEF CallInv, Decide
  <2>2. PrincipalOf(call[r]).status = 200 => PrincipalOf(call[r]).tenant \in Tenants
    BY <2>1, PrincipalIsATenant
  <2> HIDE DEF Asking, ReloadPoints
  <2>3. /\ server' = server /\ call' = call
        /\ \A s \in Requests \ {r} : who'[s] = who[s]
        /\ DOMAIN who' = DOMAIN who
        /\ \E p \in {"answered", "clock", "serve"} :
               /\ pc' = [pc EXCEPT ![r] = p]
               /\ p = "clock" => who'[r].tenant \in Tenants
    BY <1>4, <2>2 DEF Decide, Goto, Answer, CallInv
  <2> QED  BY <2>3 DEF CallInv, Asking, ReloadPoints
<1>5. ASSUME NEW r \in Requests, AskClock(r)  PROVE CallInv'
  BY <1>5 DEF CallInv, AskClock, Goto
<1>6. ASSUME NEW r \in Requests, Limit(r)  PROVE CallInv'
  BY <1>6 DEF CallInv, Limit, Goto, Answer
<1>7. CASE RotateFile \/ TimePasses
  BY <1>7 DEF CallInv, RotateFile, TimePasses, requestVars
<1>8. CASE UNCHANGED vars
  BY <1>8 DEF CallInv, vars, requestVars
<1> QED  BY <1>1, <1>2, <1>3, <1>4, <1>5, <1>6, <1>7, <1>8, HandlersAreAway DEF Next

\* Every step is one of the limiter's or leaves it alone.
LEMMA LimiterStep ==
    ASSUME CallInv, LimiterInv, [Next]_vars
    PROVE  /\ LimiterInv'
           /\ \A r \in Requests : pc[r] = "limit" /\ pc'[r] = "answered"
                  => owed[who[r].tenant] + Cost + (clock - reading[r]) > Full
<1> DEFINE Just(r) == pc[r] = "limit" /\ pc'[r] = "answered"
                          => owed[who[r].tenant] + Cost + (clock - reading[r]) > Full
<1>1. ASSUME NEW q \in Requests, Limit(q)
      PROVE  LimiterInv' /\ \A r \in Requests : Just(r)
  <2>1. who[q].tenant \in Tenants /\ Consume(q, who[q].tenant)
    BY <1>1 DEF Limit, CallInv
  <2>2. \A r \in Requests \ {q} : pc'[r] = pc[r]
    BY <1>1 DEF Limit, Goto, Answer, CallInv
  <2>3. Allowed(q, who[q].tenant) => pc'[q] = "serve"
    BY <1>1 DEF Limit, Goto, CallInv
  <2> QED  BY <2>1, <2>2, <2>3, ConsumeBalances
<1>2. ASSUME NEW q \in Requests, AskClock(q)
      PROVE  LimiterInv' /\ \A r \in Requests : Just(r)
  <2>1. ReadClock(q) /\ pc' = [pc EXCEPT ![q] = "limit"]
    BY <1>2 DEF AskClock, Goto
  <2> QED  BY <2>1, ClockReadBalances DEF CallInv
<1>3. CASE TimePasses
  BY <1>3, TickBalances DEF TimePasses, requestVars
<1>4. ASSUME NEW q \in Requests,
             Arrive(q) \/ Away(q) \/ Authenticates(q) \/ Decide(q)
      PROVE  LimiterInv' /\ \A r \in Requests : Just(r)
  <2>1. CASE Arrive(q)
    BY <2>1, Arrival, LimiterRests DEF CallInv
  <2>2. CASE Away(q)
    BY <2>2, LimiterRests DEF Away, AwayPoints, Reading, CallInv
  <2>3. CASE Authenticates(q)
    <3>1. UNCHANGED limiterVars /\ \E p \in ReloadPoints : pc' = [pc EXCEPT ![q] = p]
      BY <2>3, ReloadMoves
    <3> QED  BY <3>1, LimiterRests DEF ReloadPoints, CallInv
  <2>4. CASE Decide(q)
    BY <2>4, LimiterRests DEF Decide, Goto, Answer, CallInv
  <2> QED  BY <1>4, <2>1, <2>2, <2>3, <2>4
<1>5. CASE RotateFile
  BY <1>5, LimiterRests DEF RotateFile, requestVars
<1>6. CASE UNCHANGED vars
  BY <1>6, LimiterRests DEF vars, requestVars
<1> QED  BY <1>1, <1>2, <1>3, <1>4, <1>5, <1>6, HandlersAreAway DEF Next

\* In every reachable state the requests in progress are well formed and every
\* bucket is in balance: what its tenant owes the rate and what the bucket would
\* hold now make up the burst, and more only by the time the tenant's requests
\* waited for the mutex with their clock already read (ratelimit.rs:34-50).
THEOREM LimiterCorrect == Spec => [](CallInv /\ LimiterInv)
<1>1. Init => CallInv /\ LimiterInv
  BY CallStarts, LimiterStarts DEF Init
<1>2. CallInv /\ LimiterInv /\ [Next]_vars => (CallInv /\ LimiterInv)'
  BY CallStep, LimiterStep
<1> QED  BY <1>1, <1>2, PTL DEF Spec

\* However requests interleave, for any cost and burst, no tenant is granted more
\* in any stretch of time than its burst, what the rate gives in that time, and
\* what its own requests waited (RateLimiter::allow).
THEOREM AdmissionIsBounded == Spec => []AdmissionBounded
<1>1. LimiterInv => AdmissionBounded
  <2> SUFFICES ASSUME LimiterInv, NEW t \in Tenants  PROVE owed[t] <= Full + late[t]
    BY DEF AdmissionBounded
  <2>1. Present(t) \in Nat
    BY FullBurst DEF Present, LimiterInv, Smaller
  <2> QED  BY <2>1, FullBurst DEF LimiterInv, Balanced
<1> QED  BY <1>1, LimiterCorrect, PTL

\* A request is refused with 429 only when its own tenant has spent its burst
\* down to less than one token (authorize, lib.rs:64-69): neither another
\* tenant's requests nor a clock read early ever costs it a token.
THEOREM RefusalsAreDue == Spec => RefusedOnlyWhenSpent
<1>1. CallInv /\ LimiterInv /\ [Next]_vars
        => [TRUE /\ \A r \in Requests : pc[r] = "limit" /\ pc'[r] = "answered"
                       => owed[who[r].tenant] + Cost + (clock - reading[r]) > Full]_vars
  BY LimiterStep
<1> QED  BY <1>1, LimiterCorrect, PTL DEF Spec, RefusedOnlyWhenSpent

-----------------------------------------------------------------------------
(* The keys a request decides by. *)

Usable == jwks_file.keys \in KeySets

\* Every label in sight is a version the file has had.
LabelInv ==
    /\ DOMAIN pc = Requests /\ DOMAIN stamp = Requests
    /\ DOMAIN fresh = Requests /\ DOMAIN calm = Requests
    /\ jwks_file.version \in Nat
    /\ cache.loaded_at \in Nat /\ cache.loaded_at <= jwks_file.version
    /\ \A r \in Requests : stamp[r] # Absent =>
           stamp[r] \in Nat /\ stamp[r] <= jwks_file.version
    /\ \A r \in Requests : pc[r] \in {"read_keys", "store_keys"} => stamp[r] # Absent

\* What is labelled with the file's version is the file's: the label is taken
\* before the keys are read, so keys may be newer than their label, never older.
\* A request that is calm has met no reload with older keys, and the reloads
\* that began since read the file as it is.
KeyInv ==
    /\ LabelInv
    /\ Usable /\ cache.loaded_at = jwks_file.version => cache.keys = jwks_file.keys
    /\ \A r \in Requests :
           Usable /\ pc[r] = "store_keys" /\ stamp[r] = jwks_file.version
               => fresh[r] = jwks_file.keys
    /\ \A r \in Requests : calm[r] => pc[r] \in ReloadPoints
    /\ \A r \in Requests : calm[r] /\ Usable =>
           /\ \A s \in Requests : pc[s] = "store_keys" => fresh[s] = jwks_file.keys
           /\ pc[r] = "compare" => stamp[r] = jwks_file.version
           /\ pc[r] = "decide" => cache.keys = jwks_file.keys

LEMMA UsableIsThere == Usable => Mtime = jwks_file.version
BY KeySetsAssumption DEF Usable, Mtime

LEMMA KeyStarts == Init => KeyInv
BY KeySetsAssumption DEF Init, KeyInv, LabelInv, KeyFiles, Usable, ReloadPoints

\* Steps of others, and of this request before and after.
LEMMA KeyAside ==
    ASSUME KeyInv, NEW r \in Requests, UNCHANGED authVars, pc[r] \notin ReloadPoints,
           NEW p, p \notin {"compare", "restat", "read_keys", "store_keys"},
           pc' = [pc EXCEPT ![r] = p]
    PROVE  KeyInv'
<1>1. ~calm[r]
  BY DEF KeyInv
<1>2. \A s \in Requests : pc'[s] = IF s = r THEN p ELSE pc[s]
  BY DEF KeyInv, LabelInv
<1>3. LabelInv'
  BY <1>2 DEF KeyInv, LabelInv, authVars
<1> QED  BY <1>1, <1>2, <1>3 DEF KeyInv, authVars, Usable

LEMMA KeyStep ==
    ASSUME CallInv, KeyInv, [Next]_vars
    PROVE  KeyInv'
<1> USE DEF ReloadPoints
<1>1. ASSUME NEW r \in Requests, Stat(r)  PROVE KeyInv'
  <2>1. \A s \in Requests :
            /\ pc'[s] = IF s = r THEN "compare" ELSE pc[s]
            /\ stamp'[s] = IF s = r THEN Mtime ELSE stamp[s]
            /\ calm'[s] = IF s = r THEN \A q \in Requests \ {r} : pc[q] # "store_keys"
                          ELSE calm[s]
    BY <1>1 DEF Stat, Goto, KeyInv, LabelInv
  <2>2. /\ UNCHANGED <<jwks_file, cache, fresh>> /\ DOMAIN pc' = Requests
        /\ DOMAIN stamp' = Requests /\ DOMAIN calm' = Requests
    BY <1>1 DEF Stat, Goto, KeyInv, LabelInv
  <2>4. /\ \A s \in Requests : s # r => pc'[s] = pc[s] /\ stamp'[s] = stamp[s]
        /\ pc'[r] = "compare" /\ stamp'[r] = Mtime
    BY <2>1
  <2>5. Mtime = Absent \/ Mtime = jwks_file.version
    BY DEF Mtime
  <2>3. LabelInv'
    BY <2>2, <2>4, <2>5 DEF KeyInv, LabelInv
  <2>6. \A s \in Requests : Usable /\ pc'[s] = "store_keys" /\ stamp'[s] = jwks_file.version
                               => fresh[s] = jwks_file.keys
    BY <2>4 DEF KeyInv
  <2>7. \A s \in Requests : calm'[s] => pc'[s] \in ReloadPoints
    BY <2>1, <2>4 DEF KeyInv
  <2>8. \A s \in Requests : calm'[s] /\ Usable =>
            \A q \in Requests : pc'[q] = "store_keys" => fresh[q] = jwks_file.keys
    BY <2>1 DEF KeyInv
  <2>9. \A s \in Requests : calm'[s] /\ Usable =>
            /\ pc'[s] = "compare" => stamp'[s] = jwks_file.version
            /\ pc'[s] = "decide" => cache.keys = jwks_file.keys
    BY <2>1, UsableIsThere DEF KeyInv
  <2>10. (Usable /\ cache.loaded_at = jwks_file.version => cache.keys = jwks_file.keys)
    BY DEF KeyInv
  <2> QED  BY <2>2, <2>3, <2>6, <2>7, <2>8, <2>9, <2>10 DEF KeyInv, Usable
<1>2. ASSUME NEW r \in Requests, Compare(r)  PROVE KeyInv'
  <2>1. /\ UNCHANGED authVars
        /\ \A s \in Requests : s # r => pc'[s] = pc[s]
        /\ pc'[r] = IF stamp[r] \notin {Absent, cache.loaded_at} THEN "restat" ELSE "decide"
        /\ DOMAIN pc' = Requests /\ pc[r] = "compare"
    BY <1>2 DEF Compare, Goto, KeyInv, LabelInv
  <2>2. LabelInv'
    BY <2>1 DEF KeyInv, LabelInv, authVars
  <2>3. calm[r] /\ Usable /\ pc'[r] = "decide" => cache.keys = jwks_file.keys
    BY <2>1, KeySetsAssumption DEF KeyInv, LabelInv
  <2> QED  BY <2>1, <2>2, <2>3 DEF KeyInv, authVars, Usable
<1>3. ASSUME NEW r \in Requests, Restat(r)  PROVE KeyInv'
  <2>1. /\ UNCHANGED <<jwks_file, cache, fresh, calm>>
        /\ \A s \in Requests : s # r => pc'[s] = pc[s] /\ stamp'[s] = stamp[s]
        /\ pc'[r] = (IF Mtime = Absent THEN "decide" ELSE "read_keys")
        /\ stamp'[r] = Mtime
        /\ DOMAIN pc' = Requests /\ DOMAIN stamp' = Requests /\ pc[r] = "restat"
    BY <1>3 DEF Restat, Goto, KeyInv, LabelInv
  <2>2. LabelInv'
    BY <2>1 DEF KeyInv, LabelInv, Mtime
  <2>3. Usable => pc'[r] = "read_keys"
    BY <2>1, UsableIsThere, KeySetsAssumption DEF KeyInv, LabelInv
  <2> QED  BY <2>1, <2>2, <2>3 DEF KeyInv, Usable
<1>4. ASSUME NEW r \in Requests, ReadKeys(r)  PROVE KeyInv'
  <2>1. /\ UNCHANGED <<jwks_file, cache, stamp, calm>>
        /\ \A s \in Requests : s # r => pc'[s] = pc[s] /\ fresh'[s] = fresh[s]
        /\ pc'[r] = (IF Usable THEN "store_keys" ELSE "decide")
        /\ Usable => fresh'[r] = jwks_file.keys
        /\ DOMAIN pc' = Requests /\ DOMAIN fresh' = Requests /\ pc[r] = "read_keys"
    BY <1>4 DEF ReadKeys, Goto, KeyInv, LabelInv, Usable
  <2>2. LabelInv'
    BY <2>1 DEF KeyInv, LabelInv
  <2> QED  BY <2>1, <2>2 DEF KeyInv, Usable
<1>5. ASSUME NEW r \in Requests, StoreKeys(r)  PROVE KeyInv'
  <2>1. /\ UNCHANGED <<jwks_file, stamp, calm>>
        /\ cache' = [loaded_at |-> stamp[r], keys |-> fresh[r]]
        /\ \A s \in Requests : s # r => pc'[s] = pc[s] /\ fresh'[s] = fresh[s]
        /\ pc'[r] = "decide" /\ pc[r] = "store_keys"
        /\ DOMAIN pc' = Requests /\ DOMAIN fresh' = Requests
    BY <1>5 DEF StoreKeys, Goto, KeyInv, LabelInv
  <2>2. LabelInv'
    BY <2>1 DEF KeyInv, LabelInv
  <2>3. \A s \in Requests : calm[s] /\ Usable => fresh[r] = jwks_file.keys
    BY <2>1 DEF KeyInv
  <2> QED  BY <2>1, <2>2, <2>3 DEF KeyInv, Usable
<1>6. CASE RotateFile
  <2>1. /\ UNCHANGED <<cache, stamp, fresh, pc>>
        /\ jwks_file'.version = jwks_file.version + 1
        /\ calm' = [r \in Requests |-> FALSE]
    BY <1>6 DEF RotateFile, requestVars
  <2>2. LabelInv'
    BY <2>1 DEF KeyInv, LabelInv
  <2>3. /\ cache.loaded_at # jwks_file'.version
        /\ \A r \in Requests : pc[r] = "store_keys" => stamp[r] # jwks_file'.version
    BY <2>1 DEF KeyInv, LabelInv
  <2> QED  BY <2>1, <2>2, <2>3 DEF KeyInv
<1>7. ASSUME NEW r \in Requests, Decide(r)  PROVE KeyInv'
  <2>1. /\ UNCHANGED <<jwks_file, cache, fresh>>
        /\ \A s \in Requests : s # r =>
               pc'[s] = pc[s] /\ stamp'[s] = stamp[s] /\ calm'[s] = calm[s]
        /\ pc'[r] \in {"answered", "clock", "serve"}
        /\ stamp'[r] = Absent /\ ~calm'[r]
        /\ DOMAIN pc' = Requests /\ DOMAIN stamp' = Requests /\ DOMAIN calm' = Requests
    BY <1>7 DEF Decide, Goto, Answer, KeyInv, LabelInv
  <2>2. LabelInv'
    BY <2>1 DEF KeyInv, LabelInv
  <2> QED  BY <2>1, <2>2 DEF KeyInv, Usable
<1>8. ASSUME NEW r \in Requests, Arrive(r) \/ AskClock(r) \/ Limit(r) \/ Away(r)
      PROVE  KeyInv'
  <2>1. CASE Arrive(r)
    BY <2>1, Arrival, KeyAside
  <2>2. CASE AskClock(r) \/ Limit(r)
    BY <2>2, KeyAside DEF AskClock, Limit, Goto, Answer
  <2>3. CASE Away(r)
    BY <2>3, KeyAside DEF Away, AwayPoints, Reading
  <2> QED  BY <1>8, <2>1, <2>2, <2>3
<1>9. CASE TimePasses \/ UNCHANGED vars
  BY <1>9 DEF TimePasses, vars, requestVars, authVars, KeyInv, LabelInv, Usable
<1> QED  BY <1>1, <1>2, <1>3, <1>4, <1>5, <1>6, <1>7, <1>8, <1>9, HandlersAreAway
         DEF Next, Authenticates

\* A request whose look at the key file was followed by no rewrite, and met no
\* older reload about to store, is decided by the keys that are in the file,
\* however many requests reload it at once (reload_if_changed, principal.rs:370).
THEOREM DecisionsUseTheFile == Spec => []DecidesByCurrentKeys
<1>1. Init => CallInv /\ KeyInv
  BY CallStarts, KeyStarts
<1>2. CallInv /\ KeyInv /\ [Next]_vars => (CallInv /\ KeyInv)'
  BY CallStep, KeyStep
<1>3. KeyInv => DecidesByCurrentKeys
  BY DEF KeyInv, DecidesByCurrentKeys, Usable
<1> QED  BY <1>1, <1>2, <1>3, PTL DEF Spec

-----------------------------------------------------------------------------
(* Requests point by point. *)

ReloadsKeys == {"stat", "compare", "restat", "read_keys", "store_keys"}

\* What each point says of its request.
RequestInv ==
    /\ DOMAIN answer = Requests
    /\ \A r \in Requests :
        /\ pc[r] \in Points
        /\ pc[r] = "idle" <=> call[r] = None
        /\ pc[r] = "answered" <=> answer[r] # None
        /\ pc[r] \in ReloadsKeys => server.provider.kind = "jwks"
        /\ pc[r] \in {"bucket", "meter"} => who[r].tenant \in Tenants
        /\ pc[r] = "serve" /\ call[r].op \notin Open => who[r].tenant \in Tenants
        /\ pc[r] = "render" => call[r].op \in Open

\* Only keys that could be used are ever on their way to the cache.
FileInv ==
    /\ jwks_file.version \in 1 .. MaxVersions
    /\ jwks_file.keys \in KeySets \cup {Unusable, Absent}
    /\ cache.loaded_at \in 1 .. MaxVersions
    /\ cache.keys \in IF server.provider.kind = "jwks" THEN KeySets ELSE {Absent}
    /\ \A r \in Requests :
        /\ stamp[r] # Absent => stamp[r] \in 1 .. MaxVersions
        /\ pc[r] = "store_keys" <=> fresh[r] # Absent
        /\ fresh[r] # Absent => fresh[r] \in KeySets

\* A reply has a status.
LEMMA StatusIsANumber ==
    ASSUME ProviderOK(server.provider), NEW c
    PROVE  PrincipalOf(c).status \in {200, 400, 401}
<1>1. \A token, key : JwtPrincipal(key, token).status \in {200, 401}
  BY DEF JwtPrincipal, Missing, Unauthorized, Refusal, ClaimsPrincipal, Principal
<1>2. \A keys, token : JwksPrincipal(keys, token).status \in {200, 401}
  BY DEF JwksPrincipal, Unauthorized, Refusal, ClaimsPrincipal, Principal
<1>3. \A keys : HeaderPrincipal(keys, c).status \in {200, 400, 401}
  BY DEF HeaderPrincipal, Unauthorized, Missing, Invalid, Refusal, Principal
<1>4. CASE server.provider.kind = "headers"
  BY <1>3, <1>4 DEF PrincipalOf
<1>5. CASE server.provider.kind = "jwt"
  <2>1. PICK key : PrincipalOf(c) = JwtPrincipal(key, c.token)
    BY <1>5 DEF PrincipalOf
  <2> QED  BY <1>1, <2>1
<1>6. CASE server.provider.kind = "jwks"
  <2>1. PrincipalOf(c) = IF c.token = None THEN Missing ELSE JwksPrincipal(cache.keys, c.token)
    BY <1>6 DEF PrincipalOf
  <2>2. Missing.status = 401
    BY DEF Missing, Unauthorized, Refusal
  <2> QED  BY <1>2, <2>1, <2>2
<1> QED  BY <1>4, <1>5, <1>6 DEF ProviderOK, Kinds

\* A step of request r to another point, with what it writes of its own.
Moves(r) ==
    /\ server' = server
    /\ DOMAIN call' = Requests /\ DOMAIN who' = Requests
    /\ DOMAIN answer' = Requests /\ DOMAIN pc' = Requests
    /\ \A s \in Requests \ {r} :
           pc'[s] = pc[s] /\ call'[s] = call[s] /\ who'[s] = who[s] /\ answer'[s] = answer[s]

\* Where a step may lead, of the handlers and of those that come before them.
LEMMA StepsMove ==
    ASSUME CallInv, RequestInv, NEW r \in Requests,
           \/ Arrive(r) \/ Reply(r) \/ HangUp(r) \/ Panic(r) \/ Authenticates(r) \/ Decide(r)
           \/ AskClock(r) \/ Limit(r) \/ Handles(r)
    PROVE  Moves(r) /\ RequestInv'
<1> DEFINE Good ==
        /\ pc'[r] \in Points
        /\ pc'[r] = "idle" <=> call'[r] = None
        /\ pc'[r] = "answered" <=> answer'[r] # None
        /\ pc'[r] \in ReloadsKeys => server.provider.kind = "jwks"
        /\ pc'[r] \in {"bucket", "meter"} => who'[r].tenant \in Tenants
        /\ pc'[r] = "serve" /\ call'[r].op \notin Open => who'[r].tenant \in Tenants
        /\ pc'[r] = "render" => call'[r].op \in Open
<1> USE DEF Points, Reading, ReloadsKeys
<1>0. /\ DOMAIN pc = Requests /\ DOMAIN call = Requests /\ DOMAIN who = Requests
      /\ DOMAIN answer = Requests
  BY DEF CallInv, RequestInv
<1>1. CASE Arrive(r)
  <2>1. PICK c \in Calls[server.provider.kind],
             p \in {"answered", "serve", "stat", "decide"} :
            /\ call' = [call EXCEPT ![r] = c]
            /\ pc' = [pc EXCEPT ![r] = p]
            /\ answer' = IF p = "answered" THEN [answer EXCEPT ![r] = 400] ELSE answer
            /\ p = "serve" => c.op \in Open
            /\ p = "stat" => server.provider.kind = "jwks"
    BY <1>1, Arrival
  <2>2. server' = server /\ who' = who /\ pc[r] = "idle"
    BY <1>1, Arrival
  <2>3. c # None
    BY CallsAssumption DEF CallInv, ProviderOK, Kinds
  <2>4. answer[r] = None
    BY <2>2 DEF RequestInv
  <2>5. Moves(r) /\ Good
    BY <1>0, <2>1, <2>2, <2>3, <2>4, NoneAssumption DEF Moves
  <2> QED  BY <2>5 DEF Moves, RequestInv
<1>2. CASE Reply(r) \/ HangUp(r) \/ Panic(r)
  <2>1. Moves(r) /\ Good
    BY <1>0, <1>2 DEF Reply, HangUp, Panic, Forget, Goto, Moves
  <2> QED  BY <2>1 DEF Moves, RequestInv
<1>3. CASE Authenticates(r)
  <2>1. CASE Stat(r) \/ Compare(r)
    <3>1. Moves(r) /\ Good
      BY <1>0, <2>1 DEF Stat, Compare, Goto, Moves, RequestInv
    <3> QED  BY <3>1 DEF Moves, RequestInv
  <2>2. CASE Restat(r) \/ ReadKeys(r) \/ StoreKeys(r)
    <3>1. Moves(r) /\ Good
      BY <1>0, <2>2 DEF Restat, ReadKeys, StoreKeys, Goto, Moves, RequestInv
    <3> QED  BY <3>1 DEF Moves, RequestInv
  <2> QED  BY <1>3, <2>1, <2>2 DEF Authenticates
<1>4. CASE Decide(r)
  <2>1. call[r] \in Calls[server.provider.kind] /\ ProviderOK(server.provider)
    BY <1>4 DEF CallInv, Decide, Asking, ReloadPoints
  <2>2. PrincipalOf(call[r]).status = 200 => PrincipalOf(call[r]).tenant \in Tenants
    BY <2>1, PrincipalIsATenant
  <2>3. PrincipalOf(call[r]).status # None
    BY <2>1, StatusIsANumber, NoneAssumption
  <2>4. /\ server' = server /\ call' = call /\ pc[r] = "decide"
        /\ \E p \in {"answered", "clock", "serve"} :
               /\ pc' = [pc EXCEPT ![r] = p]
               /\ p = "answered" => \E status \in {403, PrincipalOf(call[r]).status} :
                                        answer' = [answer EXCEPT ![r] = status] /\ who' = who
               /\ p # "answered" =>
                      /\ who' = [who EXCEPT ![r] = PrincipalOf(call[r])]
                      /\ PrincipalOf(call[r]).status = 200
                      /\ answer' = answer
    BY <1>4 DEF Decide, Goto, Answer
  <2>5. Moves(r) /\ Good
    BY <1>0, <2>2, <2>3, <2>4, NoneAssumption DEF Moves, RequestInv
  <2> QED  BY <2>5 DEF Moves, RequestInv
<1>5. CASE AskClock(r) \/ Limit(r)
  <2>1. Moves(r) /\ Good
    BY <1>0, <1>5, NoneAssumption DEF AskClock, Limit, Goto, Answer, Moves, RequestInv, CallInv
  <2> QED  BY <2>1 DEF Moves, RequestInv
<1>6. CASE Handles(r)
  <2>1. CASE BeginQuery(r)
    <3>1. Moves(r) /\ Good
      BY <1>0, <2>1, NoneAssumption
         DEF BeginQuery, Asked, Goto, Answer, Open, Moves, RequestInv
    <3> QED  BY <3>1 DEF Moves, RequestInv
  <2>2. CASE Bucket(r) \/ Meter(r)
    <3>1. Moves(r) /\ Good
      BY <1>0, <2>2, NoneAssumption DEF Bucket, Meter, Goto, Answer, Moves, RequestInv
    <3> QED  BY <3>1 DEF Moves, RequestInv
  <2>3. CASE Insert(r) \/ Delete(r) \/ BadBody(r) \/ LogFails(r)
    <3>1. Moves(r) /\ Good
      BY <1>0, <2>3, NoneAssumption
         DEF Insert, Delete, BadBody, LogFails, Asked, Goto, Answer, Moves, RequestInv
    <3> QED  BY <3>1 DEF Moves, RequestInv
  <2>4. CASE Administer(r)
    <3>1. PICK status \in {200, 400, 404, 500} : Answer(r, status)
      BY <2>4 DEF Administer
    <3>2. UNCHANGED <<server, call, who>> /\ pc[r] = "serve"
      BY <2>4 DEF Administer
    <3>3. Moves(r) /\ Good
      BY <1>0, <3>1, <3>2, NoneAssumption DEF Goto, Answer, Moves, RequestInv
    <3> QED  BY <3>3 DEF Moves, RequestInv
  <2>5. CASE Scrape(r) \/ Render(r)
    <3>1. Moves(r) /\ Good
      BY <1>0, <2>5, NoneAssumption
         DEF Scrape, Render, Asked, Open, Goto, Answer, Moves, RequestInv
    <3> QED  BY <3>1 DEF Moves, RequestInv
  <2> QED  BY <1>6, <2>1, <2>2, <2>3, <2>4, <2>5 DEF Handles
<1> QED  BY <1>1, <1>2, <1>3, <1>4, <1>5, <1>6

LEMMA RequestStarts == Init => RequestInv
BY DEF Init, RequestInv, Points, ReloadsKeys

LEMMA RequestStep ==
    ASSUME CallInv, RequestInv, [Next]_vars
    PROVE  RequestInv'
<1>1. CASE RotateFile \/ TimePasses
  BY <1>1 DEF RotateFile, TimePasses, requestVars, RequestInv
<1>2. CASE UNCHANGED vars
  BY <1>2 DEF vars, requestVars, RequestInv
<1> QED  BY <1>1, <1>2, StepsMove DEF Next

-----------------------------------------------------------------------------
(* The key file and its copies. *)

LEMMA FileStarts == Init => FileInv
<1> SUFFICES ASSUME Init  PROVE FileInv
  OBVIOUS
<1>1. /\ jwks_file.version = 1 /\ cache.loaded_at = 1 /\ cache.keys = jwks_file.keys
      /\ jwks_file.keys \in IF server.provider.kind = "jwks" THEN KeySets ELSE {Absent}
  BY DEF Init, KeyFiles
<1> QED  BY <1>1, MaxVersionsAssumption DEF Init, FileInv

LEMMA FileAside ==
    ASSUME FileInv, UNCHANGED <<server, authVars>>, NEW r \in Requests,
           DOMAIN pc = Requests, NEW p, p # "store_keys", pc' = [pc EXCEPT ![r] = p],
           pc[r] # "store_keys"
    PROVE  FileInv'
<1>1. \A s \in Requests : pc'[s] = "store_keys" <=> pc[s] = "store_keys"
  OBVIOUS
<1> QED  BY <1>1 DEF FileInv, authVars

LEMMA FileStep ==
    ASSUME CallInv, KeyInv, RequestInv, FileInv, [Next]_vars
    PROVE  FileInv'
<1>0. /\ DOMAIN pc = Requests /\ DOMAIN stamp = Requests /\ DOMAIN fresh = Requests
  BY DEF KeyInv, LabelInv
<1>1. Mtime = Absent \/ Mtime \in 1 .. MaxVersions
  BY DEF Mtime, FileInv
<1>2. ASSUME NEW r \in Requests, Stat(r)  PROVE FileInv'
  BY <1>0, <1>1, <1>2 DEF Stat, Goto, FileInv
<1>3. ASSUME NEW r \in Requests, Compare(r)  PROVE FileInv'
  BY <1>0, <1>3, FileAside DEF Compare, Goto
<1>4. ASSUME NEW r \in Requests, Restat(r)  PROVE FileInv'
  BY <1>0, <1>1, <1>4 DEF Restat, Goto, FileInv
<1>5. ASSUME NEW r \in Requests, ReadKeys(r)  PROVE FileInv'
  <2>1. /\ UNCHANGED <<server, jwks_file, cache, stamp>>
        /\ pc[r] = "read_keys"
        /\ \A s \in Requests : s # r => pc'[s] = pc[s] /\ fresh'[s] = fresh[s]
        /\ pc'[r] = (IF jwks_file.keys \in KeySets THEN "store_keys" ELSE "decide")
        /\ fresh'[r] = (IF jwks_file.keys \in KeySets THEN jwks_file.keys ELSE Absent)
    BY <1>0, <1>5 DEF ReadKeys, Goto
  <2> QED  BY <2>1, KeySetsAssumption DEF FileInv
<1>6. ASSUME NEW r \in Requests, StoreKeys(r)  PROVE FileInv'
  <2>1. /\ UNCHANGED <<server, jwks_file, stamp>>
        /\ pc[r] = "store_keys"
        /\ \A s \in Requests : s # r => pc'[s] = pc[s] /\ fresh'[s] = fresh[s]
        /\ pc'[r] = "decide" /\ fresh'[r] = Absent
        /\ cache' = [loaded_at |-> stamp[r], keys |-> fresh[r]]
    BY <1>0, <1>6 DEF StoreKeys, Goto
  <2>2. server.provider.kind = "jwks" /\ stamp[r] # Absent
    BY <2>1 DEF RequestInv, ReloadsKeys, KeyInv, LabelInv
  <2>3. fresh[r] \in KeySets /\ stamp[r] \in 1 .. MaxVersions
    BY <2>1, <2>2 DEF FileInv
  <2> QED  BY <2>1, <2>2, <2>3 DEF FileInv
<1>7. CASE RotateFile
  BY <1>7, MaxVersionsAssumption DEF RotateFile, requestVars, FileInv
<1>8. ASSUME NEW r \in Requests, Decide(r)  PROVE FileInv'
  <2>1. /\ UNCHANGED <<server, jwks_file, cache, fresh>>
        /\ \A s \in Requests : s # r => pc'[s] = pc[s] /\ stamp'[s] = stamp[s]
        /\ pc[r] = "decide" /\ pc'[r] \in {"answered", "clock", "serve"}
        /\ stamp'[r] = Absent
    BY <1>0, <1>8 DEF Decide, Goto, Answer
  <2> QED  BY <2>1 DEF FileInv
<1>9. ASSUME NEW r \in Requests, Arrive(r) \/ AskClock(r) \/ Limit(r) \/ Away(r)
      PROVE  FileInv'
  <2>1. CASE Arrive(r)
    BY <1>0, <2>1, Arrival, FileAside
  <2>2. CASE AskClock(r) \/ Limit(r)
    BY <1>0, <2>2, FileAside DEF AskClock, Limit, Goto, Answer
  <2>3. CASE Away(r)
    BY <1>0, <2>3, FileAside DEF Away, AwayPoints, Reading
  <2> QED  BY <1>9, <2>1, <2>2, <2>3
<1>10. CASE TimePasses \/ UNCHANGED vars
  BY <1>10 DEF TimePasses, vars, requestVars, authVars, FileInv
<1> QED  BY <1>2, <1>3, <1>4, <1>5, <1>6, <1>7, <1>8, <1>9, <1>10, HandlersAreAway
         DEF Next, Authenticates

-----------------------------------------------------------------------------
(* Numbers. *)

\* What holds of 0, and of n + 1 where it holds of n, holds of every number.
LEMMA Induction ==
    ASSUME NEW H \in SUBSET Nat, 0 \in H, \A n \in H : n + 1 \in H
    PROVE  H = Nat
<1> SUFFICES ASSUME Nat \ H # {}  PROVE FALSE
  OBVIOUS
<1>1. PICK m \in Nat \ H : \A n \in Nat \ H : m <= n
  BY LeastNat
<1>2. m # 0 /\ m - 1 \in Nat
  BY <1>1
<1>3. m - 1 \in H
  BY <1>1, <1>2
<1> QED  BY <1>1, <1>2, <1>3

-----------------------------------------------------------------------------
(* Sums, as the folds of the community modules take them.  The sum of the  *)
(* subsets of S is a recursive function; that there is one, and what it    *)
(* does to sets that differ in an element, is by induction on their size.  *)

Chosen(s) == CHOOSE x \in s : TRUE

\* One step of the fold.
Step(v, g, s) == IF s = {} THEN 0 ELSE v[Chosen(s)] + g[s \ {Chosen(s)}]

IsFold(v, S, g) == g = [s \in SUBSET S |-> Step(v, g, s)]

Partial(v, S) == CHOOSE g : IsFold(v, S, g)

Total(v, S) == Partial(v, S)[S]

LEMMA ChosenIsIn == ASSUME NEW s, s # {} PROVE Chosen(s) \in s
BY DEF Chosen

\* Taking an element away.
LEMMA OneLess ==
    ASSUME NEW s, IsFiniteSet(s), NEW x \in s
    PROVE  /\ IsFiniteSet(s \ {x})
           /\ Cardinality(s) \in Nat \ {0}
           /\ Cardinality(s \ {x}) = Cardinality(s) - 1
<1>1. Cardinality(s) \in Nat
  BY FS_CardinalityType
<1>2. IsFiniteSet(s \ {x}) /\ Cardinality(s \ {x}) = Cardinality(s) - 1
  BY FS_RemoveElement
<1>3. Cardinality(s) # 0
  BY FS_EmptySet
<1> QED  BY <1>1, <1>2, <1>3

\* The fold's recursion is well founded.
LEMMA PartialIsFold ==
    ASSUME NEW v, NEW S, IsFiniteSet(S)
    PROVE  IsFold(v, S, Partial(v, S))
<1> DEFINE Good(g, n) == \A s \in SUBSET S : Cardinality(s) <= n => g[s] = Step(v, g, s)
           H == {n \in Nat : \E g : g = [s \in SUBSET S |-> g[s]] /\ Good(g, n)}
<1>0. \A s \in SUBSET S : IsFiniteSet(s) /\ Cardinality(s) \in Nat
  BY FS_Subset, FS_CardinalityType
<1>1. 0 \in H
  <2> DEFINE g == [s \in SUBSET S |-> 0]
  <2>1. \A s \in SUBSET S : Cardinality(s) <= 0 => s = {}
    BY <1>0, FS_EmptySet
  <2>2. Good(g, 0)
    BY <2>1 DEF Step
  <2> QED  BY <2>2
<1>2. \A n \in H : n + 1 \in H
  <2> TAKE n \in H
  <2>1. PICK g : g = [s \in SUBSET S |-> g[s]] /\ Good(g, n)
    OBVIOUS
  <2> DEFINE h == [s \in SUBSET S |-> IF Cardinality(s) <= n THEN g[s] ELSE Step(v, g, s)]
  <2>2. Good(h, n + 1)
    <3> SUFFICES ASSUME NEW s \in SUBSET S, Cardinality(s) <= n + 1  PROVE h[s] = Step(v, h, s)
      OBVIOUS
    <3>1. h[s] = Step(v, g, s)
      BY <2>1
    <3>2. CASE s = {}
      BY <3>1, <3>2 DEF Step
    <3>3. CASE s # {}
      <4>1. Chosen(s) \in s
        BY <3>3, ChosenIsIn
      <4>2. Cardinality(s \ {Chosen(s)}) <= n /\ s \ {Chosen(s)} \in SUBSET S
        BY <1>0, <4>1, OneLess
      <4>3. h[s \ {Chosen(s)}] = g[s \ {Chosen(s)}]
        BY <4>2
      <4> HIDE DEF h
      <4> QED  BY <3>1, <4>3 DEF Step
    <3> QED  BY <3>2, <3>3
  <2>3. h = [s \in SUBSET S |-> h[s]]
    OBVIOUS
  <2> HIDE DEF h, Good
  <2>4. \E f : f = [s \in SUBSET S |-> f[s]] /\ Good(f, n + 1)
    BY <2>2, <2>3, Zenon
  <2> QED  BY <2>4
<1>3. Cardinality(S) \in H
  <2>1. H \in SUBSET Nat
    OBVIOUS
  <2> HIDE DEF H
  <2>2. H = Nat
    BY <1>1, <1>2, <2>1, Induction
  <2> QED  BY <1>0, <2>2
<1>4. PICK g : g = [s \in SUBSET S |-> g[s]] /\ Good(g, Cardinality(S))
  BY <1>3
<1>5. \A s \in SUBSET S : Cardinality(s) <= Cardinality(S)
  BY FS_Subset
<1>6. IsFold(v, S, g)
  BY <1>4, <1>5, Zenon DEF IsFold
<1> QED  BY <1>6, Zenon DEF Partial

LEMMA PartialStep ==
    ASSUME NEW v, NEW S, IsFiniteSet(S)
    PROVE  \A s \in SUBSET S : Partial(v, S)[s] = Step(v, Partial(v, S), s)
<1> DEFINE g == Partial(v, S)
<1>1. IsFold(v, S, g)
  BY PartialIsFold
<1> HIDE DEF g
<1>2. \A s \in SUBSET S : g[s] = Step(v, g, s)
  BY <1>1, Zenon DEF IsFold
<1> QED  BY <1>2 DEF g

\* Sums of numbers are numbers.
LEMMA PartialType ==
    ASSUME NEW v, NEW S, IsFiniteSet(S), \A x \in S : v[x] \in Nat
    PROVE  \A s \in SUBSET S : Partial(v, S)[s] \in Nat
<1> DEFINE g == Partial(v, S)
           H == {n \in Nat : \A s \in SUBSET S : Cardinality(s) = n => g[s] \in Nat}
<1>0. \A s \in SUBSET S : IsFiniteSet(s) /\ Cardinality(s) \in Nat
  BY FS_Subset, FS_CardinalityType
<1>1. \A s \in SUBSET S : g[s] = Step(v, g, s)
  BY PartialStep
<1> HIDE DEF g
<1>2. 0 \in H
  <2>1. \A s \in SUBSET S : Cardinality(s) = 0 => s = {}
    BY <1>0, FS_EmptySet
  <2>2. g[{}] = 0
    BY <1>1 DEF Step
  <2> QED  BY <2>1, <2>2
<1>3. \A n \in H : n + 1 \in H
  <2> TAKE n \in H
  <2> SUFFICES ASSUME NEW s \in SUBSET S, Cardinality(s) = n + 1  PROVE g[s] \in Nat
    OBVIOUS
  <2>1. s # {}
    BY FS_EmptySet
  <2>2. Chosen(s) \in s
    BY <2>1, ChosenIsIn
  <2>3. Cardinality(s \ {Chosen(s)}) = n
    BY <1>0, <2>2, OneLess
  <2>4. g[s \ {Chosen(s)}] \in Nat
    BY <2>3
  <2> QED  BY <1>1, <2>1, <2>2, <2>4 DEF Step
<1>4. H = Nat
  <2>1. H \in SUBSET Nat
    OBVIOUS
  <2> HIDE DEF H
  <2> QED  BY <1>2, <1>3, <2>1, Induction
<1> QED  BY <1>0, <1>4 DEF g

\* It does not matter which element is added last.
LEMMA PartialRemove ==
    ASSUME NEW v, NEW S, IsFiniteSet(S), \A x \in S : v[x] \in Nat,
           NEW U \in SUBSET S, NEW e \in U
    PROVE  Partial(v, S)[U] = v[e] + Partial(v, S)[U \ {e}]
<1> DEFINE g == Partial(v, S)
           H == {n \in Nat : \A s \in SUBSET S : Cardinality(s) = n =>
                                \A x \in s : g[s] = v[x] + g[s \ {x}]}
<1>0. \A s \in SUBSET S : IsFiniteSet(s) /\ Cardinality(s) \in Nat
  BY FS_Subset, FS_CardinalityType
<1>1. \A s \in SUBSET S : g[s] = Step(v, g, s)
  BY PartialStep
<1>5. \A s \in SUBSET S : g[s] \in Nat
  BY PartialType
<1> HIDE DEF g
<1>2. 0 \in H
  <2>1. \A s \in SUBSET S : Cardinality(s) = 0 => s = {}
    BY <1>0, FS_EmptySet
  <2> QED  BY <2>1
<1>3. \A n \in H : n + 1 \in H
  <2> TAKE n \in H
  <2> SUFFICES ASSUME NEW s \in SUBSET S, Cardinality(s) = n + 1, NEW x \in s
               PROVE  g[s] = v[x] + g[s \ {x}]
    OBVIOUS
  <2>1. PICK c : c = Chosen(s)
    OBVIOUS
  <2>2. c \in s
    BY <2>1, ChosenIsIn
  <2>3. g[s] = v[c] + g[s \ {c}]
    BY <1>1, <2>1 DEF Step
  <2>4. CASE c = x
    BY <2>3, <2>4
  <2>5. CASE c # x
    <3>1. /\ s \ {c} \in SUBSET S /\ Cardinality(s \ {c}) = n /\ x \in s \ {c}
          /\ s \ {x} \in SUBSET S /\ Cardinality(s \ {x}) = n /\ c \in s \ {x}
      BY <1>0, <2>2, <2>5, OneLess
    <3>2. g[s \ {c}] = v[x] + g[(s \ {c}) \ {x}]
      BY <3>1
    <3>3. g[s \ {x}] = v[c] + g[(s \ {x}) \ {c}]
      BY <3>1
    <3>4. PICK rest \in SUBSET S : rest = (s \ {c}) \ {x} /\ rest = (s \ {x}) \ {c}
      <4>1. (s \ {c}) \ {x} \in SUBSET S /\ (s \ {c}) \ {x} = (s \ {x}) \ {c}
        OBVIOUS
      <4> QED  BY <4>1
    <3>5. g[rest] \in Nat /\ v[c] \in Nat /\ v[x] \in Nat
      BY <1>5, <2>2
    <3>6. g[s \ {c}] = v[x] + g[rest] /\ g[s \ {x}] = v[c] + g[rest]
      BY <3>2, <3>3, <3>4
    <3> QED  BY <2>3, <3>5, <3>6
  <2> QED  BY <2>4, <2>5
<1>4. H = Nat
  <2>1. H \in SUBSET Nat
    OBVIOUS
  <2> HIDE DEF H
  <2> QED  BY <1>2, <1>3, <2>1, Induction
<1> QED  BY <1>0, <1>4 DEF g

\* A sum depends on what is summed.
LEMMA PartialAgree ==
    ASSUME NEW v, NEW S, IsFiniteSet(S), NEW w, NEW T, IsFiniteSet(T),
           NEW U \in SUBSET (S \cap T), \A x \in U : v[x] = w[x]
    PROVE  Partial(v, S)[U] = Partial(w, T)[U]
<1> DEFINE g == Partial(v, S)
           h == Partial(w, T)
           H == {n \in Nat : \A s \in SUBSET U : Cardinality(s) = n => g[s] = h[s]}
<1>0. \A s \in SUBSET U : IsFiniteSet(s) /\ Cardinality(s) \in Nat
  <2>1. \A s \in SUBSET S : IsFiniteSet(s) /\ Cardinality(s) \in Nat
    BY FS_Subset, FS_CardinalityType
  <2> QED  BY <2>1
<1>1. \A s \in SUBSET U : g[s] = Step(v, g, s) /\ h[s] = Step(w, h, s)
  <2>1. \A s \in SUBSET S : g[s] = Step(v, g, s)
    BY PartialStep
  <2>2. \A s \in SUBSET T : h[s] = Step(w, h, s)
    BY PartialStep
  <2> HIDE DEF g, h
  <2> QED  BY <2>1, <2>2
<1> HIDE DEF g, h
<1>2. 0 \in H
  <2>1. \A s \in SUBSET U : Cardinality(s) = 0 => s = {}
    BY <1>0, FS_EmptySet
  <2> QED  BY <1>1, <2>1 DEF Step
<1>3. \A n \in H : n + 1 \in H
  <2> TAKE n \in H
  <2> SUFFICES ASSUME NEW s \in SUBSET U, Cardinality(s) = n + 1  PROVE g[s] = h[s]
    OBVIOUS
  <2>0. n \in Nat /\ IsFiniteSet(s) /\ Cardinality(s) = n + 1
    BY <1>0
  <2>1. s # {}
    BY <2>0, FS_EmptySet
  <2>2. Chosen(s) \in s
    BY <2>1, ChosenIsIn
  <2>3. Cardinality(s \ {Chosen(s)}) = n
    <3>1. Cardinality(s \ {Chosen(s)}) = Cardinality(s) - 1
      BY <2>0, <2>2, OneLess
    <3> QED  BY <2>0, <3>1
  <2>4. g[s \ {Chosen(s)}] = h[s \ {Chosen(s)}]
    <3>1. PICK r \in SUBSET U : r = s \ {Chosen(s)}
      OBVIOUS
    <3>2. Cardinality(r) = n
      BY <2>3, <3>1
    <3>3. g[r] = h[r]
      BY <3>2
    <3> QED  BY <3>1, <3>3
  <2>5. g[s] = v[Chosen(s)] + g[s \ {Chosen(s)}]
    BY <1>1, <2>1 DEF Step
  <2>6. h[s] = w[Chosen(s)] + h[s \ {Chosen(s)}]
    BY <1>1, <2>1 DEF Step
  <2>7. v[Chosen(s)] = w[Chosen(s)]
    BY <2>2
  <2> QED  BY <2>4, <2>5, <2>6, <2>7
<1>4. H = Nat
  <2>1. H \in SUBSET Nat
    OBVIOUS
  <2> HIDE DEF H
  <2> QED  BY <1>2, <1>3, <2>1, Induction
<1> QED  BY <1>0, <1>4 DEF g, h

\* A function that takes the same steps is the same function.
LEMMA PartialUnique ==
    ASSUME NEW v, NEW S, IsFiniteSet(S), NEW h,
           \A s \in SUBSET S : h[s] = Step(v, h, s)
    PROVE  h[S] = Partial(v, S)[S]
<1> DEFINE g == Partial(v, S)
           H == {n \in Nat : \A s \in SUBSET S : Cardinality(s) = n => g[s] = h[s]}
<1>0. \A s \in SUBSET S : IsFiniteSet(s) /\ Cardinality(s) \in Nat
  BY FS_Subset, FS_CardinalityType
<1>1. \A s \in SUBSET S : g[s] = Step(v, g, s)
  BY PartialStep
<1> HIDE DEF g
<1>2. 0 \in H
  <2>1. \A s \in SUBSET S : Cardinality(s) = 0 => s = {}
    BY <1>0, FS_EmptySet
  <2>2. g[{}] = 0 /\ h[{}] = 0
    BY <1>1 DEF Step
  <2> QED  BY <2>1, <2>2
<1>3. \A n \in H : n + 1 \in H
  <2> TAKE n \in H
  <2> SUFFICES ASSUME NEW s \in SUBSET S, Cardinality(s) = n + 1  PROVE g[s] = h[s]
    OBVIOUS
  <2>0. n \in Nat /\ IsFiniteSet(s) /\ Cardinality(s) = n + 1
    BY <1>0
  <2>1. s # {}
    BY <2>0, FS_EmptySet
  <2>2. Chosen(s) \in s
    BY <2>1, ChosenIsIn
  <2>3. Cardinality(s \ {Chosen(s)}) = n
    <3>1. Cardinality(s \ {Chosen(s)}) = Cardinality(s) - 1
      BY <2>0, <2>2, OneLess
    <3> QED  BY <2>0, <3>1
  <2>4. g[s \ {Chosen(s)}] = h[s \ {Chosen(s)}]
    BY <2>3
  <2>5. g[s] = v[Chosen(s)] + g[s \ {Chosen(s)}]
    BY <1>1, <2>1 DEF Step
  <2>6. h[s] = v[Chosen(s)] + h[s \ {Chosen(s)}]
    BY <1>1, <2>1 DEF Step
  <2> QED  BY <2>4, <2>5, <2>6
<1>4. H = Nat
  <2>1. H \in SUBSET Nat
    OBVIOUS
  <2> HIDE DEF H
  <2> QED  BY <1>2, <1>3, <2>1, Induction
<1>5. Cardinality(S) \in Nat /\ S \in SUBSET S
  BY <1>0
<1> QED  BY <1>4, <1>5 DEF g

LEMMA TotalType ==
    ASSUME NEW v, NEW S, IsFiniteSet(S), \A x \in S : v[x] \in Nat
    PROVE  Total(v, S) \in Nat
BY PartialType DEF Total

LEMMA TotalOfNone == ASSUME NEW v  PROVE Total(v, {}) = 0
<1>1. Partial(v, {})[{}] = Step(v, Partial(v, {}), {})
  BY PartialStep, FS_EmptySet
<1> QED  BY <1>1 DEF Total, Step

\* An element and the rest.
LEMMA TotalRemove ==
    ASSUME NEW v, NEW S, IsFiniteSet(S), \A x \in S : v[x] \in Nat, NEW e \in S
    PROVE  Total(v, S) = v[e] + Total(v, S \ {e})
<1>1. Partial(v, S)[S] = v[e] + Partial(v, S)[S \ {e}]
  BY PartialRemove
<1>2. IsFiniteSet(S \ {e}) /\ S \ {e} \in SUBSET (S \cap (S \ {e}))
  BY FS_RemoveElement
<1>3. Partial(v, S)[S \ {e}] = Partial(v, S \ {e})[S \ {e}]
  BY <1>2, PartialAgree
<1> QED  BY <1>1, <1>3 DEF Total

LEMMA TotalAgree ==
    ASSUME NEW v, NEW w, NEW S, IsFiniteSet(S), \A x \in S : v[x] = w[x]
    PROVE  Total(v, S) = Total(w, S)
<1>1. S \in SUBSET (S \cap S)
  OBVIOUS
<1> QED  BY <1>1, PartialAgree DEF Total

\* One element changes.
LEMMA TotalBump ==
    ASSUME NEW v, NEW w, NEW S, IsFiniteSet(S), NEW x \in S,
           \A y \in S : v[y] \in Nat /\ w[y] \in Nat,
           \A y \in S \ {x} : v[y] = w[y]
    PROVE  Total(w, S) + v[x] = Total(v, S) + w[x]
<1>1. IsFiniteSet(S \ {x})
  BY FS_RemoveElement
<1>2. Total(v, S \ {x}) = Total(w, S \ {x})
  BY <1>1, TotalAgree
<1>3. Total(v, S \ {x}) \in Nat
  BY <1>1, TotalType
<1>4. Total(v, S) = v[x] + Total(v, S \ {x}) /\ Total(w, S) = w[x] + Total(w, S \ {x})
  BY TotalRemove
<1>5. v[x] \in Nat /\ w[x] \in Nat
  OBVIOUS
<1> QED  BY <1>2, <1>3, <1>4, <1>5

LEMMA TotalOfZeros ==
    ASSUME NEW v, NEW S, IsFiniteSet(S), \A x \in S : v[x] = 0
    PROVE  Total(v, S) = 0
<1> DEFINE h == [s \in SUBSET S |-> 0]
<1>1. ASSUME NEW s \in SUBSET S  PROVE h[s] = Step(v, h, s)
  <2>1. CASE s = {}
    BY <2>1 DEF Step
  <2>2. CASE s # {}
    <3>1. PICK c \in s : c = Chosen(s)
      BY <2>2, ChosenIsIn
    <3>2. h[s] = 0 /\ h[s \ {c}] = 0 /\ v[c] = 0
      OBVIOUS
    <3> QED  BY <2>2, <3>1, <3>2 DEF Step
  <2> QED  BY <2>1, <2>2
<1>2. h[S] = 0
  OBVIOUS
<1> HIDE DEF h
<1>3. h[S] = Partial(v, S)[S]
  BY <1>1, PartialUnique
<1> QED  BY <1>2, <1>3 DEF Total

-----------------------------------------------------------------------------
(* What the histogram and the usage rows add up to. *)

LEMMA HistogramIsTotal ==
    ASSUME NEW m
    PROVE  Histogram(m) = Total(m.buckets, DOMAIN m.buckets)
BY Zenon DEF Histogram, FoldFunction, FoldFunctionOnSet, MapThenFoldSet, Total, Partial, IsFold, Step,
             Chosen

\* A counter of all rows.
Column(rows, field) ==
    [t \in DOMAIN rows |-> IF field = "queries" THEN rows[t].queries ELSE rows[t].inserts]

Sum(rows, field) == Total(Column(rows, field), DOMAIN rows)

LEMMA BilledIsTotal ==
    ASSUME NEW rows, IsFiniteSet(DOMAIN rows)
    PROVE  /\ Billed(rows, LAMBDA row : row.queries) = Sum(rows, "queries")
           /\ Billed(rows, LAMBDA row : row.inserts) = Sum(rows, "inserts")
<1> DEFINE S == DOMAIN rows
<1>1. Billed(rows, LAMBDA row : row.queries) = Sum(rows, "queries")
  <2> DEFINE F(g, s) == IF s = {} THEN 0 ELSE rows[Chosen(s)].queries + g[s \ {Chosen(s)}]
             G == CHOOSE g : g = [s \in SUBSET S |-> F(g, s)]
             v == Column(rows, "queries")
  <2>1. Billed(rows, LAMBDA row : row.queries) = G[S]
    BY Zenon DEF Billed, FoldFunction, FoldFunctionOnSet, MapThenFoldSet, Chosen
  <2>2. \A s \in SUBSET S : s # {} => v[Chosen(s)] = rows[Chosen(s)].queries
    BY ChosenIsIn DEF Column
  <2>3. \A g, s : s \in SUBSET S => F(g, s) = Step(v, g, s)
    BY <2>2 DEF Step
  <2>4. IsFold(v, S, Partial(v, S))
    BY PartialIsFold
  <2> HIDE DEF F, v
  <2>5. Partial(v, S) = [s \in SUBSET S |-> F(Partial(v, S), s)]
    BY <2>3, <2>4 DEF IsFold
  <2>6. G = [s \in SUBSET S |-> F(G, s)]
    BY <2>5, Zenon
  <2> HIDE DEF G
  <2>7. \A s \in SUBSET S : G[s] = Step(v, G, s)
    BY <2>3, <2>6
  <2>8. G[S] = Partial(v, S)[S]
    BY <2>7, PartialUnique
  <2> QED  BY <2>1, <2>8 DEF Sum, Total, v
<1>2. Billed(rows, LAMBDA row : row.inserts) = Sum(rows, "inserts")
  <2> DEFINE F(g, s) == IF s = {} THEN 0 ELSE rows[Chosen(s)].inserts + g[s \ {Chosen(s)}]
             G == CHOOSE g : g = [s \in SUBSET S |-> F(g, s)]
             v == Column(rows, "inserts")
  <2>1. Billed(rows, LAMBDA row : row.inserts) = G[S]
    BY Zenon DEF Billed, FoldFunction, FoldFunctionOnSet, MapThenFoldSet, Chosen
  <2>2. \A s \in SUBSET S : s # {} => v[Chosen(s)] = rows[Chosen(s)].inserts
    BY ChosenIsIn DEF Column
  <2>3. \A g, s : s \in SUBSET S => F(g, s) = Step(v, g, s)
    BY <2>2 DEF Step
  <2>4. IsFold(v, S, Partial(v, S))
    BY PartialIsFold
  <2> HIDE DEF F, v
  <2>5. Partial(v, S) = [s \in SUBSET S |-> F(Partial(v, S), s)]
    BY <2>3, <2>4 DEF IsFold
  <2>6. G = [s \in SUBSET S |-> F(G, s)]
    BY <2>5, Zenon
  <2> HIDE DEF G
  <2>7. \A s \in SUBSET S : G[s] = Step(v, G, s)
    BY <2>3, <2>6
  <2>8. G[S] = Partial(v, S)[S]
    BY <2>7, PartialUnique
  <2> QED  BY <2>1, <2>8 DEF Sum, Total, v
<1> QED  BY <1>1, <1>2

-----------------------------------------------------------------------------
(* The usage table. *)

Row == [queries : Nat, returned : Nat, inserts : Nat, deletes : Nat]

SumOf(a, b) == [queries |-> a.queries + b.queries, returned |-> a.returned + b.returned,
                inserts |-> a.inserts + b.inserts, deletes |-> a.deletes + b.deletes]

LEMMA SumOfRows ==
    ASSUME NEW a \in Row, NEW b \in Row
    PROVE  /\ SumOf(a, b) \in Row
           /\ [field \in DOMAIN a |-> a[field] + b[field]] = SumOf(a, b)
BY DEF Row, SumOf

LEMMA NoUsageIsNothing == NoUsage \in Row /\ \A a \in Row : SumOf(NoUsage, a) = a
BY DEF NoUsage, Row, SumOf

TableFull(rows) == Cardinality(DOMAIN rows) >= MaxTracked

\* A tenant has a row of its own from its first operation on, or never: a row
\* is given while there is room, and none is ever taken away.
UsageInv(rows, given) ==
    /\ IsFiniteSet(DOMAIN rows) /\ DOMAIN rows \subseteq Tenants \cup {Other}
    /\ \A t \in DOMAIN rows : rows[t] \in Row
    /\ given \in [Tenants -> Row]
    /\ \/ Cardinality(DOMAIN rows) <= MaxTracked
       \/ Cardinality(DOMAIN rows) = MaxTracked + 1 /\ Other \in DOMAIN rows
    /\ \A t \in DOMAIN rows \ {Other} : rows[t] = given[t]
    /\ \A t \in Tenants \ DOMAIN rows : given[t] = NoUsage \/ TableFull(rows)

\* One tenant's row grown, in the books the log of answers keeps.
Credited(given, t, more) == [given EXCEPT ![t] = SumOf(given[t], more)]

\* One operation of a tenant, on the table and in its own account.
LEMMA UsageStep ==
    ASSUME NEW rows, NEW given, UsageInv(rows, given), NEW t \in Tenants, NEW more \in Row,
           NEW after, after = WithTenant(rows, t, more),
           NEW given2, given2 = Credited(given, t, more)
    PROVE  /\ UsageInv(after, given2)
           /\ Sum(after, "queries") = Sum(rows, "queries") + more.queries
           /\ Sum(after, "inserts") = Sum(rows, "inserts") + more.inserts
<1>1. PICK row : row = RowOf(rows, t)
  OBVIOUS
<1>2. row \in Tenants \cup {Other}
  BY <1>1 DEF RowOf
<1>3. PICK before : before = IF row \in DOMAIN rows THEN rows[row] ELSE NoUsage
  OBVIOUS
<1>4. before \in Row
  BY <1>3, NoUsageIsNothing DEF UsageInv
<1>5. /\ DOMAIN after = DOMAIN rows \cup {row}
      /\ after[row] = SumOf(before, more)
      /\ \A u \in DOMAIN rows : u # row => after[u] = rows[u]
  BY <1>1, <1>3 DEF WithTenant, SumOf
<1>6. SumOf(before, more) \in Row
  BY <1>4, SumOfRows
<1>7. IsFiniteSet(DOMAIN rows) /\ Cardinality(DOMAIN rows) \in Nat
  BY FS_CardinalityType DEF UsageInv
<1>8. IsFiniteSet(DOMAIN after)
  BY <1>5, <1>7, FS_AddElement
<1>9. \A u \in DOMAIN after : after[u] \in Row
  BY <1>5, <1>6 DEF UsageInv
<1>10. UsageInv(after, given2)
  <2>1. given2 \in [Tenants -> Row]
    BY SumOfRows DEF UsageInv, Credited
  <2>2. \A u \in Tenants \ {t} : given2[u] = given[u]
    BY DEF UsageInv, Credited
  <2>3. given2[t] = SumOf(given[t], more)
    BY DEF UsageInv, Credited
  <2>4. CASE row \in DOMAIN rows
    <3>1. DOMAIN after = DOMAIN rows
      BY <1>5, <2>4
    <3>2. \A u \in DOMAIN after \ {Other} : after[u] = given2[u]
      BY <1>1, <1>3, <1>5, <2>2, <2>3, <2>4, <3>1 DEF UsageInv, RowOf
    <3>3. \A u \in Tenants \ DOMAIN after : given2[u] = NoUsage \/ TableFull(after)
      BY <1>1, <2>2, <2>4, <3>1, MaxTrackedAssumption, <1>7 DEF UsageInv, RowOf, TableFull
    <3> QED  BY <1>8, <1>9, <2>1, <3>1, <3>2, <3>3 DEF UsageInv
  <2>5. CASE row \notin DOMAIN rows
    <3>1. Cardinality(DOMAIN after) = Cardinality(DOMAIN rows) + 1
      BY <1>5, <1>7, <2>5, FS_AddElement
    <3>2. after[row] = more
      <4>1. before = NoUsage
        BY <1>3, <2>5
      <4> QED  BY <4>1, <1>5, NoUsageIsNothing
    <3>3. row # Other => row = t /\ t \notin DOMAIN rows /\ ~TableFull(rows)
      BY <1>1, <1>7, <2>5, MaxTrackedAssumption DEF RowOf, TableFull
    <3>4. row # Other => given[t] = NoUsage /\ given2[t] = more
      BY <2>3, <3>3, NoUsageIsNothing DEF UsageInv
    <3>5. \A u \in DOMAIN after \ {Other} : after[u] = given2[u]
      <4> SUFFICES ASSUME NEW u \in DOMAIN after \ {Other}  PROVE after[u] = given2[u]
        OBVIOUS
      <4>1. CASE u = row
        BY <3>2, <3>3, <3>4, <4>1
      <4>2. CASE u # row
        <5>1. u \in DOMAIN rows /\ after[u] = given[u]
          BY <1>5, <4>2 DEF UsageInv
        <5>2. u # t \/ row = Other
          BY <3>3, <4>2
        <5>3. row = Other => t \notin DOMAIN rows \/ t = Other
          BY <1>1, <2>5 DEF RowOf
        <5>4. u # t
          BY <5>1, <5>2, <5>3
        <5>5. u \in Tenants
          BY <5>1 DEF UsageInv
        <5> QED  BY <2>2, <5>1, <5>4, <5>5
      <4> QED  BY <4>1, <4>2
    <3>6. \A u \in Tenants \ DOMAIN after : given2[u] = NoUsage \/ TableFull(after)
      <4> SUFFICES ASSUME NEW u \in Tenants \ DOMAIN after
                   PROVE  given2[u] = NoUsage \/ TableFull(after)
        OBVIOUS
      <4>1. u \notin DOMAIN rows
        BY <1>5
      <4>2. TableFull(rows) => TableFull(after)
        BY <1>7, <3>1, MaxTrackedAssumption DEF TableFull
      <4>3. CASE u # t
        BY <2>2, <4>1, <4>2, <4>3 DEF UsageInv
      <4>4. CASE u = t
        <5>1. row # t
          BY <1>5, <4>4
        <5>2. TableFull(rows)
          BY <1>1, <1>7, <5>1, MaxTrackedAssumption DEF RowOf, TableFull
        <5> QED  BY <4>2, <5>2
      <4> QED  BY <4>3, <4>4
    <3>7. \/ Cardinality(DOMAIN after) <= MaxTracked
          \/ Cardinality(DOMAIN after) = MaxTracked + 1 /\ Other \in DOMAIN after
      <4>1. CASE TableFull(rows)
        <5>1. row = Other
          BY <3>3, <4>1
        <5>2. Cardinality(DOMAIN rows) = MaxTracked
          BY <1>7, <2>5, <4>1, <5>1, MaxTrackedAssumption DEF TableFull, UsageInv
        <5> QED  BY <1>5, <3>1, <5>1, <5>2
      <4>2. CASE ~TableFull(rows)
        BY <1>7, <3>1, <4>2, MaxTrackedAssumption DEF TableFull
      <4> QED  BY <4>1, <4>2
    <3>8. DOMAIN after \subseteq Tenants \cup {Other}
      BY <1>2, <1>5 DEF UsageInv
    <3> QED  BY <1>8, <1>9, <2>1, <3>5, <3>6, <3>7, <3>8 DEF UsageInv
  <2> QED  BY <2>4, <2>5
<1>11. ASSUME NEW field \in {"queries", "inserts"}
       PROVE  Sum(after, field) = Sum(rows, field)
                  + (IF field = "queries" THEN more.queries ELSE more.inserts)
  <2> DEFINE v == Column(rows, field)
             w == Column(after, field)
             extra == IF field = "queries" THEN more.queries ELSE more.inserts
             S == DOMAIN rows
  <2>1. extra \in Nat
    BY DEF Row
  <2>2. \A u \in S : v[u] \in Nat
    BY DEF Column, UsageInv, Row
  <2>3. \A u \in DOMAIN after : w[u] \in Nat
    BY <1>9 DEF Column, Row
  <2>4. \A u \in S \ {row} : v[u] = w[u]
    BY <1>5 DEF Column
  <2>5. row \in S => w[row] = v[row] + extra
    BY <1>3, <1>5 DEF Column, SumOf
  <2>6. row \notin S => w[row] = extra
    BY <1>3, <1>5, NoUsageIsNothing DEF Column
  <2> HIDE DEF v, w, extra
  <2>7. CASE row \in S
    <3>1. DOMAIN after = S
      BY <1>5, <2>7
    <3>2. Total(w, S) + v[row] = Total(v, S) + w[row]
      BY <1>7, <2>2, <2>3, <2>4, <2>7, <3>1, TotalBump
    <3>3. Total(v, S) \in Nat /\ Total(w, S) \in Nat
      BY <1>7, <2>2, <2>3, <3>1, TotalType
    <3>4. Total(w, S) = Total(v, S) + extra
      BY <2>1, <2>2, <2>5, <2>7, <3>2, <3>3
    <3> QED  BY <3>1, <3>4 DEF Sum, v, w, extra
  <2>8. CASE row \notin S
    <3>1. row \in DOMAIN after /\ DOMAIN after \ {row} = S
      BY <1>5, <2>8
    <3>2. Total(w, DOMAIN after) = w[row] + Total(w, DOMAIN after \ {row})
      BY <1>8, <2>3, <3>1, TotalRemove
    <3>3. Total(v, S) = Total(w, S)
      BY <1>7, <2>4, <2>8, TotalAgree
    <3>4. Total(v, S) \in Nat
      BY <1>7, <2>2, TotalType
    <3>5. Total(w, DOMAIN after) = Total(v, S) + extra
      BY <2>1, <2>6, <2>8, <3>1, <3>2, <3>3, <3>4
    <3> QED  BY <3>5 DEF Sum, v, w, extra
  <2> QED  BY <2>7, <2>8
<1> QED  BY <1>10, <1>11

LEMMA SumsAreNumbers ==
    ASSUME NEW rows, NEW given, UsageInv(rows, given)
    PROVE  Sum(rows, "queries") \in Nat /\ Sum(rows, "inserts") \in Nat
<1>1. ASSUME NEW field \in {"queries", "inserts"}  PROVE Sum(rows, field) \in Nat
  <2>1. \A u \in DOMAIN rows : Column(rows, field)[u] \in Nat
    BY DEF UsageInv, Column, Row
  <2> QED  BY <2>1, TotalType DEF Sum, UsageInv
<1> QED  BY <1>1

-----------------------------------------------------------------------------
(* The counters. *)

Counters == [queries : Nat, returned : Nat, inserts : Nat, deletes : Nat,
             buckets : [DOMAIN BucketBounds -> Nat]]

LEMMA BucketsAreFew ==
    /\ IsFiniteSet(DOMAIN BucketBounds)
    /\ \A latency : BucketIndex(latency) \in DOMAIN BucketBounds
<1>1. PICK n \in Nat \ {0} : DOMAIN BucketBounds = 1 .. n
  BY BucketBoundsAssumption
<1>2. IsFiniteSet(1 .. n)
  BY FS_Interval
<1>3. ASSUME NEW latency  PROVE BucketIndex(latency) \in 1 .. n
  <2> DEFINE fits == {b \in 1 .. n : latency <= BucketBounds[b]}
  <2>1. BucketIndex(latency) = IF fits = {} THEN Max(1 .. n) ELSE Min(fits)
    BY <1>1 DEF BucketIndex
  <2>2. Max(1 .. n) \in 1 .. n
    <3>1. n \in 1 .. n /\ \A y \in 1 .. n : n >= y
      OBVIOUS
    <3> QED  BY <3>1 DEF Max
  <2>3. fits # {} => Min(fits) \in fits
    <3> SUFFICES ASSUME fits # {}  PROVE Min(fits) \in fits
      OBVIOUS
    <3>1. fits \in SUBSET Nat
      OBVIOUS
    <3> HIDE DEF fits
    <3>2. PICK m \in fits : \A y \in fits : m <= y
      BY <3>1, LeastNat
    <3> QED  BY <3>2 DEF Min
  <2> QED  BY <2>1, <2>2, <2>3
<1> QED  BY <1>1, <1>2, <1>3

\* One bucket more.
LEMMA HistogramCounts ==
    ASSUME NEW m \in Counters, NEW latency, NEW after, after = CountLatency(m, latency)
    PROVE  /\ after \in Counters
           /\ Histogram(m) \in Nat
           /\ Histogram(after) = Histogram(m) + 1
           /\ after.queries = m.queries /\ after.inserts = m.inserts
<1>1. PICK b \in DOMAIN BucketBounds : b = BucketIndex(latency)
  BY BucketsAreFew
<1>2. after = [m EXCEPT !.buckets = [m.buckets EXCEPT ![b] = m.buckets[b] + 1]]
  BY <1>1 DEF CountLatency, Counters
<1> DEFINE v == m.buckets
           w == [m.buckets EXCEPT ![b] = m.buckets[b] + 1]
           S == DOMAIN BucketBounds
<1>3. v \in [S -> Nat] /\ w \in [S -> Nat]
  BY DEF Counters
<1>4. /\ after \in Counters /\ after.buckets = w
      /\ after.queries = m.queries /\ after.inserts = m.inserts
  BY <1>2, <1>3 DEF Counters
<1>5. w[b] = v[b] + 1 /\ \A y \in S \ {b} : v[y] = w[y]
  BY <1>3
<1> HIDE DEF v, w
<1>6. IsFiniteSet(S)
  BY BucketsAreFew
<1>7. Total(v, S) \in Nat /\ Total(w, S) \in Nat
  BY <1>3, <1>6, TotalType
<1>8. Total(w, S) + v[b] = Total(v, S) + w[b]
  BY <1>3, <1>5, <1>6, TotalBump
<1>9. Total(w, S) = Total(v, S) + 1
  BY <1>3, <1>5, <1>7, <1>8
<1>10. Histogram(after) = Total(w, S)
  <2>1. DOMAIN after.buckets = S
    BY <1>3, <1>4
  <2> QED  BY <1>4, <2>1, HistogramIsTotal
<1>11. Histogram(m) = Total(v, S)
  <2>1. DOMAIN m.buckets = S
    BY DEF Counters
  <2> QED  BY <2>1, HistogramIsTotal DEF v
<1> QED  BY <1>4, <1>7, <1>9, <1>10, <1>11

\* The other counters leave the histogram alone.
LEMMA CountersCount ==
    ASSUME NEW m \in Counters, NEW n \in Nat, NEW after,
           after = CountQuery(m, n) \/ after = RecordInsert(m) \/ after = RecordDelete(m)
    PROVE  /\ after \in Counters
           /\ Histogram(after) = Histogram(m)
           /\ after = CountQuery(m, n) =>
                  after.queries = m.queries + 1 /\ after.inserts = m.inserts
           /\ after = RecordInsert(m) =>
                  after.queries = m.queries /\ after.inserts = m.inserts + 1
           /\ after = RecordDelete(m) =>
                  after.queries = m.queries /\ after.inserts = m.inserts
<1>1. after \in Counters /\ after.buckets = m.buckets
  <2>1. CASE after = CountQuery(m, n)
    <3>1. m.queries + 1 \in Nat /\ m.returned + n \in Nat
      BY DEF Counters
    <3>2. PICK asked \in Nat, told \in Nat :
            after = [m EXCEPT !.queries = asked, !.returned = told]
      BY <2>1, <3>1 DEF CountQuery
    <3> QED  BY <3>2 DEF Counters
  <2>2. CASE after = RecordInsert(m)
    BY <2>2 DEF RecordInsert, Counters
  <2>3. CASE after = RecordDelete(m)
    BY <2>3 DEF RecordDelete, Counters
  <2> QED  BY <2>1, <2>2, <2>3
<1>2. Histogram(after) = Histogram(m)
  BY <1>1, HistogramIsTotal
<1>3. after = CountQuery(m, n) => after.queries = m.queries + 1 /\ after.inserts = m.inserts
  BY DEF CountQuery, Counters
<1>4. after = RecordInsert(m) => after.queries = m.queries /\ after.inserts = m.inserts + 1
  BY DEF RecordInsert, Counters
<1>5. after = RecordDelete(m) => after.queries = m.queries /\ after.inserts = m.inserts
  BY DEF RecordDelete, Counters
<1> QED  BY <1>1, <1>2, <1>3, <1>4, <1>5

-----------------------------------------------------------------------------
(* How many requests are where. *)

Here(points) == {r \in Requests : pc[r] \in points}

LEMMA OneMoves ==
    ASSUME NEW points, NEW r \in Requests, IsFiniteSet(Here(points)),
           \A s \in Requests \ {r} : pc'[s] = pc[s]
    PROVE  /\ IsFiniteSet(Here(points)') /\ At(points)' \in Nat /\ At(points) \in Nat
           /\ pc[r] \notin points /\ pc'[r] \in points => At(points)' = At(points) + 1
           /\ pc[r] \in points /\ pc'[r] \notin points => At(points) = At(points)' + 1
           /\ (pc[r] \in points <=> pc'[r] \in points) => At(points)' = At(points)
<1> DEFINE A == Here(points)
           B == {s \in Requests : pc'[s] \in points}
<1>1. Here(points)' = B /\ At(points) = Cardinality(A) /\ At(points)' = Cardinality(B)
  BY DEF Here, At
<1>2. A \ {r} = B \ {r}
  BY DEF Here
<1>3. IsFiniteSet(A) /\ r \in Requests
  OBVIOUS
<1>4. /\ r \in A <=> pc[r] \in points
      /\ r \in B <=> pc'[r] \in points
  BY DEF Here
<1> HIDE DEF A, B
<1>5. CASE r \in A /\ r \in B
  <2>1. A = B
    BY <1>2, <1>5
  <2> QED  BY <1>1, <1>3, <1>4, <1>5, <2>1, FS_CardinalityType
<1>6. CASE r \notin A /\ r \notin B
  <2>1. A = B
    BY <1>2, <1>6
  <2> QED  BY <1>1, <1>3, <1>4, <1>6, <2>1, FS_CardinalityType
<1>7. CASE r \notin A /\ r \in B
  <2>1. B = A \cup {r}
    BY <1>2, <1>7
  <2>2. IsFiniteSet(B) /\ Cardinality(B) = Cardinality(A) + 1
    BY <1>3, <1>7, <2>1, FS_AddElement
  <2>3. Cardinality(A) \in Nat
    BY <1>3, FS_CardinalityType
  <2> QED  BY <1>1, <1>4, <1>7, <2>2, <2>3
<1>8. CASE r \in A /\ r \notin B
  <2>1. B = A \ {r}
    BY <1>2, <1>8
  <2>2. IsFiniteSet(B) /\ Cardinality(B) = Cardinality(A) - 1
    BY <1>3, <1>8, <2>1, FS_RemoveElement
  <2>3. Cardinality(A) \in Nat /\ Cardinality(B) \in Nat
    BY <1>3, <2>2, FS_CardinalityType
  <2> QED  BY <1>1, <1>4, <1>8, <2>2, <2>3
<1> QED  BY <1>5, <1>6, <1>7, <1>8

-----------------------------------------------------------------------------
(* What is counted, and where. *)

Counting == {"bucket", "meter"}

MeterInv ==
    /\ DOMAIN shown = Requests /\ \A r \in Requests : shown[r] \in Nat
    /\ server.replayed \in [inserts : Nat, deletes : Nat]
    /\ IsFiniteSet(DOMAIN owners) /\ Range(owners) \subseteq Tenants \cup {None}
    /\ metrics \in Counters
    /\ UsageInv(usage, served)
    /\ IsFiniteSet(Here(Counting))
    /\ metrics.queries = Histogram(metrics) + At({"bucket"})
    /\ metrics.queries = Sum(usage, "queries") + At(Counting)
    /\ metrics.inserts = server.replayed.inserts + Sum(usage, "inserts")
    /\ \A r \in Requests : pc[r] = "render" => shown[r] <= metrics.queries

LEMMA MeterImplies == MeterInv => Metered
<1> SUFFICES ASSUME MeterInv  PROVE Metered
  OBVIOUS
<1>1. /\ Billed(usage, LAMBDA row : row.queries) = Sum(usage, "queries")
      /\ Billed(usage, LAMBDA row : row.inserts) = Sum(usage, "inserts")
  BY BilledIsTotal DEF MeterInv, UsageInv
<1>2. Cardinality(DOMAIN usage) <= MaxTracked + 1
  <2>1. Cardinality(DOMAIN usage) \in Nat
    BY FS_CardinalityType DEF MeterInv, UsageInv
  <2> QED  BY <2>1, MaxTrackedAssumption DEF MeterInv, UsageInv
<1>3. \A t \in DOMAIN usage \ {Other} : usage[t] = served[t]
  BY DEF MeterInv, UsageInv
<1>4. \A r \in Requests : pc[r] = "render" => shown[r] <= Histogram(metrics) + At({"bucket"})
  BY DEF MeterInv
<1>5. /\ metrics.queries = Histogram(metrics) + At({"bucket"})
      /\ metrics.queries = Sum(usage, "queries") + At({"bucket", "meter"})
      /\ metrics.inserts = server.replayed.inserts + Sum(usage, "inserts")
  BY DEF MeterInv, Counting
<1> QED  BY <1>1, <1>2, <1>3, <1>4, <1>5, Zenon DEF Metered

LEMMA MeterStarts == Init => MeterInv
<1> SUFFICES ASSUME Init  PROVE MeterInv
  OBVIOUS
<1>0. server.replayed \in [inserts : Nat, deletes : Nat]
  <2>1. PICK env \in Environments, replayed \in Replays \cup {NoReplay} :
            server = AppState(env, replayed)
    BY DEF Init, Starts
  <2>2. server.replayed = replayed
    BY <2>1 DEF AppState
  <2> QED  BY <2>2, ReplaysAssumption DEF NoReplay
<1>1. metrics \in Counters /\ metrics.queries = 0 /\ metrics.inserts = server.replayed.inserts
  BY <1>0 DEF Init, NewMetrics, Counters
<1>2. Histogram(metrics) = 0
  <2> DEFINE v == metrics.buckets
             S == DOMAIN BucketBounds
  <2>1. DOMAIN v = S /\ \A b \in S : v[b] = 0
    BY DEF Init, NewMetrics
  <2>2. Histogram(metrics) = Total(v, S)
    BY <2>1, HistogramIsTotal
  <2> HIDE DEF v
  <2>3. Total(v, S) = 0
    BY <2>1, BucketsAreFew, TotalOfZeros
  <2> QED  BY <2>2, <2>3
<1>3. Here(Counting) = {} /\ Here({"bucket"}) = {}
  BY DEF Init, Here, Counting
<1>4. At(Counting) = 0 /\ At({"bucket"}) = 0 /\ IsFiniteSet(Here(Counting))
  <2>1. At(Counting) = Cardinality(Here(Counting)) /\ At({"bucket"}) = Cardinality(Here({"bucket"}))
    BY DEF At, Here
  <2> QED  BY <1>3, <2>1, FS_EmptySet
<1>5. DOMAIN usage = {}
  BY DEF Init
<1>6. UsageInv(usage, served)
  <2>1. IsFiniteSet(DOMAIN usage) /\ Cardinality(DOMAIN usage) = 0
    BY <1>5, FS_EmptySet
  <2>2. served = [t \in Tenants |-> NoUsage]
    BY DEF Init
  <2> QED  BY <1>5, <2>1, <2>2, NoUsageIsNothing, MaxTrackedAssumption DEF UsageInv
<1>7. Sum(usage, "queries") = 0 /\ Sum(usage, "inserts") = 0
  BY <1>5, TotalOfNone DEF Sum
<1>8. IsFiniteSet(DOMAIN owners) /\ Range(owners) \subseteq Tenants \cup {None}
  BY LoadedAssumption DEF Init
<1>9. /\ DOMAIN shown = Requests /\ \A r \in Requests : shown[r] \in Nat
      /\ \A r \in Requests : pc[r] # "render"
  BY DEF Init
<1> QED  BY <1>0, <1>1, <1>2, <1>4, <1>6, <1>7, <1>8, <1>9 DEF MeterInv

\* A step of r that counts nothing.  Only a scrape leads to "render".
Quiet(r) ==
    /\ UNCHANGED <<server, owners, metrics, usage, served>>
    /\ DOMAIN shown' = Requests
    /\ \A s \in Requests \ {r} : pc'[s] = pc[s] /\ shown'[s] = shown[s]
    /\ pc[r] \notin Counting /\ pc'[r] \notin Counting
    /\ shown'[r] \in {shown[r], 0, metrics.queries}
    /\ pc'[r] = "render" => shown'[r] = metrics.queries

LEMMA QuietSteps ==
    ASSUME CallInv, MeterInv, NEW r \in Requests,
           \/ Arrive(r) \/ Reply(r) \/ HangUp(r) \/ Panic(r) \/ Authenticates(r) \/ Decide(r)
           \/ AskClock(r) \/ Limit(r) \/ BadBody(r) \/ LogFails(r) \/ Administer(r)
           \/ Scrape(r) \/ Render(r)
    PROVE  Quiet(r)
<1> USE DEF Counting, storeVars
<1>0. DOMAIN pc = Requests /\ DOMAIN shown = Requests
  BY DEF CallInv, MeterInv
<1>1. CASE Arrive(r)
  BY <1>0, <1>1, Arrival DEF Quiet
<1>2. CASE Reply(r) \/ HangUp(r) \/ Panic(r)
  BY <1>0, <1>2 DEF Reply, HangUp, Panic, Forget, Goto, Quiet
<1>3. CASE Authenticates(r)
  <2>1. UNCHANGED <<server, storeVars, shown>>
    BY <1>3 DEF Authenticates, Stat, Compare, Restat, ReadKeys, StoreKeys
  <2>2. pc[r] \in Asking /\ \E p \in ReloadPoints : pc' = [pc EXCEPT ![r] = p]
    BY <1>3, ReloadMoves
  <2> QED  BY <1>0, <2>1, <2>2 DEF Quiet, Asking, ReloadPoints
<1>4. CASE Decide(r)
  BY <1>0, <1>4 DEF Decide, Goto, Answer, Quiet
<1>5. CASE AskClock(r) \/ Limit(r)
  BY <1>0, <1>5 DEF AskClock, Limit, Goto, Answer, Quiet
<1>6. CASE BadBody(r) \/ LogFails(r) \/ Administer(r)
  BY <1>0, <1>6 DEF BadBody, LogFails, Administer, Asked, Goto, Answer, Quiet
<1>7. CASE Scrape(r) \/ Render(r)
  BY <1>0, <1>7 DEF Scrape, Render, Asked, Goto, Answer, Quiet
<1> QED  BY <1>1, <1>2, <1>3, <1>4, <1>5, <1>6, <1>7

LEMMA QuietKeeps ==
    ASSUME MeterInv, NEW r \in Requests, Quiet(r)
    PROVE  MeterInv'
<1> USE DEF Counting
<1>1. \A points : points \subseteq Counting =>
          Here(points)' = Here(points) /\ At(points)' = At(points)
  BY DEF Quiet, Here, At
<1>2. /\ IsFiniteSet(Here(Counting)') /\ At(Counting)' = At(Counting)
      /\ At({"bucket"})' = At({"bucket"})
  BY <1>1 DEF MeterInv
<1>3. metrics.queries \in Nat
  BY DEF MeterInv, Counters
<1>4. /\ DOMAIN shown' = Requests /\ \A s \in Requests : shown'[s] \in Nat
      /\ \A s \in Requests : pc'[s] = "render" => shown'[s] <= metrics.queries
  BY <1>3 DEF Quiet, MeterInv
<1>5. /\ metrics' = metrics /\ usage' = usage /\ served' = served /\ owners' = owners
      /\ server' = server
  BY DEF Quiet
<1> HIDE DEF Counting
<1> QED  BY <1>2, <1>4, <1>5 DEF MeterInv

LEMMA FiniteHere == MeterInv => IsFiniteSet(Here({"bucket"}))
<1>1. Here({"bucket"}) \in SUBSET Here(Counting)
  BY DEF Here, Counting
<1> QED  BY <1>1, FS_Subset DEF MeterInv

\* A query is counted, before its latency and its tenant are.
LEMMA BeginKeeps ==
    ASSUME CallInv, MeterInv, NEW r \in Requests, BeginQuery(r)
    PROVE  MeterInv'
<1>0. DOMAIN pc = Requests /\ DOMAIN shown = Requests
  BY DEF CallInv, MeterInv
<1>1. CASE who[r].masks = BadNumber
  <2>1. Quiet(r)
    BY <1>0, <1>1 DEF BeginQuery, Asked, Answer, Goto, Quiet, Counting, storeVars
  <2> QED  BY <2>1, QuietKeeps
<1>2. CASE who[r].masks # BadNumber
  <2> DEFINE mine == {i \in DOMAIN owners : owners[i] = who[r].tenant}
  <2>1. Cardinality(mine) \in Nat
    <3>1. mine \in SUBSET DOMAIN owners
      OBVIOUS
    <3>2. IsFiniteSet(mine)
      BY <3>1, FS_Subset DEF MeterInv
    <3> QED  BY <3>2, FS_CardinalityType
  <2>2. PICK n \in 0 .. Cardinality(mine) :
            metrics' = CountQuery(metrics, n) /\ shown' = [shown EXCEPT ![r] = n]
    BY <1>2 DEF BeginQuery
  <2>3. n \in Nat
    BY <2>1, <2>2
  <2>4. /\ UNCHANGED <<server, owners, usage, served>>
        /\ pc[r] = "serve" /\ pc' = [pc EXCEPT ![r] = "bucket"]
    BY <1>2 DEF BeginQuery, Asked, Goto
  <2>5. /\ metrics' \in Counters /\ Histogram(metrics') = Histogram(metrics)
        /\ metrics'.queries = metrics.queries + 1 /\ metrics'.inserts = metrics.inserts
    BY <2>2, <2>3, CountersCount DEF MeterInv
  <2>6. /\ IsFiniteSet(Here(Counting)') /\ At(Counting)' = At(Counting) + 1
        /\ At(Counting) \in Nat
    BY <1>0, <2>4, OneMoves DEF Counting, MeterInv
  <2>7. At({"bucket"})' = At({"bucket"}) + 1 /\ At({"bucket"}) \in Nat
    BY <1>0, <2>4, OneMoves, FiniteHere
  <2>8. /\ Histogram(metrics) \in Nat /\ metrics.queries \in Nat
        /\ Sum(usage, "queries") \in Nat
    BY HistogramCounts, SumsAreNumbers DEF MeterInv, Counters
  <2>9. /\ DOMAIN shown' = Requests /\ \A s \in Requests : shown'[s] \in Nat
        /\ \A s \in Requests : pc'[s] = "render" => shown'[s] <= metrics'.queries
    BY <1>0, <2>2, <2>3, <2>4, <2>5, <2>8 DEF MeterInv
  <2>10. /\ metrics'.queries = Histogram(metrics') + At({"bucket"})'
         /\ metrics'.queries = Sum(usage, "queries") + At(Counting)'
    BY <2>5, <2>6, <2>7, <2>8 DEF MeterInv
  <2> QED  BY <2>4, <2>5, <2>6, <2>9, <2>10 DEF MeterInv
<1> QED  BY <1>1, <1>2

\* Its latency is counted.
LEMMA BucketKeeps ==
    ASSUME CallInv, MeterInv, NEW r \in Requests, Bucket(r)
    PROVE  MeterInv'
<1>0. DOMAIN pc = Requests /\ DOMAIN shown = Requests
  BY DEF CallInv, MeterInv
<1>1. PICK latency \in Latencies : metrics' = CountLatency(metrics, latency)
  BY DEF Bucket
<1>2. /\ UNCHANGED <<server, owners, usage, served, shown>>
      /\ pc[r] = "bucket" /\ pc' = [pc EXCEPT ![r] = "meter"]
  BY DEF Bucket, Goto
<1>3. /\ metrics' \in Counters
      /\ Histogram(metrics) \in Nat /\ Histogram(metrics') = Histogram(metrics) + 1
      /\ metrics'.queries = metrics.queries /\ metrics'.inserts = metrics.inserts
  BY <1>1, HistogramCounts DEF MeterInv
<1>4. /\ IsFiniteSet(Here(Counting)') /\ At(Counting)' = At(Counting)
  BY <1>0, <1>2, OneMoves DEF Counting, MeterInv
<1>5. /\ At({"bucket"}) = At({"bucket"})' + 1
      /\ At({"bucket"}) \in Nat /\ At({"bucket"})' \in Nat
  BY <1>0, <1>2, OneMoves, FiniteHere
<1>6. metrics'.queries = Histogram(metrics') + At({"bucket"})'
  BY <1>3, <1>5 DEF MeterInv
<1>7. \A s \in Requests : pc'[s] = "render" => pc[s] = "render"
  BY <1>0, <1>2
<1> QED  BY <1>2, <1>3, <1>4, <1>6, <1>7 DEF MeterInv

\* Its tenant is billed.
LEMMA MeterKeeps ==
    ASSUME CallInv, RequestInv, MeterInv, NEW r \in Requests, Meter(r)
    PROVE  MeterInv'
<1>0. DOMAIN pc = Requests /\ DOMAIN shown = Requests
  BY DEF CallInv, MeterInv
<1> DEFINE t == who[r].tenant
           more == [NoUsage EXCEPT !.queries = 1, !.returned = shown[r]]
<1>1. /\ UNCHANGED <<server, owners, metrics, shown>>
      /\ pc[r] = "meter" /\ pc' = [pc EXCEPT ![r] = "answered"]
      /\ usage' = WithTenant(usage, t, more)
      /\ served' = [served EXCEPT ![t] = [field \in DOMAIN @ |-> @[field] + more[field]]]
  BY DEF Meter, Goto, Answer, Tally, RecordQueryFor
<1>2. t \in Tenants
  BY <1>1 DEF RequestInv
<1>3. more \in Row /\ more.queries = 1 /\ more.inserts = 0
  BY DEF MeterInv, NoUsage, Row
<1> HIDE DEF t, more
<1>4. served' = [served EXCEPT ![t] = SumOf(served[t], more)]
  <2>1. served[t] \in Row
    BY <1>2 DEF MeterInv, UsageInv
  <2> QED  BY <1>1, <1>3, <2>1, SumOfRows
<1>5. /\ UsageInv(usage', served')
      /\ Sum(usage', "queries") = Sum(usage, "queries") + 1
      /\ Sum(usage', "inserts") = Sum(usage, "inserts") + 0
  <2>1. PICK rows, given : rows = usage /\ given = served
    OBVIOUS
  <2>2. PICK after, given2 : after = usage' /\ given2 = served'
    OBVIOUS
  <2>3. UsageInv(rows, given)
    BY <2>1 DEF MeterInv
  <2>4. PICK who0, more0 : who0 = t /\ more0 = more
    OBVIOUS
  <2>5. who0 \in Tenants /\ more0 \in Row
    BY <1>2, <1>3, <2>4
  <2>6. after = WithTenant(rows, who0, more0)
    BY <1>1, <2>1, <2>2, <2>4
  <2>7. given2 = Credited(given, who0, more0)
    BY <1>4, <2>1, <2>2, <2>4 DEF Credited
  <2>8. /\ UsageInv(after, given2)
        /\ Sum(after, "queries") = Sum(rows, "queries") + more0.queries
        /\ Sum(after, "inserts") = Sum(rows, "inserts") + more0.inserts
    BY <2>3, <2>5, <2>6, <2>7, UsageStep
  <2> QED  BY <1>3, <2>1, <2>2, <2>4, <2>8
<1>6. /\ IsFiniteSet(Here(Counting)') /\ At(Counting) = At(Counting)' + 1
      /\ At(Counting) \in Nat /\ At(Counting)' \in Nat
  BY <1>0, <1>1, OneMoves DEF Counting, MeterInv
<1>7. At({"bucket"})' = At({"bucket"})
  BY <1>0, <1>1, OneMoves, FiniteHere
<1>8. /\ Sum(usage, "queries") \in Nat /\ Sum(usage, "inserts") \in Nat
      /\ server.replayed.inserts \in Nat
  BY SumsAreNumbers DEF MeterInv
<1>9. /\ metrics.queries = Sum(usage', "queries") + At(Counting)'
      /\ metrics.inserts = server.replayed.inserts + Sum(usage', "inserts")
  BY <1>5, <1>6, <1>8 DEF MeterInv
<1>10. \A s \in Requests : pc'[s] = "render" => pc[s] = "render"
  BY <1>0, <1>1
<1> QED  BY <1>1, <1>5, <1>6, <1>7, <1>9, <1>10 DEF MeterInv

\* An insert is counted and billed at once.
LEMMA InsertKeeps ==
    ASSUME CallInv, RequestInv, MeterInv, NEW r \in Requests, Insert(r)
    PROVE  MeterInv'
<1>0. DOMAIN pc = Requests /\ DOMAIN shown = Requests
  BY DEF CallInv, MeterInv
<1> DEFINE t == who[r].tenant
           more == [NoUsage EXCEPT !.inserts = 1]
<1>1. /\ owners' = [owners EXCEPT ![call[r].id] = t]
      /\ metrics' = RecordInsert(metrics) /\ shown' = shown /\ server' = server
      /\ pc[r] = "serve" /\ call[r].op = "insert" /\ pc' = [pc EXCEPT ![r] = "answered"]
      /\ usage' = WithTenant(usage, t, more)
      /\ served' = [served EXCEPT ![t] = [field \in DOMAIN @ |-> @[field] + more[field]]]
  BY DEF Insert, Asked, Goto, Answer, Tally, RecordInsertFor
<1>2. t \in Tenants
  BY <1>1 DEF RequestInv, Open
<1>3. more \in Row /\ more.queries = 0 /\ more.inserts = 1
  BY DEF NoUsage, Row
<1> HIDE DEF t, more
<1>4. served' = [served EXCEPT ![t] = SumOf(served[t], more)]
  <2>1. served[t] \in Row
    BY <1>2 DEF MeterInv, UsageInv
  <2> QED  BY <1>1, <1>3, <2>1, SumOfRows
<1>5. /\ UsageInv(usage', served')
      /\ Sum(usage', "queries") = Sum(usage, "queries") + 0
      /\ Sum(usage', "inserts") = Sum(usage, "inserts") + 1
  <2>1. PICK rows, given : rows = usage /\ given = served
    OBVIOUS
  <2>2. PICK after, given2 : after = usage' /\ given2 = served'
    OBVIOUS
  <2>3. UsageInv(rows, given)
    BY <2>1 DEF MeterInv
  <2>4. PICK who0, more0 : who0 = t /\ more0 = more
    OBVIOUS
  <2>5. who0 \in Tenants /\ more0 \in Row
    BY <1>2, <1>3, <2>4
  <2>6. after = WithTenant(rows, who0, more0)
    BY <1>1, <2>1, <2>2, <2>4
  <2>7. given2 = Credited(given, who0, more0)
    BY <1>4, <2>1, <2>2, <2>4 DEF Credited
  <2>8. /\ UsageInv(after, given2)
        /\ Sum(after, "queries") = Sum(rows, "queries") + more0.queries
        /\ Sum(after, "inserts") = Sum(rows, "inserts") + more0.inserts
    BY <2>3, <2>5, <2>6, <2>7, UsageStep
  <2> QED  BY <1>3, <2>1, <2>2, <2>4, <2>8
<1>6. /\ metrics' \in Counters /\ Histogram(metrics') = Histogram(metrics)
      /\ metrics'.queries = metrics.queries /\ metrics'.inserts = metrics.inserts + 1
  BY <1>1, CountersCount DEF MeterInv
<1>7. IsFiniteSet(Here(Counting)') /\ At(Counting)' = At(Counting)
  BY <1>0, <1>1, OneMoves DEF Counting, MeterInv
<1>8. At({"bucket"})' = At({"bucket"})
  BY <1>0, <1>1, OneMoves, FiniteHere
<1>9. /\ Sum(usage, "queries") \in Nat /\ Sum(usage, "inserts") \in Nat
      /\ server.replayed.inserts \in Nat
  BY SumsAreNumbers DEF MeterInv
<1>10. /\ metrics'.queries = Sum(usage', "queries") + At(Counting)'
       /\ metrics'.inserts = server.replayed.inserts + Sum(usage', "inserts")
  BY <1>5, <1>6, <1>7, <1>9 DEF MeterInv
<1>11. \A s \in Requests : pc'[s] = "render" => pc[s] = "render"
  BY <1>0, <1>1
<1>12. IsFiniteSet(DOMAIN owners') /\ Range(owners') \subseteq Tenants \cup {None}
  BY <1>1, <1>2 DEF MeterInv, Range
<1> QED  BY <1>1, <1>5, <1>6, <1>7, <1>8, <1>10, <1>11, <1>12 DEF MeterInv

LEMMA DeleteKeeps ==
    ASSUME CallInv, MeterInv, NEW r \in Requests, Delete(r)
    PROVE  MeterInv'
<1>0. DOMAIN pc = Requests /\ DOMAIN shown = Requests
  BY DEF CallInv, MeterInv
<1>1. /\ owners' = [owners EXCEPT ![call[r].id] = None]
      /\ metrics' = RecordDelete(metrics)
      /\ UNCHANGED <<server, usage, served, shown>>
      /\ pc[r] = "serve" /\ pc' = [pc EXCEPT ![r] = "answered"]
  BY DEF Delete, Asked, Goto, Answer
<1>2. /\ metrics' \in Counters /\ Histogram(metrics') = Histogram(metrics)
      /\ metrics'.queries = metrics.queries /\ metrics'.inserts = metrics.inserts
  BY <1>1, CountersCount DEF MeterInv
<1>3. IsFiniteSet(Here(Counting)') /\ At(Counting)' = At(Counting)
  BY <1>0, <1>1, OneMoves DEF Counting, MeterInv
<1>4. At({"bucket"})' = At({"bucket"})
  BY <1>0, <1>1, OneMoves, FiniteHere
<1>5. \A s \in Requests : pc'[s] = "render" => pc[s] = "render"
  BY <1>0, <1>1
<1>6. IsFiniteSet(DOMAIN owners') /\ Range(owners') \subseteq Tenants \cup {None}
  BY <1>1 DEF MeterInv, Range
<1> QED  BY <1>1, <1>2, <1>3, <1>4, <1>5, <1>6 DEF MeterInv

LEMMA MeterStep ==
    ASSUME CallInv, RequestInv, MeterInv, [Next]_vars
    PROVE  MeterInv'
<1>1. ASSUME NEW r \in Requests, Handles(r)  PROVE MeterInv'
  BY <1>1, BeginKeeps, BucketKeeps, MeterKeeps, InsertKeeps, DeleteKeeps, QuietSteps,
     QuietKeeps DEF Handles
<1>2. ASSUME NEW r \in Requests,
             \/ Arrive(r) \/ Reply(r) \/ HangUp(r) \/ Panic(r) \/ Authenticates(r) \/ Decide(r)
             \/ AskClock(r) \/ Limit(r)
      PROVE  MeterInv'
  BY <1>2, QuietSteps, QuietKeeps
<1>3. CASE RotateFile \/ TimePasses \/ UNCHANGED vars
  <2>1. UNCHANGED <<server, owners, metrics, usage, served, shown, pc>>
    BY <1>3 DEF RotateFile, TimePasses, vars, requestVars, storeVars
  <2> QED  BY <2>1 DEF MeterInv, Here, At
<1> QED  BY <1>1, <1>2, <1>3 DEF Next

-----------------------------------------------------------------------------
(* All of it. *)

ServerInv == CallInv /\ RequestInv /\ KeyInv /\ FileInv /\ MeterInv

LEMMA ServerHolds == Spec => []ServerInv
<1>1. Init => ServerInv
  BY CallStarts, RequestStarts, KeyStarts, FileStarts, MeterStarts DEF ServerInv
<1>2. ServerInv /\ [Next]_vars => ServerInv'
  BY CallStep, RequestStep, KeyStep, FileStep, MeterStep DEF ServerInv
<1> QED  BY <1>1, <1>2, PTL DEF Spec

\* Whatever the clients send and however often the key file changes, no file
\* that could not be used becomes the key set, no request passes authorize
\* without a tenant, and every reply has a status.
THEOREM TypeCorrect == Spec => []TypeOK
<1>1. ServerInv => TypeOK
  <2> SUFFICES ASSUME ServerInv  PROVE TypeOK
    OBVIOUS
  <2>1. /\ \A t \in Range(owners) : t \in Tenants \cup {None}
        /\ DOMAIN usage \subseteq Tenants \cup {Other}
    BY DEF ServerInv, MeterInv, UsageInv
  <2>2. ASSUME NEW r \in Requests
        PROVE  pc[r] \in {"clock", "limit"} \cup Reading /\ call[r].op \notin Open
                   => who[r].tenant \in Tenants
    BY DEF ServerInv, CallInv, RequestInv, Reading
  <2>3. \A r \in Requests :
            /\ pc[r] \in Points
            /\ pc[r] = "idle" <=> call[r] = None
            /\ pc[r] = "answered" <=> answer[r] # None
            /\ pc[r] = "store_keys" <=> fresh[r] # Absent
    BY DEF ServerInv, RequestInv, FileInv
  <2> QED  BY <2>1, <2>2, <2>3 DEF ServerInv, FileInv, TypeOK
<1> QED  BY <1>1, ServerHolds, PTL

\* However requests interleave between their additions, for any tenants and any
\* size of the usage table: the totals, the histogram and the usage rows differ
\* by exactly the queries still between their additions, and a tenant with a row
\* of its own is billed for all it was served and for nothing else
\* (metrics.rs:97-190, record_query and record_query_for).
THEOREM CountersAgree == Spec => []Metered
<1>1. ServerInv => Metered
  BY MeterImplies DEF ServerInv
<1> QED  BY <1>1, ServerHolds, PTL

=============================================================================
