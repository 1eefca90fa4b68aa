------------------------------ MODULE Principals ------------------------------
(***************************************************************************)
(* Who a request acts as: the authentication boundary of the server        *)
(* (crates/l5m-server/src/principal.rs, and main.rs where it picks the     *)
(* provider).  Secrets, keys and numbers that arrive as text are values;   *)
(* BadNumber is a text that is no number.  Signature checks (jsonwebtoken) *)
(* are external: a token verifies under the key it was signed with.        *)
(***************************************************************************)
EXTENDS Integers, Sequences, Functions

CONSTANTS None,       \* an absent header, claim or variable
          BadNumber

Scopes == {"read", "write", "admin"}

\* Scope is ordered: a credential authorizes what is at or below its level.
Rank(scope) == CASE scope = "read" -> 1 [] scope = "write" -> 2 [] scope = "admin" -> 3

\* AuthError, as the status ApiError::from gives it.
Refusal(status) == [status |-> status, tenant |-> None, scope |-> "read", masks |-> None]
Unauthorized == Refusal(401)
Missing == Refusal(401)
Invalid == Refusal(400)

Principal(tenant, scope, masks) ==
    [status |-> 200, tenant |-> tenant, scope |-> scope, masks |-> masks]

-----------------------------------------------------------------------------
(* API keys and headers. *)

\* ScopedKey::parse of secret[:scope[:tenant]]; None when main exits on it.
ParseKey(entry) ==
    IF \/ entry.scope \notin Scopes \cup {None}
       \/ entry.tenant = BadNumber
    THEN None
    ELSE [entry EXCEPT !.scope = IF @ = None THEN "write" ELSE @]

\* HeaderPrincipalProvider::principal.  No keys: open mode.  Of the keys with the
\* secret the first counts; one that is bound to a tenant wins over the header.
HeaderPrincipal(keys, headers) ==
    LET matched == {i \in DOMAIN keys : keys[i].secret = headers.key}
        key == IF keys = <<>> THEN [scope |-> "write", tenant |-> None]
               ELSE keys[CHOOSE i \in matched : \A j \in matched : i <= j]
        tenant == IF key.tenant # None THEN key.tenant ELSE headers.tenant
    IN  IF keys # <<>> /\ matched = {} THEN Unauthorized
        ELSE IF tenant = None THEN Missing
        ELSE IF tenant = BadNumber \/ headers.trust = BadNumber THEN Invalid
        ELSE Principal(tenant, key.scope, headers.masks)

-----------------------------------------------------------------------------
(* Bearer tokens. *)

\* L5mClaims::into_principal: no scope, or one that is none, is write.
ClaimsPrincipal(claims) ==
    Principal(claims.tenant,
              IF claims.scope \in Scopes THEN claims.scope ELSE "write",
              claims.masks)

\* jsonwebtoken: the signature must be the key's and the tenant a number.
Decodes(token, key) == token.signer = key /\ token.claims.tenant \notin {None, BadNumber}

\* JwtPrincipalProvider::principal
JwtPrincipal(key, token) ==
    IF token = None THEN Missing
    ELSE IF Decodes(token, key) THEN ClaimsPrincipal(token.claims)
    ELSE Unauthorized

\* JwksPrincipalProvider::principal, after the reload: the key the token names,
\* or any when it names none.  keys maps key ids to keys.
JwksPrincipal(keys, token) ==
    IF \E kid \in DOMAIN keys :
           /\ token.kid \in {None, kid}
           /\ Decodes(token, keys[kid])
    THEN ClaimsPrincipal(token.claims)
    ELSE Unauthorized

-----------------------------------------------------------------------------
(* The provider main picks from the environment. *)

OpenMode == [kind |-> "headers", keys |-> <<>>]

SingleKey(secret) ==
    [kind |-> "headers", keys |-> <<[secret |-> secret, scope |-> "write", tenant |-> None]>>]

\* The first variable that is set decides; None when the process exits.  An
\* L5M_API_KEYS without entries leaves the server open.
Provider(env) ==
    IF env.jwks # None THEN [kind |-> "jwks", keys |-> <<>>]
    ELSE IF env.jwt_key # None THEN [kind |-> "jwt", keys |-> <<env.jwt_key>>]
    ELSE IF env.api_keys # None
    THEN LET parsed == [i \in DOMAIN env.api_keys |-> ParseKey(env.api_keys[i])]
         IN  IF None \in Range(parsed) THEN None ELSE [kind |-> "headers", keys |-> parsed]
    ELSE IF env.api_key # None THEN SingleKey(env.api_key)
    ELSE OpenMode

=============================================================================
