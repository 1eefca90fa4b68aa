------------------------------ MODULE MCServer --------------------------------
(* An instance of Server for TLC.  Tenant 9 has the id that the usage table   *)
(* keeps for its overflow row (u64::MAX).                                     *)
EXTENDS Server, TLC

Bounds == <<1, 3>>

Anonymous == [op |-> "metrics", key |-> None, tenant |-> None, trust |-> 0, masks |-> 0,
              token |-> None, id |-> 1, claimed |-> 1, body |-> "good"]

As(key, tenant, op) == [Anonymous EXCEPT !.key = key, !.tenant = tenant, !.op = op]

WithKey(secret, scope, tenant) == [secret |-> secret, scope |-> scope, tenant |-> tenant]

\* A reader bound to tenant 2, a key of the default scope, an operator; the
\* reader's secret once more, which is never reached.
Scoped == <<WithKey("a", "read", 2), WithKey("b", None, None), WithKey("c", "admin", 1),
            WithKey("a", "admin", None)>>

HeaderCalls ==
    {Anonymous, As("a", 1, "query"), As("b", 9, "query"), As("a", 2, "insert"),
     [As("b", 2, "insert") EXCEPT !.claimed = 1], As("b", 1, "insert"),
     [As("b", 1, "insert") EXCEPT !.body = "bad"],
     [As("b", 1, "insert") EXCEPT !.body = "scalar"],
     [As("z", 1, "insert") EXCEPT !.body = "malformed"], As("b", 1, "delete"),
     [As("b", 1, "delete") EXCEPT !.body = "bad"], [Anonymous EXCEPT !.op = "verify"],
     [As("b", 1, "query") EXCEPT !.masks = BadNumber],
     [As("b", 1, "query") EXCEPT !.trust = BadNumber],
     As("z", 1, "query"), As("b", None, "query"), As("c", 2, "checkpoint")}

Token(signer, kid, tenant, scope) ==
    [signer |-> signer, kid |-> kid,
     claims |-> [tenant |-> tenant, scope |-> scope, masks |-> 0]]

Bearing(token, op) == [Anonymous EXCEPT !.token = token, !.op = op]

TokenCalls ==
    {Bearing(None, "query"), Bearing(Token("k", "i", 1, None), "query"),
     Bearing(Token("k", None, 2, "admin"), "usage"),
     Bearing(Token("l", "i", 1, "read"), "insert"),
     Bearing(Token("k", "i", None, None), "query")}

MCCalls == [headers |-> HeaderCalls, jwt |-> TokenCalls, jwks |-> TokenCalls]

Bare == [jwks |-> None, jwt_key |-> None, api_keys |-> None, api_key |-> None,
         rate |-> FALSE, checkpoint_dir |-> FALSE, audit_log |-> FALSE, data_dir |-> FALSE]

MCEnvironments ==
    {[Bare EXCEPT !.api_keys = Scoped, !.audit_log = TRUE, !.data_dir = TRUE],
     [Bare EXCEPT !.api_keys = <<WithKey("a", "root", None)>>],
     [Bare EXCEPT !.jwt_key = "k", !.rate = TRUE],
     [Bare EXCEPT !.jwks = "file", !.api_key = "b", !.checkpoint_dir = TRUE]}

MCKeySets == {[i |-> "k"], [i |-> "l"], [j |-> "k", i |-> "l"]}

Alike == Permutations(Requests)

\* No log, and one of three lines.
MCReplays == {NoReplay, [inserts |-> 2, deletes |-> 1]}

MCLoaded == {[i \in {1} |-> None], [i \in {1} |-> 2]}

=============================================================================
