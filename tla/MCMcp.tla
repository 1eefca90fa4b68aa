-------------------------------- MODULE MCMcp ---------------------------------
(* An instance of Mcp for TLC: ids have two suffixes, a second two nanoseconds. *)
EXTENDS Mcp

Env(tenant, floor, masks) == [tenant |-> tenant, floor |-> floor, masks |-> masks]

MCEnvironments ==
    {Env(None, None, "some"), Env(2, 6, "none"),
     Env(1, 0, BadNumber), Env(BadNumber, None, "some")}

Fact(trust, from, until) == [text |-> "fact", trust |-> trust, from |-> from, until |-> until]

MCRemembers ==
    {Fact(12, None, None), Fact(None, 0, 1), [Fact(0, None, None) EXCEPT !.text = None]}

Ask(as_of, max_results) == [text |-> "fact", as_of |-> as_of, max_results |-> max_results]

MCRecalls == {Ask(None, 40), Ask(0, None), [Ask(None, None) EXCEPT !.text = None]}

=============================================================================
