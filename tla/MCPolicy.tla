------------------------------ MODULE MCPolicy ------------------------------
(* Instances of Policy for TLC: two tenants, one user, one shared namespace. *)
EXTENDS Policy, TLC

MCUserNamespace(u) == u

MCRules ==
    [principal : {<<>>, [namespace |-> "team"]},
     resource : {[model |-> "*"], [namespace |-> "team"], [model |-> "m1"]},
     actions : {{"route", "admin"}},
     effect : Effects]

\* MaxRules = 2
MCPolicies ==
    [rules : UNION {[1 .. n -> MCRules] : n \in 0 .. 2}, default : Effects]

MCResources ==
    {[tenant_id |-> t, model |-> m] : t \in {"t1", "t2"}, m \in {"m1", "m2"}}
        \cup {[tenant_id |-> "t1", namespace |-> n] : n \in {"u1", "team"}}
        \cup {[namespace |-> "team"]}

=============================================================================
