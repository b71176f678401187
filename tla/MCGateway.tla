----------------------------- MODULE MCGateway -----------------------------
(* Instances of Gateway for TLC: who asks what of a process without a router. *)
EXTENDS Gateway, TLC

CONSTANTS r1, r2, t1, t2, n1, n2, s1, s2, m1, m2, q1, q1b, q2

\* q1b is q1 in other case and white space; q2 is a paraphrase above tau.
MCNorm == (q1 :> q1) @@ (q1b :> q1) @@ (q2 :> q2)

MCSimilarity == [p \in Queries \X Queries |->
    IF MCNorm[p[1]] = MCNorm[p[2]] THEN 100 ELSE 93]

Ask(t, n, q, s, m) == [tenant |-> t, namespace |-> n, query |-> q, system |-> s, model |-> m]

GatewayInputs == {Ask(t1, n1, q1, s1, m1), Ask(t1, n1, q1b, s1, m1), Ask(t1, n1, q2, s2, m1),
                  Ask(t1, n2, q2, s1, m1), Ask(t2, n1, q1, s1, m1), Ask(t2, n1, q1, s1, m2)}

Wiring == {"cache", "memory", "assembler", "replay", "cost"}
NoRoutes == (t1 :> {}) @@ (t2 :> {})

\* The backend of m2 may report m1.
Reports == (m1 :> {m1}) @@ (m2 :> {m1, m2})

Symmetry == Permutations(Requests)

=============================================================================
