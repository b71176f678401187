-------------------------- MODULE MCSemanticCache --------------------------
(* An instance of SemanticCache for TLC. *)
EXTENDS SemanticCache, TLC

CONSTANTS o1, o2, o3, q1, q1b, q2, s1, s2

\* q1b is q1 in other case and white space; q2 is a paraphrase above tau.
MCNorm == (q1 :> q1) @@ (q1b :> q1) @@ (q2 :> q2)

MCSimilarity == [p \in Queries \X Queries |->
    IF MCNorm[p[1]] = MCNorm[p[2]] THEN 100 ELSE 93]

Ask(q, s) == [tenant |-> "t", namespace |-> "n", model |-> "m", system |-> s, query |-> q]

\* The same question in two spellings, one like it, and one under another system
\* prompt.
MCRequests == {Ask(q1, s1), Ask(q1b, s1), Ask(q2, s1), Ask(q1, s2)}

Symmetry == Permutations(Ops)

=============================================================================
