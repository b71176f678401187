-------------------------- MODULE MCConnectionPool --------------------------
(* An instance of ConnectionPool for TLC: two tenants, one id both use. *)
EXTENDS ConnectionPool

CONSTANTS c1, c2, c3, k1, k2, t1, t2, n1, x, y

Ctx(t)    == [tenant |-> t, namespace |-> n1]
Mem(i, t) == [id |-> i, tenant |-> t, namespace |-> n1]
AskFor(kind, t, i) == [kind |-> kind, ctx |-> Ctx(t), row |-> Mem(i, t)]

Calls3(a, b, c) == [call \in Calls |-> CASE call = c1 -> a [] call = c2 -> b [] call = c3 -> c]

AddX == AskFor("add", t1, x)
List(t) == AskFor("list", t, x)

\* y is the younger one.
MCAccessed == [m \in Memories |-> IF m = y THEN 2 ELSE 1]

\* One writes and two read, in one tenant or two; two write, and one lists one row
\* of theirs; two write the same id, as different tenants or as the same row put
\* back twice; and the probe.
MCAsks == {Calls3(AddX, List(t1), List(t2)),
           Calls3(AddX, AskFor("get", t1, x), List(t1)),
           Calls3(AddX, AskFor("add", t1, y), List(t1)),
           Calls3(AddX, AskFor("add", t2, x), List(t2)),
           Calls3(AddX, AddX, AskFor("get", t1, x)),
           Calls3(AskFor("add", t2, y), AskFor("health", t1, x), AskFor("get", t2, y))}

=============================================================================
