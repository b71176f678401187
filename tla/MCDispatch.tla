----------------------------- MODULE MCDispatch -----------------------------
(* Instances of Dispatch for TLC: a registry of three backends and what is   *)
(* asked of it.                                                              *)
EXTENDS Dispatch, TLC

CONSTANTS c1, c2, c3, cheap, strong, local

Spec3(m, c, q, l, r, caps) ==
    [model |-> m, cost |-> c, quality |-> q, latency |-> l, residency |-> r, capabilities |-> caps]

MCBackendOf ==
    (cheap  :> Spec3("small", 1, 40, 2, "us", {})) @@
    (strong :> Spec3("large", 10, 95, 9, "us", {"tools"})) @@
    (local  :> Spec3("large", 4, 70, 5, "eu", {"tools"}))

MCNameOrder == [b \in Backends |-> CASE b = cheap -> 1 [] b = local -> 2 [] b = strong -> 3]

Anything == {"small", "large"}

\* An easy call for the two backends in the US, a hard one whose data must stay in the EU
\* and which local alone may serve, and one nobody may serve.
MCDemands ==
    {[allowed |-> Anything, difficulty |-> 10, residency |-> "us", maxCost |-> NoLimit,
      capabilities |-> {}],
     [allowed |-> {"large"}, difficulty |-> 90, residency |-> "eu", maxCost |-> NoLimit,
      capabilities |-> {"tools"}],
     [allowed |-> Anything, difficulty |-> 90, residency |-> "eu", maxCost |-> 3,
      capabilities |-> {}]}

\* For the runs by hand: one demand that every backend of the instance meets.
EasyDemand == {[allowed |-> Anything, difficulty |-> 10, residency |-> "", maxCost |-> NoLimit,
                capabilities |-> {}]}

Symmetry == Permutations(Calls)

=============================================================================
