------------------------------ MODULE Dispatch ------------------------------
(***************************************************************************)
(* ModelRouter.route and Pipeline._invoke_routed: several calls in flight  *)
(* choose among the registered backends and walk their fallback chains,    *)
(* sharing one circuit breaker per backend.                                *)
(*                                                                         *)
(* The event loop runs one call at a time and lets go of it only while a   *)
(* backend is generating; a call whose control is "walk" therefore         *)
(* excludes every step of another call, though time may pass.              *)
(*                                                                         *)
(* A definition introduced by "Fault:" is a deliberately wrong variant of  *)
(* the one after it; no specification uses it.                             *)
(***************************************************************************)
EXTENDS CircuitBreaker, Sequences, FiniteSets

CONSTANTS
    Calls,      \* callers; each makes one call after another
    Backends,   \* the names in the registry
    BackendOf,  \* their BackendSpec
    NameOrder,  \* the order of the names as strings
    Demands     \* what calls ask of the router

\* Integers stand for the code's floats: difficulty and quality in percent.
BackendSpec == [model : STRING, cost : Nat, quality : 0 .. 100, latency : Nat,
                residency : STRING, capabilities : SUBSET STRING]

\* The tenant's allowed models, and route's optional hard constraints.
NoLimit == -1
Demand == [allowed : SUBSET STRING, difficulty : 0 .. 100, residency : STRING,
           maxCost : Nat \cup {NoLimit}, capabilities : SUBSET STRING]

ASSUME RegistryAssumption ==
    /\ IsFiniteSet(Backends)
    /\ \A b \in Backends : /\ BackendOf[b].cost \in Nat
                           /\ BackendOf[b].quality \in 0 .. 100
                           /\ BackendOf[b].latency \in Nat
    /\ NameOrder \in [Backends -> Nat]
    /\ \A a, b \in Backends : NameOrder[a] = NameOrder[b] => a = b
    /\ \A d \in Demands : d.difficulty \in 0 .. 100

NoDemand == [allowed |-> {}, difficulty |-> 0, residency |-> "", maxCost |-> NoLimit,
             capabilities |-> {}]
Nobody   == "nobody"

VARIABLES
    breaker,   \* the circuit breaker of each backend
    pc,        \* where each call is
    demand,    \* what it asks
    chain,     \* its decision: the chosen backend, then the fallback chain
    at,        \* its position in the chain
    safe,      \* whether the decision came from the all-breakers-open default
    by,        \* the backend that answered it
    tried      \* the backends it has sent a request to

vars == <<breaker, pc, demand, chain, at, safe, by, tried>>

Idle == {"new", "answered", "unavailable", "refused", "cancelled"}

TypeOK ==
    /\ breaker \in [Backends -> Breaker]
    /\ pc \in [Calls -> Idle \cup {"walk", "calling"}]
    /\ demand \in [Calls -> Demands \cup {NoDemand}]
    /\ chain \in [Calls -> Seq(Backends)]
    /\ at \in [Calls -> Nat \ {0}]
    /\ safe \in [Calls -> BOOLEAN]
    /\ by \in [Calls -> Backends \cup {Nobody}]
    /\ tried \in [Calls -> SUBSET Backends]

Init ==
    /\ breaker = [b \in Backends |-> NewBreaker]
    /\ pc = [c \in Calls |-> "new"]
    /\ demand = [c \in Calls |-> NoDemand]
    /\ chain = [c \in Calls |-> <<>>]
    /\ at = [c \in Calls |-> 1]
    /\ safe = [c \in Calls |-> FALSE]
    /\ by = [c \in Calls |-> Nobody]
    /\ tried = [c \in Calls |-> {}]

-----------------------------------------------------------------------------
(* The routing decision.                                                   *)

Registry == BackendOf

\* The hard filters: policy, residency, budget, capability.
Eligible ==
    [d \in Demands \cup {NoDemand} |->
        {b \in Backends :
            /\ Registry[b].model \in d.allowed
            /\ d.residency # "" => Registry[b].residency = d.residency
            /\ d.maxCost # NoLimit => Registry[b].cost <= d.maxCost
            /\ d.capabilities \subseteq Registry[b].capabilities}]

Healthy(E) == {b \in E : Allows(breaker[b])}

\* Fault: with every eligible breaker open, anybody may serve.
PoolOfAnybody(d) == IF Healthy(Eligible[d]) # {} THEN Healthy(Eligible[d]) ELSE Backends

\* Open breakers are skipped, unless that leaves nobody.
Pool(d) == IF Healthy(Eligible[d]) # {} THEN Healthy(Eligible[d]) ELSE Eligible[d]

\* The largest value of a field in the pool, or 1 if all are zero: dividing by
\* it then leaves the zeros the code special-cases.
Peak(pool, value(_)) ==
    LET m == CHOOSE v \in {value(b) : b \in pool} : \A a \in pool : value(a) <= v
    IN  IF m > 0 THEN m ELSE 1

\* difficulty * quality - 0.6 (1 - difficulty) cost / max cost - 0.05 latency /
\* max latency, times 10000 and both maxima so that it is an integer.
Utility(pool, d, b) ==
    LET Cost(a)    == Registry[a].cost
        Latency(a) == Registry[a].latency
        mc == Peak(pool, Cost)
        ml == Peak(pool, Latency)
    IN  d.difficulty * Registry[b].quality * mc * ml
          - 60 * (100 - d.difficulty) * Registry[b].cost * ml
          - 500 * Registry[b].latency * mc

\* Sorted by (score, name), both descending.
Precedes(pool, d, a, b) ==
    \/ Utility(pool, d, a) > Utility(pool, d, b)
    \/ Utility(pool, d, a) = Utility(pool, d, b) /\ NameOrder[a] > NameOrder[b]

\* The chosen backend and the fallback chain: the pool, sorted.
Rankings(pool, d) ==
    {s \in [1 .. Cardinality(pool) -> pool] :
        \A i, j \in 1 .. Cardinality(pool) :
            i < j => s[i] # s[j] /\ Precedes(pool, d, s[i], s[j])}

-----------------------------------------------------------------------------
(* The steps of a call.                                                    *)

\* No other call holds the event loop.
Runs(c) == \A o \in Calls \ {c} : pc[o] # "walk"

Goto(c, label) == pc' = [pc EXCEPT ![c] = label]

\* A new request is routed: to the ranking of its pool, or nowhere.
Route(c) ==
    /\ pc[c] \in Idle /\ Runs(c)
    /\ \E d \in Demands :
         /\ demand' = [demand EXCEPT ![c] = d]
         /\ IF Eligible[d] = {}
              THEN Goto(c, "refused") /\ chain' = [chain EXCEPT ![c] = <<>>]
                                      /\ safe' = [safe EXCEPT ![c] = FALSE]
              ELSE /\ \E s \in Rankings(Pool(d), d) : chain' = [chain EXCEPT ![c] = s]
                   /\ safe' = [safe EXCEPT ![c] = Healthy(Eligible[d]) = {}]
                   /\ Goto(c, "walk")
    /\ at' = [at EXCEPT ![c] = 1]
    /\ by' = [by EXCEPT ![c] = Nobody]
    /\ tried' = [tried EXCEPT ![c] = {}]
    /\ UNCHANGED breaker

\* Fault: an open breaker ends the walk.
SkipRest(c) ==
    /\ pc[c] = "walk" /\ at[c] <= Len(chain[c])
    /\ ~Allows(breaker[chain[c][at[c]]])
    /\ at' = [at EXCEPT ![c] = Len(chain[c]) + 1]
    /\ UNCHANGED <<breaker, pc, demand, chain, safe, by, tried>>

\* The next backend of the chain is passed over if its breaker is open now.
Skip(c) ==
    /\ pc[c] = "walk" /\ at[c] <= Len(chain[c])
    /\ ~Allows(breaker[chain[c][at[c]]])
    /\ at' = [at EXCEPT ![c] = @ + 1]
    /\ UNCHANGED <<breaker, pc, demand, chain, safe, by, tried>>

\* Fault: the breaker is not consulted again after routing.
SendUnchecked(c) ==
    /\ pc[c] = "walk" /\ at[c] <= Len(chain[c])
    /\ tried' = [tried EXCEPT ![c] = @ \cup {chain[c][at[c]]}]
    /\ Goto(c, "calling")
    /\ UNCHANGED <<breaker, demand, chain, at, safe, by>>

\* The request is sent to it otherwise, and the call awaits the answer.
Send(c) ==
    /\ pc[c] = "walk" /\ at[c] <= Len(chain[c])
    /\ Allows(breaker[chain[c][at[c]]])
    /\ tried' = [tried EXCEPT ![c] = @ \cup {chain[c][at[c]]}]
    /\ Goto(c, "calling")
    /\ UNCHANGED <<breaker, demand, chain, at, safe, by>>

\* The chain is exhausted: BackendUnavailable.
Exhaust(c) ==
    /\ pc[c] = "walk" /\ at[c] > Len(chain[c])
    /\ Goto(c, "unavailable")
    /\ UNCHANGED <<breaker, demand, chain, at, safe, by, tried>>

\* The backend answers.
Succeed(c) ==
    /\ pc[c] = "calling" /\ Runs(c)
    /\ breaker' = [breaker EXCEPT ![chain[c][at[c]]] = RecordSuccess(@)]
    /\ by' = [by EXCEPT ![c] = chain[c][at[c]]]
    /\ Goto(c, "answered")
    /\ UNCHANGED <<demand, chain, at, safe, tried>>

\* Fault: the walk starts over after a failure.
FailRestarts(c) ==
    /\ pc[c] = "calling" /\ Runs(c)
    /\ breaker' = [breaker EXCEPT ![chain[c][at[c]]] = RecordFailure(@)]
    /\ at' = [at EXCEPT ![c] = 1]
    /\ Goto(c, "walk")
    /\ UNCHANGED <<demand, chain, safe, by, tried>>

\* The backend raises: the failure is recorded and the walk goes on.
Fail(c) ==
    /\ pc[c] = "calling" /\ Runs(c)
    /\ breaker' = [breaker EXCEPT ![chain[c][at[c]]] = RecordFailure(@)]
    /\ at' = [at EXCEPT ![c] = @ + 1]
    /\ Goto(c, "walk")
    /\ UNCHANGED <<demand, chain, safe, by, tried>>

\* The caller cancels: not an Exception, so no outcome is recorded.
Cancel(c) ==
    /\ pc[c] = "calling" /\ Runs(c)
    /\ Goto(c, "cancelled")
    /\ UNCHANGED <<breaker, demand, chain, at, safe, by, tried>>

\* Time passes for the breakers that are cooling down.
Tick ==
    /\ breaker' = [b \in Backends |-> Age(breaker[b])]
    /\ breaker' # breaker
    /\ UNCHANGED <<pc, demand, chain, at, safe, by, tried>>

Walk(c) == Skip(c) \/ Send(c) \/ Exhaust(c)

Next ==
    \/ \E c \in Calls : Route(c) \/ Walk(c) \/ Succeed(c) \/ Fail(c) \/ Cancel(c)
    \/ Tick

\* The event loop finishes the step it is in; every backend call ends (the
\* adapters have a timeout), and the ready queue is first in, first out, so the
\* call it woke is resumed however many others run before it; time passes.
Fairness ==
    /\ \A c \in Calls : WF_vars(Walk(c)) /\ SF_vars(Succeed(c) \/ Fail(c))
    /\ WF_vars(Tick)

Spec == Init /\ [][Next]_vars /\ Fairness

-----------------------------------------------------------------------------
(* What routing and dispatch must guarantee.                               *)

Unfinished(c) == pc[c] \in {"walk", "calling"}

\* No backend outside the hard filters is ever in a decision, is sent a request
\* or answers: neither the all-breakers-open default nor the fallback walk, nor
\* a breaker that changes between the two, gets around a tenant's policy.
HardFiltersHold ==
    \A c \in Calls :
        /\ \A i \in 1 .. Len(chain[c]) : chain[c][i] \in Eligible[demand[c]]
        /\ tried[c] \subseteq Eligible[demand[c]]
        /\ by[c] # Nobody => by[c] \in tried[c]

\* A breaker is closed exactly while fewer than Threshold failures were recorded
\* since the last success, however the outcomes of concurrent calls interleave.
OpenIffTripped ==
    \A b \in Backends : breaker[b].since # Closed <=> breaker[b].failures >= Threshold

\* The inductive invariant: besides the two, a chain lists no backend twice and
\* an outstanding request went to the member of it that the walk is at.
ChainIsWalked ==
    \A c \in Calls :
        /\ pc[c] = "calling" => at[c] <= Len(chain[c]) /\ chain[c][at[c]] \in tried[c]
        /\ \A i, j \in 1 .. Len(chain[c]) : chain[c][i] = chain[c][j] => i = j

IInv == TypeOK /\ HardFiltersHold /\ OpenIffTripped /\ ChainIsWalked

\* No backend is shut out for good: calls that were in flight when its breaker
\* opened may fail late and restart the cooldown, but those run out.
BreakersRecover ==
    \A b \in Backends : []<>Allows(breaker[b])

\* Every routed call ends in an answer, BackendUnavailable or its cancellation.
EveryCallEnds ==
    \A c \in Calls : Unfinished(c) ~> ~Unfinished(c)

Rest(s, k) == {s[i] : i \in k .. Len(s)}

\* The walk implements the abstract call: what is left of the chain are the
\* options, and each failed or skipped backend is one of them ruled out.
Abstract == INSTANCE RoutedCall WITH
    status   <- [c \in Calls |-> IF Unfinished(c) THEN "pending" ELSE pc[c]],
    eligible <- [c \in Calls |-> Eligible[demand[c]]],
    options  <- [c \in Calls |-> Rest(chain[c], at[c])],
    server   <- by

ImplementsRoutedCall == Abstract!AbsSpec

-----------------------------------------------------------------------------
(* What the documents say and the code does not do.                        *)

\* 2.6-model-router.md:431: HALF_OPEN allows "1 probe request"; breaker.py:19:
\* "cooldown elapsed - allow a probe".
InFlight(b) == {c \in Calls : pc[c] = "calling" /\ chain[c][at[c]] = b}

SingleProbe ==
    [][\A b \in Backends : State(breaker[b]) = "half_open" /\ InFlight(b) # {} =>
          InFlight(b)' \subseteq InFlight(b)]_vars

\* router/engine.py:8-10: the health signals "fail OPEN: if all breakers are open
\* we fall back to the static ranking of the pool".  A call so routed would
\* reach some backend before it is given up.
SafeDefaultIsTried ==
    \A c \in Calls : pc[c] = "unavailable" /\ safe[c] => tried[c] # {}

=============================================================================
