# ContextOS in TLA+

TLA+ models of the ContextOS service, the TLC runs that check them on small
instances, and TLAPS proofs of every safety property that the passing runs check: of
the request pipeline and the gateway's process around it, the semantic cache, the
router, memory versioning, the Postgres store's connections, the background runner
with consolidation, and the stages that run alone (policy, retrieval, compression,
assembly and replay). Paths below are relative to `src/contextos/` in the repository unless
they say otherwise.

`tlc -config <run>.cfg <MC module>` repeats a run, `tlapm <Module>Proofs.tla`
(`StageProofs.tla` for the stages that run alone) the proofs; `PROJECT.json` lists the
runs with their MC modules, the line ranges each definition stands for, and, for each
property, a deliberately wrong variant of a definition (introduced by `Fault:` in the
modules) under which TLC finds the property violated.

## 1. The system

ContextOS sits between an application and LLM backends. One asyncio event loop
serves all requests; state lives in memory, or in Postgres for memories. Between
two awaits code runs alone, so an action of these models is what happens from
one await to the next.

| Component | State | Operations | Interacts with |
|---|---|---|---|
| Pipeline `pipeline.py` | per request: model, candidates, prompt, answer | `run`, `_invoke_routed` | everything below |
| Semantic cache `cache/` | entries by tenant and key, with expiry; a clock | `lookup` (exact, then similar), `store`; fails open, expires lazily | pipeline, embedder |
| Memory `memory/`, `store/` | rows by tenant and namespace | `write`, `put`, `all_memories`, `retrieve` | pipeline, versioning, consolidation |
| Postgres store `store/postgres.py` | pool of ten connections, a transaction on each | add, list, get, health: acquire, begin, bind the tenant, run, commit, release | memory |
| Versioning `versioning/engine.py` | commits and branch heads by tenant | `commit`, `branch`, `get`, `diff`, `rollback` | memory |
| Router `router/` | registry, one circuit breaker per backend | `route`; `allows`, `record_success`, `record_failure` | pipeline, policy engine |
| Runner `workers/runner.py` | queue, counters | `enqueue`, `drain` | consolidation |
| Consolidation `workers/consolidation.py` | none | one job: list, summarize, write | runner, memory, adapter |
| Assembler `assembler/` | none | `assemble`: check reserves, MMR, pack, edge-load | pipeline, replay, embedder |
| Compressor `compressor/` | none | `compress`: structural, extractive, abstractive | pipeline, adapter |
| Security `security/` | policy | `resolve`, `evaluate`, `check` | gateway, pipeline, router |
| Replay `replay/` | bundles by tenant and trace | `capture`, `attach_output`, `replay`, `diff_bundles` | pipeline, assembler |
| Cost ledger `observability/cost.py` | records by tenant | `record`, `summary` | pipeline |
| Tracer `observability/` | traces | `start`, spans, `get` | pipeline |
| Gateway `gateway/` | one process's wiring, all of it in memory | HTTP routes; restart | all |
| SDK `__init__.py` | wiring | synchronous methods | all |
| Adapters `adapters/` | HTTP client, 60 s timeout | `generate`, `stream` | pipeline, compressor, consolidation |

What is hard: requests interleave at every await and share cache, ledger,
memories and breakers; values decided before an await (the model, whether memory
was injected, whether the answer is complete) guard writes made after it;
`CancelledError` is not an `Exception`, so it takes paths the `except Exception`
clauses do not; failures are partly swallowed (cache), partly fatal (assembler),
partly counted (backends, jobs); versioning and consolidation read, await and
write without a lock; a pooled connection carries its transaction and its tenant
from one call to the next if a step before it failed; ids given to callers outlive
the process that knows them; and pure code (packing, sentence selection, rule
evaluation) makes greedy choices whose guarantees are not obvious. The list of
hazards, each at its line, is in `PROJECT.json`.

What makes each component right: an answer, fresh or reused, is grounded only in
its caller's scope and is billed, frozen and cached exactly when it should be
(pipeline, cache, ledger); no text is served past its time and what was stored is
found until then (cache); an id in a reply resolves for its tenant and nobody else
(gateway); a replay reproduces the prompt (replay); reads see their own tenant's rows
and adds last, whatever connection they use (Postgres store); no backend outside policy is used, and
breakers agree with the failures seen and recover (router); jobs run in one place
and are counted exactly (runner); a summary reported is a summary written
(consolidation); a rollback that returns has restored its commit (versioning);
the memories packed fit their budget, leave out nothing that fits and hold the best
candidate (assembler); retrieval loses no row to a duplicate that is itself dropped; no fact is
made up and targets are met (compressor); the verdict does not depend on the order
of the rules (policy).

## 2. Modules

| Module | Models | Extends / composed by |
|---|---|---|
| `CacheBackend` | `cache/keys.py`, `cache/backend.py`: keys, lookups and put as operators | used by `Pipeline`, `SemanticCache` |
| `SemanticCache` | `cache/engine.py` with its clock, tiers and lazy expiry | `MCSemanticCache`, `SemanticCacheProofs` |
| `AtomicCache` | abstract specification: one table read in one instant | refined by `SemanticCache` |
| `Pipeline` | `Pipeline.run` with cache, memory, replay and cost ledger | `Gateway`, `MCPipeline`, `PipelineProofs` |
| `Gateway` | `gateway/app.py`: the process around the pipeline, its read routes and its restart | `MCGateway`, `GatewayProofs` |
| `CircuitBreaker` | `router/breaker.py` as a value and operators | used by `Dispatch` |
| `Dispatch` | `ModelRouter.route` and `Pipeline._invoke_routed` | `MCDispatch`, `DispatchProofs` |
| `RoutedCall` | abstract specification: what a routed call promises | refined by `Dispatch` |
| `Runner` | `workers/runner.py` | `Consolidation`, `ConsolidationProofs` |
| `Consolidation` | `workers/consolidation.py` as a job of the runner | `MCConsolidation`, `ConsolidationProofs` |
| `MemoryStore` | `store/memory_store.py`, `store/postgres.py` as operators | used by `Versioning`, `ConnectionPool` |
| `ConnectionPool` | `store/postgres.py`: pool, transactions, failures, cancellation | `MCConnectionPool`, `ConnectionPoolProofs` |
| `Versioning` | `versioning/engine.py` over a shared store | `MCVersioning`, `VersioningProofs` |
| `Ordering` | Python's `sorted()`, as an operator | used by `Assembly`, `Compression` |
| `Assembly` | `assembler/engine.py`, `assembler/budget.py` | `Replay` |
| `Replay` | `replay/engine.py` over `Assembly`: a chat, then replays of it | `MCAssembly`, `StageProofs` |
| `Retrieval` | `memory/engine.py` `retrieve`, `memory/scoring.py`: ranks, fusion, MMR | `MCRetrieval`, `StageProofs` |
| `Compression` | `compressor/engine.py`, `compressor/guard.py` | `MCCompression`, `StageProofs` |
| `Policy` | `security/context.py`, `security/rbac.py` | `MCPolicy`, `StageProofs` |

**Pipeline.** `pc[r]` names the await a request is at: `exact` and `semantic` (the
two cache tiers), `retrieve`, `assemble`, `invoke`, `store` (the cache write of
write-back), `stored`; then `done`, `served` (from the cache), `denied`, `failed`
or `cancelled`. `Begin` is the policy check, `Assemble` packs, freezes the bundle
and routes (none of these yields in between), `Generate` is the backend's answer,
`Store` the cache write, `Finish` and `WriteBack` the rest of the code after the
last await. `Cancel` ends a request at any await. A text carries, as history, who
it was generated for, by which model and from which memories; no action reads
these. Its `name` is the model that the backend reports, any of `ReportedAs[m]`: the
reply has that one, while cache and ledger are written under the model the pipeline
chose (`pipeline.py:262`, `269`, `276`). The pipeline passes no version of stable facts to
the cache, so that part of its key is always `"v0"` and is left out. `Wired` says which optional components are plugged in, so that one module
covers the gateway (no router), a routed process, and less. The walk over the
backends is one step here and its own module, `Dispatch`. Compression keeps a
candidate's identity and is not visible here. `Expire` removes any entry at any
time: in the code the entry stays and, from its deadline on, every read passes it over,
which is the same seen from a request; `SemanticCache` has the clock. In the code's in-memory backends the
awaits on cache and store never really yield; the interfaces are asynchronous so
that Redis and Postgres fit, and the model yields at each.

**Gateway.** `Chat` starts a trace and begins a pipeline request; `Run` is every
other step of the pipeline and a memory write; `Restart` ends the process: requests
in flight are cancelled, and traces, bundles, ledger, cache and memories, all of them
dictionaries of the process, start empty, while callers keep their ids and texts
(`before` remembers which replies are from an earlier life). The read routes change
nothing and await nothing that does, so they are operators that return a status and
a body. A trace's id is its request's.

**SemanticCache, AtomicCache.** A lookup reads the exact tier, awaits the embedder,
then reads the similar tier; a store embeds, fixes the entry's expiry, then puts it.
Any of these may raise, which the engine swallows. `now` is the clock, `Tick` lets it
go on by one at any await, and it does not go back. `Live` is the read-time test of
the code; nothing removes a dead entry but an overwrite of its key. A text is named
by the store that brought it, so `ImplementsAtomicCache` can map the
table to the set of live texts: an answer of the abstract cache comes from one
instant, although the code looks twice with awaits in between.

**ConnectionPool.** `pc[c]` names the await a call is at: `acquire`, `start` (begin),
`bind` (set_config), `run`, `commit` or `rollback`, `release`; `probe` is the health
check, which has no transaction. Any of them may raise or be cancelled, before or
after its effect (`commit` too). `abort` is the way to the release of a call that
will raise; `get` and every cancelled call get there without a rollback. `leaked` is
a call whose connection was acquired before the `try` and is never given back.
The external part, Postgres and asyncpg, is modelled from this use: a statement sees
what is committed, an insert of an id someone else has inserted waits for that
transaction, the bound tenant ends with its transaction, a released connection is
reset.
A listing answers with at most `ListLimit` rows, those accessed last (`Accessed` orders
them), and any of several equal ones (`CutOff`, `LatestOf`).

**Replay.** The variables of `Assembly` are those of the assembly under way: first the
chat's, captured with its prompt, then a replay's from the bundle. The mode of a
replay only changes the report.

**Dispatch.** A call routes (atomic in the code), then walks its chain: `Skip` an
open breaker, `Send`, and while it awaits the backend others run; `Succeed` and
`Fail` record with the breaker. Control `walk` holds the event loop, so other
calls cannot step, but `Tick` can: time passes. Utilities are exact: the code's
floating-point score, scaled to an integer; rounding of floats is left out.

**Runner, Consolidation.** A drain holds the pair it awaits. `Consolidation` keeps
the runner's variables and adds, for each drain, the await of its job. Its listing has
at most `ListLimit` rows; only their number counts, and the store's order is left out.

**Versioning** runs over either store (`Backend`): in-memory filters tenant and
namespace, Postgres only the tenant, and refuses a second row with an id. A rollback may end at any of its puts, by an
exception or a cancellation, with what it has put back left there. The
branch a commit is for is chosen when the head is moved, since nothing reads it
before. `Lose`
stands for what makes rollback necessary, since the program itself never deletes:
the store loses its rows, only while no rollback is under way.

**Retrieval, Assembly, Compression, Policy** are sequential: one `retrieve`,
`assemble`, `compress` or `evaluate` from every input of the instance, one action per loop turn or stage.
Their names differ where one module of proofs needs them all (`RetrieveInit`,
`CompressNext`, `PolicySpec`).
Scores are in percent and token counts are inputs; a text is its sentences'
lengths, facts and overlaps with the query. In `Retrieval` no list is sorted: a row's
rank is the number of rows before it, and reciprocal ranks and the stretched fused
score are exact multiples of a common unit (`Unit`, `Scale`), where the code has
floating-point numbers. In `Assembly` and `Compression` what is sorted is a finite set
with an order without ties, and `Ordered` lists it. The limit of 512 is never reached in the code, whose lists are
cut at 200 each, nor in the model. The rows `retrieve` begins with are those of a
listing of at most 4096 (`memory/engine.py:91`); rows beyond it are not in the model. That `retrieve` returns at most k rows, and none
only of an empty scope, is what `Pipeline` assumes of it.

## 3. Runs

Passing runs (sizes are distinct states):

| Run | Shows | Bounds | States |
|---|---|---|---|
| `PipelineRouted` | inductive invariant; scope, reuse, billing and replay consistency | 2 requests of 5 kinds, 2 memories, failing cache, 2 models | 486 k |
| `PipelineGateway` | ids resolve, spend agrees with replies, an identical live query is found, every request ends | 2 requests of 6 kinds, 1 memory, 1 restart, no router | 297 k |
| `SemanticCache` | inductive invariant; served within its lifetime, found until then, refinement of `AtomicCache` | 3 lookups and stores of 4 requests, TTL absent, 0 or 1, default 2, time up to 2 | 1.65 M |
| `DispatchRefines` | hard filters, breaker consistency, refinement of `RoutedCall`; breakers recover, calls end | 2 calls of 3 kinds, 3 backends, threshold 2, cooldown 2 | 159 k |
| `ConsolidationRuns` | the runner's books (one place per job, exact retries and join counter), reported means written, one summary per run, drains end | 2 jobs, 2 drains, 2 retries, 2 memories, limit 3 | 35 k |
| `ConnectionPool` | reads scoped and fresh, adds durable, nobody waits forever | 3 calls in 5 casts, 2 connections, 1 leak, limit below the rows there are | 85 k |
| `VersioningMemory` | inductive invariant, scope of snapshots, rollback restores | 2 tenants, 2 namespaces, 2 branches, 3 ids, limit 2, 2 commits | 377 k |
| `AssemblyPacks` | texts fit, maximal, best kept, recorded, valley-shaped; a replay reproduces the prompt | 4 blocks, 3 scores, 2 sizes, 4 budgets, top-K 3 | 4.8 M |
| `RetrievalRanks` | the best first, no two alike, what is left out is alike to what is returned or beyond the cuts | 4 memories in a chain of near-duplicates, both lists cut at 2, k 2 or 12 | 1.6 M |
| `CompressionTiers` | nothing made up, target met, summary pays off | up to 3 sentences of 5 kinds, 4 targets | 9 k |
| `PolicyVerdicts` | order-free verdict, tenant boundary | policies of up to 2 rules from 12, 7 resources | 300 k |

A run's `IInv` (`IInvAll`, `RetrieveInv`) has parts that are worth naming: the cache holds only
finished, memory-free texts (`CacheHoldsCommittedPublicText`); a branch head is a
commit of its own tenant (`HeadsAreOwnCommits`); a job is in one place and counted
once (`JobInOnePlace`, `JoinCountIsExact`, `RetriesAreExact`); the assembler's record
of why matches the prompt, and the prompt is valley-shaped (`VerdictsMatchPrompt`,
`ValleyShaped`); retrieval returns the best candidate first (`BestIsFirst`). The invariants
of `Dispatch` and `ConnectionPool` (there: an idle connection has no transaction and no
tenant, `IdleIsClean`) and the `GatewayInv` of `GatewayProofs` are proved and not listed
with their runs.

Why the bounds are enough. Requests, calls and drains interact only through shared
state, and each stated property names at most two of them; two actors meet in
every order, and the inputs make them meet: same and equal-after-normalization
queries, similar ones, another namespace, system prompt and model, a tenant with
no eligible backend and one that is denied. Of the three backends two share
a demand, so that a walk skips one and both calls meet at one breaker; one alone meets
a second demand, and none a third. A cooldown of 2 lets a late failure restart it. A threshold of 2
separates counting from tripping. Three ids over a limit of 2 let a listing cut
and a rollback put back several rows. Two jobs over two drains let a retry go
behind the other job and be taken by the other drain. Four blocks with top-K 3
leave one below the cut, two near-duplicates exercise MMR, and the budgets are
ample, tight, zero and overflowing. Four rows exceed both lists' cuts together, and
the chain a-b-c of near-duplicates, in which a and c are not alike, is the case where
a collapse can lose a row. Three calls on the cache are a store, a second
that overwrites or resembles it, and a lookup between them; TTLs of 0, 1 and the
default 2 over a clock up to 2 put every read before, at and after a deadline. A
second life of the process is as good as any later one, since a restart forgets all
but the callers' ids. Three calls over two connections make one wait, let one
connection leak and leave the other to be inherited. For all safety properties of the table the
proofs remove the bounds; they stay for liveness.

Counters: `MaxCommits` bounds commits, `MaxRestarts` restarts, `MaxTime` the cache's
clock, `MaxLeaks` lost connections (fewer than there are: when all are lost, nobody
gets one, which is the hazard at `store/postgres.py:42`); everything else is finite as it is, since
each request and job id is used once, breakers saturate, and summaries are bounded
by runs. Symmetry is used only in runs without liveness, over ids that no definition
tells apart. Runs whose actors all finish say `CHECK_DEADLOCK FALSE`: a process
with nothing left to serve may rest.

One violation run shows where a document says something else than the code does
(`findings` in `PROJECT.json` quotes it):

| Run | What happens |
|---|---|
| `Assembly_RenderedPromptFits` | memories whose texts fill the soft budget leave no room for the heading and the bullets that `_render` adds (`docs/design/02-module-deep-dive/2.2-context-assembler.md:210-211` counts the rendered prompt) |

The heading costs four tokens there and a bullet one, which is what the default
tokenizer, four characters to a token, makes of them when each text has a multiple of
four characters and the prompt up to four of them.

Further configurations, each for the MC module its name begins with. They are for
inspection by hand and not among the listed runs, and each finds a violation:

| Configuration | What happens, and where it is said otherwise |
|---|---|
| `Pipeline_BundleNamesRoutedModel` | the bundle has the requested model, not the routed one (`replay/diff.py:3-5`) |
| `Dispatch_SingleProbe` | a half-open breaker lets any number of calls probe (`docs/design/02-module-deep-dive/2.6-model-router.md:431`) |
| `Dispatch_SafeDefaultIsTried` | with all breakers open, the safe default is ranked and then skipped (`router/engine.py:104`) |
| `Gateway_AnyReplicaServes` | a process just started does not know an id another gave (`gateway/asgi.py:3`) |
| `Versioning_SnapshotsStayInScope` | over Postgres a commit holds the whole tenant (`store/memory_store.py:4-6`) |
| `Replay_OutputEqualMeansRecorded` | a replay reports equal outputs though none was recorded (`docs/design/06-killer-features.md:172`) |
| `Consolidation_AtLeastOnce` | a cancelled job is acknowledged and gone (`workers/runner.py:4-5`) |
| `Retrieval_KeepsMoreImportant` | of two duplicates equally near the query, the less important and older one is kept: the store's order decides (`docs/design/02-module-deep-dive/2.1-memory-engine.md:361`) |

## 4. Fairness

- `Pipeline`: weak fairness of each request's next step. The event loop resumes
  whatever its awaits complete, and every await completes: the adapters have a
  timeout, and store and cache calls return or raise. Nothing is assumed of
  callers, memory writes, expiry or cancellation.
- `Dispatch`: weak fairness of the walk, which holds the loop; strong fairness of
  the end of each backend call. Strong, because another call's walk disables it
  again and again; the loop's ready queue is first in first out, so a call that
  was woken runs. Weak fairness of time.
- `Runner`, `Consolidation`: weak fairness of the end of each job, and of each of
  its awaits, not of enqueueing, draining or cancelling.
- `Gateway`: weak fairness of each request's next step, as in `Pipeline`; a restart
  ends the requests it interrupts.
- `ConnectionPool`: weak fairness of each call's next step once it has a connection;
  strong fairness of `Acquire`, since the pool is emptied and refilled by others and
  serves its waiters first in first out. Nothing is assumed of failures.
- `SemanticCache`, `Versioning`, `Retrieval`, `Replay` with `Assembly`, `Compression`, `Policy`
  check safety only and assume no fairness.

## 5. Proofs

TLAPS proves, for all values of the constants that meet the named assumptions:

| Theorem (module) | Statement |
|---|---|
| `TypeCorrect` (`PipelineProofs`) | types, and a begun request has an input and a model |
| `Safety` | `Spec => []IInv` |
| `Isolation` | `GroundingStaysInScope` |
| `CacheSafety` | `CacheHoldsCommittedPublicText`, a part of `IInv` |
| `ReuseSafety` | `ReuseMatchesRequest` |
| `BillingSafety` | `LedgerMatchesDeliveries` |
| `ReplaySafety` | `BilledIsReplayable` |
| `Safety` (`DispatchProofs`) | `Spec => []IInv` |
| `PolicyHolds` | `HardFiltersHold` |
| `BreakerConsistent` | `OpenIffTripped` |
| `Refinement` | `Spec => ImplementsRoutedCall` |
| `Safety` (`VersioningProofs`) | `Spec => []IInv` |
| `Scoped` | `SnapshotsStayInScope`, over the in-memory store |
| `Restores` | `RollbackRestores`, over either store |
| `Safety` (`ConnectionPoolProofs`) | `Spec => []IInv` |
| `Scoped` | `ReadsAreScopedAndFresh`: fresh up to the limit of a listing |
| `Durable` | `AddsAreDurable` |
| `Safety` (`SemanticCacheProofs`) | `Spec => []IInv` |
| `Timely` | `ServedWithinLifetime` |
| `Found` | `StoredIsFound` |
| `Refinement` | `Spec => ImplementsAtomicCache` |
| `Safety` (`ConsolidationProofs`) | `SpecAll => []IInvAll` |
| `Reported` | `ReportedMeansWritten` |
| `OnePerRun` | `OneSummaryPerRun` |
| `RunnerSafety` | the runner alone: `JobInOnePlace`, `JoinCountIsExact`, `RetriesAreExact` |
| `UsesRunner` | consolidation implements the safety part of `Runner` |
| `GatewaySafety` (`GatewayProofs`) | `GatewaySpec => []GatewayInv` |
| `LivesAreRuns` | each life of the process is a run of `Pipeline` |
| `HandlesSafety` | `HandlesResolve` |
| `SpendSafety` | `SpendMatchesReplies`: by the model asked for, whatever the backends report |
| `RepeatsSafety` | `IdenticalQueryIsServed`, if the cache does not fail |
| `AccountsOfAssembly` (`StageProofs`) | `ReplaySpec => []IInv` of `Assembly`: packed tokens counted and within budget, one true verdict for each candidate, the prompt valley-shaped |
| `BlocksFitTheWindow` | `PackedBlocksFit`: the texts of the packed memories, not the rendered prompt |
| `PacksMaximally` | `NoRoomForEvicted` |
| `PlacesTheBest` | `BestIsPlaced` |
| `Reproduces` | `ReplayReproduces` |
| `Retains` | `NothingFabricated` |
| `Extracts` | `ExtractMeetsTarget` |
| `SummaryPays` | `SummaryPaysOff` |
| `Ranks` | `RetrieveSpec => []RetrieveInv`: what is picked is unlike, a result begins it, the best is first |
| `LosesOnlyTheAlike` | `LeftOutIsAlike` |
| `LoopInvariant` | the loop's invariant, `PolicySpec => []PolicyInv` |
| `OrderFree` | `VerdictIsOrderFree` |
| `Boundary` | `TenantBoundary` |

Assumptions. `InputsAssumption` and `WiringAssumption` (`Pipeline`): inputs are
records of the right type, wiring names known components, and a backend reports some name. `RegistryAssumption`
(`Dispatch`): finitely many backends, natural costs and latencies, names ordered
without ties. `BreakerAssumption` (`CircuitBreaker`): threshold and cooldown are
positive. `PoliciesAssumption` (`Policy`): a policy is a finite sequence of rules
with a default. `PoolAssumption` (`ConnectionPool`): what a call asks for has its type,
and `NoConn` is no connection. `LimitAssumption` (`Versioning`): the listing limit is
positive. `NormAssumption`, `SimilarityAssumption` (`CacheBackend`): a query normalizes
to a query, and a similarity is a percentage. `TtlAssumption`, `RequestsAssumption`,
`OpsAssumption` (`SemanticCache`): lifetimes are natural, the default one positive, the
names of operations no answers. `RetriesAssumption` (`Runner`), `ClusterAssumption`
(`Consolidation`), `RestartsAssumption` (`Gateway`): numbers, and `min_cluster`
positive. `WiredAssumption` (`Gateway`): the process is wired as `create_app` does it.
`BlocksAssumption`, `LimitsAssumption` (`Assembly`): finitely many blocks, no two at one
place of the order of ids, scores and similarities in percent, token counts and budgets
natural, `TopK` positive. `TextsAssumption` (`Compression`): texts are finite sequences of
sentences, lengths and targets natural. `ScoresAssumption`, `CutsAssumption` (`Retrieval`):
finitely many memories, likeness symmetric and in percent, the cutoffs positive, and
`Unit` a multiple of each `RrfK` plus a rank, so that the reciprocals are exact.
TLC evaluates all of them in every run of these modules.

Pipeline. Scope of what is delivered is not inductive by itself: a reused text was
written by another request, possibly long ago. The invariant `IInv` follows a
memory on its way: candidates come from the request's own scope and the prompt
from the candidates (`PromptInScope`); the text being written back is the
request's own (`TextIsOwn`) and passed the cacheability test; an entry is keyed by
the request its text was generated for (`EntryMatchesText`), carries no memory
(`CacheHoldsCommittedPublicText`); a reused text once was such an entry
(`ReusedWasCached`); bundles freeze the request's own prompt
(`BundleMatchesPrompt`). Each conjunct has a lemma `...Step`; `Stable` says what
no step of another request may change (a request's input once it has begun, its
prompt once packed), and is what lets the lemmas speak about the writer of an
entry. The ledger part is a separate argument about sequences: an append of one
record for a request that had none.

Dispatch. `IInv` adds to the two properties that chains list no backend twice and
that a pending request went to the member of the chain the walk is at. For the
refinement, the rest of the chain from the walk's position are the abstract
options: because a chain has no repetitions, moving on removes exactly one option
(`MovesOn`), and an answer comes from a current option.

Orders and sums. `sorted()` is `Ordered` and `sum()` is `FoldSet` in the models, and
both are defined by a choice. `OrderedLists` says that in an order without ties
(`Lines`) the choice exists and lists the whole set; `TokensAdd` that a sum grows by what
the member added weighs, whichever way the fold went through the set. Induction on the
size of the set is not available (see below), so the lemmas take a least
counterexample instead (`Least`), which exists as the order of the naturals is
well-founded.

Assembly. `AssemblyInv` retells the assembler's loops: each pick was a best one among
those left when it was made, against what had been picked before (`Picks`); each
verdict is right for the tokens used when it was given (`Judged`); and the prompt is
what was kept, arranged with the best at both ends (`Edges`). The record's properties
are read off this at the end: that no evicted block fits needs that what
is used only grows, so a block that did not fit when judged does not fit later.

Replay. The assembler is a function of its inputs since every tie is broken: two runs that
obey `Picks`, `Judged` and `Edges` for the same inputs agree pick by pick
(`OutcomeIsUnique`). `Captured` says that a bundle holds the inputs of an outcome
together with its prompt, so the replay's run, which also ends in an outcome, ends in
that one.

Compression. Only a single sentence may exceed the target, the first one, for which
the code makes an exception; then nothing more is considered. `CompressInv` says this and,
while the target is not reached, what became of every other sentence: it is still to
be considered or is too long to be added. As the first one considered is the closest to
the query, a closest one is among the kept (`ClosestIsKept`).

Retrieval. `RankedInv` says that what is picked is pairwise unlike: a pick is unlike the
nearest of those before, hence unlike all. That the best is first holds since with nothing
picked the penalty is zero for everybody (`AllEligibleAtFirst`, `FirstPick`), and that a
scope with rows yields something since some row has the first rank in a list
(`SomeCandidate`). What is lost with candidates to spare is then like something picked.

Policy. The loop's invariant says what has been passed over: no matching rule before
the current one denies, and `allowHit` is true exactly if one allowed. At either exit
of a policy with rules this is deny-overrides over the set of those that match, which
mentions no order; a policy without rules has its default. The
floor and the tenant boundary come before the loop, so `TenantBoundary` needs only
that a caller who reaches a rule has passed them.

ConnectionPool. What a read returns depends on what is bound to the connection it
got, hence on everybody who had it before. The invariant states the pool's books: a
connection is idle or one call's (`OneUser`, `UsersHaveOne`, `IdleIsUnused`), an idle
one is clean, a used one is bound to its user's tenant from `bind` on
(`TenantIsBound`). A draft not yet committed is its user's own row, its id in no
other draft and not in the table (`DraftsAreOwn`, `DraftsAreNew`, `DraftsDiffer`);
without this, a commit could break `IdsAreUnique`. Freshness is `OwedIsThere`: the
rows a call must see are committed when it begins and nothing removes them. The answer
of a listing is one of `LatestOf` what is visible, so what it lacks of these is cut off by
as many rows accessed no earlier (`AnswersAreVisible`). Each
action has a lemma that says what it changes and leaves, and each conjunct one that
needs only those.

Versioning. That a rollback restores its commit needs `RestIsPresent` (what is not yet
put back is all that is missing), which in turn needs that putting a row back replaces
no other: `IdsAreUnique`, over all rows stored, committed or about to be committed
(`Known`). For the scope of snapshots, `CallsKeepScope` remembers that what a commit
has listed is of its scope until it is recorded.

SemanticCache. That a miss has a reason is about stores long past: `PlacesStayTaken`
says that under the key of any store that has ended stands an entry still, of that
store or of a later one, and `BuiltInTime` that every entry is what its store built
for its own request, no later than now. With `TableIsFunctional` an exact hit is the
one entry of its key. For the refinement the live texts are the abstract table: `Tick`
only forgets, and a put replaces the text of its question and leaves other live ones.
The exact tier's answer needs no more; that an answer of the similar tier is a best one
at the instant it is read needs that a finite set of similarities has a largest
(`Largest`, from the order of the naturals being well-founded).

Runner and consolidation. The runner's books are one predicate, `Books`, over a queue,
the busy drains, the counters and the jobs done and given up, and not over the
variables: ending a job and putting it back are two entries in the books with a state
between them that no step shows (`SetAside`, then `BookDone` or `BookPut`). Exact retries
hold because a job's attempt is the number of its runs but the one under way, wherever
its pair is. For summaries, `OneSummaryPerRun` is not inductive: a second one of a run
is excluded since a run under way has left none (`SummariesOfRuns`), and what it will
report is what it listed, which has not gone (`ListingStands`).

Gateway. A restart ends the requests of a life, and the pipeline's invariant is false
of what they leave behind: their ledger and bundles are gone. `Life` is the pipeline
with the variables of earlier lives' requests blanked; every action of `Pipeline` on a
present request is the same action on the blanked variables (`SameBegin` and its
siblings), and a restart gives an initial state (`LifeInit`). So the whole of
`PipelineProofs` is used for each life through `INSTANCE ... WITH`, and `GatewayInv` adds
only which requests are of this life and that their traces are there. A bundle names
the model its request was sent to, since without a router the chosen one is never replaced; the
cost summary counts by a one-to-one map from ledger positions to requests.

Repeated queries. That a repetition is served needs two things: without a router a text is
cached under the model its request asked for (`AskedModel`), so the repetition looks in
the same place; and the query is found near itself (`FindsItself`), which a text
without words is not: its embedding is zero, and so is its cosine with itself. With a
router the property is false and not claimed: an entry is stored under the routed model
and looked up under the requested one (`cache/keys.py:19`).

Only model-checked: liveness (`EveryRequestEnds`, `BreakersRecover`, `EveryCallEnds` of
`Dispatch` and of `ConnectionPool`, `EveryDrainEnds`), which needs fairness and ENABLED
and is out of the prover's reach, as is induction over data: the library states it
over an operator as a parameter, which no prover here can instantiate. Every safety
property of the passing runs is a theorem.

## 6. Not modelled

- Embeddings, cosine, BM25, recency half-lives and the rounding of floating-point
  scores: their values are inputs, integers in percent.
- Token counting and prompt text in the assembler. What heading and bullets cost is two
  constants, which only `RenderedPromptFits` reads, as the code does not count them.
- Versions of stable facts in the cache's key, which the pipeline never passes.
- Spans, decision records and their OpenTelemetry form; health routes, the JSON of
  replies and the replies to failed requests, whose traces nobody is told about;
  adapters' wire formats, ULIDs, configuration, deployment files other than the
  row-level policy; streaming.
- In `Gateway`, the versioning and replay routes, which are single calls of modules
  `Versioning` and `Replay`.
- In `SemanticCache`, the hit counter, which nothing reads, and which of several
  equally similar entries is chosen.
- Prices and token sums of the ledger; the weights' validation in the assembler.
- A clock that goes back; an assembler, embedder or tokenizer changed between a chat
  and its replay.

## 7. Plan

Built so far: `Pipeline`, `Dispatch` with `RoutedCall`, `Runner`, `Versioning`,
`Assembly`, `Compression`, `Consolidation`, `Policy`; then `SemanticCache` with
`AtomicCache`, `ConnectionPool`, `Gateway`, `Replay`, `Retrieval`; and the proofs of all
of them. Next:

1. A composition of `Pipeline` and `Dispatch` in which `Generate` is refined by the
   walk along the chain.
2. An abstract specification of the pipeline seen by its callers, and the proof that
   the pipeline implements it.
