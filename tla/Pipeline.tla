------------------------------ MODULE Pipeline ------------------------------
(***************************************************************************)
(* Pipeline.run: what one ContextOS process does with the requests that    *)
(* are in flight together.  A request runs without interruption between    *)
(* two awaits, so each action is the code from one await to the next: the  *)
(* two cache tiers, the retrieval, packing with bundle capture and         *)
(* routing, the backend call, the cache write and the rest of write-back.  *)
(* Between any two of them other requests, writes to memory and the expiry *)
(* of cache entries may happen, and the caller may cancel the request.     *)
(*                                                                         *)
(* A text is what the backend generated: which request it was generated    *)
(* for, which model the backend was asked for and under which name it      *)
(* reports to have answered, which memories that request had retrieved     *)
(* (facts) and which of them were packed into its prompt (kept), and       *)
(* whether the backend reported a finish_reason.  The walk over the        *)
(* backends of a routing decision is module Dispatch; here any backend     *)
(* that passed the hard filters may answer.                                *)
(*                                                                         *)
(* A definition introduced by "Fault:" is a deliberately wrong variant of  *)
(* the one after it; no specification uses it.                             *)
(***************************************************************************)
EXTENDS CacheBackend, Sequences, FiniteSets

CONSTANTS
    Requests, Tenants, Namespaces, Systems, Models, Memories,
    Names,         \* of models, as backends report them
    ReportedAs,    \* per model asked for, the names its backend may report
    Inputs,        \* the requests callers make: scope, query, system prompt, model
    Wired,         \* the optional components this process is built with
    MayRoute,      \* the tenants that pass the pipeline's own policy check
    RoutedModels,  \* per tenant, the models of the backends passing the hard filters
    TopK,          \* retrieve's k
    CacheMayFail   \* whether calls to the cache backend can raise

Input == [tenant : Tenants, namespace : Namespaces, query : Queries,
          system : Systems, model : Models]

ASSUME InputsAssumption == Inputs \subseteq Input

ASSUME WiringAssumption ==
    /\ Wired \subseteq {"cache", "memory", "assembler", "replay", "router", "cost"}
    /\ MayRoute \subseteq Tenants
    /\ RoutedModels \in [Tenants -> SUBSET Models]
    /\ Models \subseteq Names /\ ReportedAs \in [Models -> SUBSET Names]
    /\ TopK \in Nat \ {0}
    /\ CacheMayFail \in BOOLEAN

NoInput  == [tenant |-> "none"]
NoText   == [terminal |-> FALSE]
NoBundle == [model |-> "none"]

VARIABLES
    memory,   \* the memories stored, each in its tenant and namespace
    cache,    \* live cache entries of all tenants
    bundle,   \* the replay bundle captured for each request
    ledger,   \* the cost ledger: per tenant, a list of records
    pc,       \* where each request is
    input,    \* what each request asks
    chosen,   \* its chosen_model
    found,    \* its memory candidates
    kept,     \* the candidates packed into its prompt
    resp,     \* what the backend answered it
    out       \* the text it returned to its caller

vars == <<memory, cache, bundle, ledger, pc, input, chosen, found, kept, resp, out>>

Memory == [id : Memories, tenant : Tenants, namespace : Namespaces]

Text == [by : Requests, model : Models, name : Names, facts : SUBSET Memory,
         kept : SUBSET Memory, terminal : BOOLEAN]

Fp == [tenant : Tenants, namespace : Namespaces, model : Models, system : Systems]

Entry == [tenant : Tenants, key : [fp : Fp, query : Queries], text : Text]

Bundle == [model : Models, found : SUBSET Memory, kept : SUBSET Memory,
           output : Text \cup {NoText}]

Bill == [by : Requests, model : Models]

Awaiting == {"exact", "semantic", "retrieve", "assemble", "invoke", "store", "stored"}
Ended    == {"denied", "served", "done", "failed", "cancelled"}

TypeOK ==
    /\ memory \subseteq Memory
    /\ cache \subseteq Entry
    /\ bundle \in [Requests -> Bundle \cup {NoBundle}]
    /\ ledger \in [Tenants -> Seq(Bill)]
    /\ pc \in [Requests -> {"new"} \cup Awaiting \cup Ended]
    /\ input \in [Requests -> Inputs \cup {NoInput}]
    /\ chosen \in [Requests -> Models \cup {"none"}]
    /\ found \in [Requests -> SUBSET Memory]
    /\ kept \in [Requests -> SUBSET Memory]
    /\ resp \in [Requests -> Text \cup {NoText}]
    /\ out \in [Requests -> Text \cup {NoText}]

Init ==
    /\ memory = {}
    /\ cache = {}
    /\ bundle = [r \in Requests |-> NoBundle]
    /\ ledger = [t \in Tenants |-> <<>>]
    /\ pc = [r \in Requests |-> "new"]
    /\ input = [r \in Requests |-> NoInput]
    /\ chosen = [r \in Requests |-> "none"]
    /\ found = [r \in Requests |-> {}]
    /\ kept = [r \in Requests |-> {}]
    /\ resp = [r \in Requests |-> NoText]
    /\ out = [r \in Requests |-> NoText]

-----------------------------------------------------------------------------
(* Guards and data operations shared by the actions.                       *)

Goto(r, label) == pc' = [pc EXCEPT ![r] = label]

\* Fault: the namespace is not a filter.
RowsOfTenant(in) == {m \in memory : m.tenant = in.tenant}

\* The rows list_memories returns: those of the caller's tenant and namespace.
Rows(in) ==
    {m \in memory : m.tenant = in.tenant /\ m.namespace = in.namespace}

\* retrieve returns at most k of the rows, and none only if there are none:
\* near-duplicates may be dropped, the best-ranked row never is.
Candidates(rows) ==
    {C \in SUBSET rows : Cardinality(C) <= TopK /\ (rows # {} => C # {})}

\* write-back stores a text only if a finish_reason was reached and no memory
\* was injected into its prompt.
Cacheable(text) ==
    "cache" \in Wired /\ text.terminal /\ text.kept = {}

\* The bundle frozen when the prompt has been assembled.
Captured(r, K) ==
    [model |-> chosen[r], found |-> found[r], kept |-> K, output |-> NoText]

\* Fault: a text without a finish_reason is billed.
WriteBackAlwaysBills(r, text, model) ==
    /\ bundle' = IF "replay" \in Wired /\ text.terminal /\ bundle[r] # NoBundle
                   THEN [bundle EXCEPT ![r].output = text]
                   ELSE bundle
    /\ ledger' = IF "cost" \in Wired
                   THEN [ledger EXCEPT ![input[r].tenant] =
                           Append(@, [by |-> r, model |-> model])]
                   ELSE ledger
    /\ out' = [out EXCEPT ![r] = text]
    /\ Goto(r, "done")

\* Fault: the output is attached only where the cache write is done.
WriteBackAttachesCached(r, text, model) ==
    /\ bundle' = IF "replay" \in Wired /\ Cacheable(text) /\ bundle[r] # NoBundle
                   THEN [bundle EXCEPT ![r].output = text]
                   ELSE bundle
    /\ ledger' = IF "cost" \in Wired /\ text.terminal
                   THEN [ledger EXCEPT ![input[r].tenant] =
                           Append(@, [by |-> r, model |-> model])]
                   ELSE ledger
    /\ out' = [out EXCEPT ![r] = text]
    /\ Goto(r, "done")

\* Fault: the bill names the model as the backend reports it.
WriteBackBillsReported(r, text, model) ==
    /\ bundle' = IF "replay" \in Wired /\ text.terminal /\ bundle[r] # NoBundle
                   THEN [bundle EXCEPT ![r].output = text]
                   ELSE bundle
    /\ ledger' = IF "cost" \in Wired /\ text.terminal
                   THEN [ledger EXCEPT ![input[r].tenant] =
                           Append(@, [by |-> r, model |-> text.name])]
                   ELSE ledger
    /\ out' = [out EXCEPT ![r] = text]
    /\ Goto(r, "done")

\* attach_output, cost.record under chosen_model and the return to the caller, who
\* is told the model by the name the backend reported: after the last await.
WriteBack(r, text, model) ==
    /\ bundle' = IF "replay" \in Wired /\ text.terminal /\ bundle[r] # NoBundle
                   THEN [bundle EXCEPT ![r].output = text]
                   ELSE bundle
    /\ ledger' = IF "cost" \in Wired /\ text.terminal
                   THEN [ledger EXCEPT ![input[r].tenant] =
                           Append(@, [by |-> r, model |-> model])]
                   ELSE ledger
    /\ out' = [out EXCEPT ![r] = text]
    /\ Goto(r, "done")

\* A cache hit returns at once: no retrieval, no bundle, no bill.  The caller is
\* told chosen_model, whatever the backend had reported.
ServeHit(r, e) ==
    /\ out' = [out EXCEPT ![r] = [e.text EXCEPT !.name = chosen[r]]]
    /\ Goto(r, "served")

-----------------------------------------------------------------------------
(* The steps of one request.                                               *)

\* Entry: the trace, the policy check, the cache key; up to the first await.
Begin(r) ==
    /\ pc[r] = "new"
    /\ \E in \in Inputs :
         /\ input' = [input EXCEPT ![r] = in]
         /\ chosen' = [chosen EXCEPT ![r] = in.model]
         /\ Goto(r, IF in.tenant \notin MayRoute THEN "denied"
                    ELSE IF "cache" \in Wired THEN "exact" ELSE "retrieve")
    /\ UNCHANGED <<memory, cache, bundle, ledger, found, kept, resp, out>>

\* The exact tier answers: a hit ends the request, a miss goes on to the
\* semantic tier, and an error counts as a miss of the whole cache (fail-open).
LookupExact(r) ==
    LET in   == input[r]
        hits == GetExact(cache, in.tenant, KeyOf(in, chosen[r]))
    IN  /\ pc[r] = "exact"
        /\ \/ \E e \in hits : ServeHit(r, e)
           \/ hits = {} /\ Goto(r, "semantic") /\ UNCHANGED out
           \/ CacheMayFail /\ Goto(r, "retrieve") /\ UNCHANGED out
        /\ UNCHANGED <<memory, cache, bundle, ledger, input, chosen, found, kept, resp>>

\* The semantic tier answers, or fails, which is a miss too.
LookupSemantic(r) ==
    LET in   == input[r]
        hits == SearchSemantic(cache, in.tenant, Fingerprint(in, chosen[r]), in.query)
    IN  /\ pc[r] = "semantic"
        /\ \/ \E e \in hits : ServeHit(r, e)
           \/ (hits = {} \/ CacheMayFail) /\ Goto(r, "retrieve") /\ UNCHANGED out
        /\ UNCHANGED <<memory, cache, bundle, ledger, input, chosen, found, kept, resp>>

\* The rows are read; embedding, ranking and compression work on this copy.
Retrieve(r) ==
    /\ pc[r] = "retrieve"
    /\ \E C \in Candidates(IF "memory" \in Wired THEN Rows(input[r]) ELSE {}) :
         found' = [found EXCEPT ![r] = C]
    /\ Goto(r, "assemble")
    /\ UNCHANGED <<memory, cache, bundle, ledger, input, chosen, kept, resp, out>>

\* The store or an embedder raises, or packing overflows the hard budget: the
\* error propagates, before anything is captured.
PrepareFails(r) ==
    /\ \/ pc[r] = "retrieve" /\ "memory" \in Wired
       \/ pc[r] = "assemble" /\ "assembler" \in Wired
    /\ Goto(r, "failed")
    /\ UNCHANGED <<memory, cache, bundle, ledger, input, chosen, found, kept, resp, out>>

\* Packing keeps some of the candidates; the bundle is captured with the model
\* chosen so far, and only then does the router choose a model, or find none
\* that its hard filters admit.
Assemble(r) ==
    LET models == RoutedModels[input[r].tenant]
    IN  /\ pc[r] = "assemble"
        /\ \E K \in (IF "assembler" \in Wired THEN SUBSET found[r] ELSE {{}}) :
             /\ bundle' = IF {"assembler", "replay"} \subseteq Wired
                            THEN [bundle EXCEPT ![r] = Captured(r, K)]
                            ELSE bundle
             /\ kept' = [kept EXCEPT ![r] = K]
        /\ \/ /\ "router" \notin Wired
              /\ Goto(r, "invoke") /\ UNCHANGED chosen
           \/ /\ "router" \in Wired
              /\ \E m \in models : chosen' = [chosen EXCEPT ![r] = m]
              /\ Goto(r, "invoke")
           \/ /\ "router" \in Wired /\ models = {}
              /\ Goto(r, "failed") /\ UNCHANGED chosen
        /\ UNCHANGED <<memory, cache, ledger, input, found, resp, out>>

\* Fault: chosen_model stays the router's first choice after a fallback.
GenerateKeepsChoice(r) ==
    /\ pc[r] = "invoke"
    /\ \E m \in (IF "router" \in Wired THEN RoutedModels[input[r].tenant] ELSE {chosen[r]}),
          fin \in BOOLEAN : \E name \in ReportedAs[m] :
         LET text == [by |-> r, model |-> m, name |-> name, facts |-> found[r],
                      kept |-> kept[r], terminal |-> fin]
         IN  /\ UNCHANGED chosen
             /\ resp' = [resp EXCEPT ![r] = text]
             /\ IF Cacheable(text)
                  THEN Goto(r, "store") /\ UNCHANGED <<bundle, ledger, out>>
                  ELSE WriteBack(r, text, chosen[r])
    /\ UNCHANGED <<memory, cache, input, found, kept>>

\* The backend answers, with or without a finish_reason; with a router, any
\* backend of the decision may be the one that did.  A cacheable text goes to
\* the cache next, any other straight through the rest of write-back.
Generate(r) ==
    /\ pc[r] = "invoke"
    /\ \E m \in (IF "router" \in Wired THEN RoutedModels[input[r].tenant] ELSE {chosen[r]}),
          fin \in BOOLEAN : \E name \in ReportedAs[m] :
         LET text == [by |-> r, model |-> m, name |-> name, facts |-> found[r],
                      kept |-> kept[r], terminal |-> fin]
         IN  /\ chosen' = [chosen EXCEPT ![r] = m]
             /\ resp' = [resp EXCEPT ![r] = text]
             /\ IF Cacheable(text)
                  THEN Goto(r, "store") /\ UNCHANGED <<bundle, ledger, out>>
                  ELSE WriteBack(r, text, m)
    /\ UNCHANGED <<memory, cache, input, found, kept>>

\* The backend, or every backend of the decision, failed: the error propagates.
GenerateFails(r) ==
    /\ pc[r] = "invoke"
    /\ Goto(r, "failed")
    /\ UNCHANGED <<memory, cache, bundle, ledger, input, chosen, found, kept, resp, out>>

\* Fault: the entry is keyed by the model that was asked for.
StoreUnderRequested(r) ==
    LET entry == [tenant |-> input[r].tenant, key |-> KeyOf(input[r], input[r].model),
                  text |-> resp[r]]
    IN  /\ pc[r] = "store"
        /\ \/ cache' = PutEntry(cache, entry)
           \/ CacheMayFail /\ UNCHANGED cache
        /\ Goto(r, "stored")
        /\ UNCHANGED <<memory, bundle, ledger, input, chosen, found, kept, resp, out>>

\* Fault: a key that has an entry is locked until the entry expires.
StoreIfAbsent(r) ==
    LET entry == [tenant |-> input[r].tenant, key |-> KeyOf(input[r], chosen[r]),
                  text |-> resp[r]]
    IN  /\ pc[r] = "store" /\ \A e \in cache : e.key # entry.key
        /\ cache' = PutEntry(cache, entry)
        /\ Goto(r, "stored")
        /\ UNCHANGED <<memory, bundle, ledger, input, chosen, found, kept, resp, out>>

\* The cache write takes effect, under the model that answered; or it fails,
\* which is swallowed.
Store(r) ==
    LET entry == [tenant |-> input[r].tenant, key |-> KeyOf(input[r], chosen[r]),
                  text |-> resp[r]]
    IN  /\ pc[r] = "store"
        /\ \/ cache' = PutEntry(cache, entry)
           \/ CacheMayFail /\ UNCHANGED cache
        /\ Goto(r, "stored")
        /\ UNCHANGED <<memory, bundle, ledger, input, chosen, found, kept, resp, out>>

\* Control returns from the cache write.
Finish(r) ==
    /\ pc[r] = "stored"
    /\ WriteBack(r, resp[r], chosen[r])
    /\ UNCHANGED <<memory, cache, input, chosen, found, kept, resp>>

\* The caller cancels the task at an await: nothing of run catches it.
Cancel(r) ==
    /\ pc[r] \in Awaiting
    /\ Goto(r, "cancelled")
    /\ UNCHANGED <<memory, cache, bundle, ledger, input, chosen, found, kept, resp, out>>

-----------------------------------------------------------------------------
(* The environment: other calls on the same stores, and time.              *)

\* MemoryEngine.write for some tenant and namespace; ids are fresh.
Remember ==
    /\ \E m \in Memory :
         /\ \A n \in memory : n.id # m.id
         /\ \E in \in Inputs : m.tenant = in.tenant /\ m.namespace = in.namespace
         /\ memory' = memory \cup {m}
    /\ UNCHANGED <<cache, bundle, ledger, pc, input, chosen, found, kept, resp, out>>

\* The time to live of an entry passes.  Nothing in the code is removed then, but
\* every later read passes the entry over, as if it had been.
Expire ==
    /\ \E e \in cache : cache' = cache \ {e}
    /\ UNCHANGED <<memory, bundle, ledger, pc, input, chosen, found, kept, resp, out>>

Progress(r) ==
    \/ LookupExact(r) \/ LookupSemantic(r) \/ Retrieve(r)
    \/ PrepareFails(r) \/ Assemble(r)
    \/ Generate(r) \/ GenerateFails(r)
    \/ Store(r) \/ Finish(r)

Next ==
    \/ \E r \in Requests : Begin(r) \/ Progress(r) \/ Cancel(r)
    \/ Remember \/ Expire

\* The event loop resumes every awaiting request; backend calls end, in an
\* answer or in a timeout.
Fairness == \A r \in Requests : WF_vars(Progress(r))

Spec == Init /\ [][Next]_vars /\ Fairness

-----------------------------------------------------------------------------
(* What the pipeline must guarantee.                                       *)

Answered(r)  == pc[r] = "done"
Reused(r)    == pc[r] = "served"
Delivered(r) == Answered(r) \/ Reused(r)

\* Whatever reaches a caller or the cache, freshly generated or reused, is
\* grounded only in memories of the tenant and namespace it reaches: the scope
\* enforced in list_memories survives packing, caching and reuse.
GroundingStaysInScope ==
    \A r \in Requests : Delivered(r) =>
        \A m \in out[r].kept : m.tenant = input[r].tenant /\ m.namespace = input[r].namespace

\* A cached text carries no memory and was finished by the backend: what the
\* packing and the backend call decided still holds when the write happens,
\* awaits later (write-back's committed and non_cacheable).
CacheHoldsCommittedPublicText ==
    \A e \in cache : e.text.kept = {} /\ e.text.terminal

\* The two requests ask the same in the same scope.
SameAsk(a, b) ==
    /\ a.tenant = b.tenant /\ a.namespace = b.namespace /\ a.system = b.system
    /\ \/ Norm[a.query] = Norm[b.query]
       \/ Similarity[Norm[a.query], Norm[b.query]] >= Threshold

\* A reused text was generated for a request of the same tenant, namespace and
\* system prompt, with an equal or similar prompt, by the very model the caller
\* asks for and is told - although the router replaces the model between the
\* lookup and the write, and the backend may have reported another name.
ReuseMatchesRequest ==
    \A r \in Requests : Reused(r) =>
        /\ SameAsk(input[r], input[out[r].by])
        /\ out[r].model = chosen[r] /\ out[r].name = chosen[r]

\* The charge b is due to tenant t: a finished text was delivered to its request.
Due(t, b) ==
    /\ Answered(b.by) /\ out[b.by].terminal
    /\ input[b.by].tenant = t /\ out[b.by].model = b.model

\* The ledger holds one record for each committed generation that was
\* delivered and none for anything else: not for hits, failures or requests
\* cancelled in write-back; each record is with the tenant that asked and under
\* the model the backend was asked for, whatever it reported.
LedgerMatchesDeliveries ==
    "cost" \in Wired =>
        /\ \A t \in Tenants : \A i \in 1 .. Len(ledger[t]) : Due(t, ledger[t][i])
        /\ \A t \in Tenants : \A i, j \in 1 .. Len(ledger[t]) :
             ledger[t][i].by = ledger[t][j].by => i = j
        /\ \A r \in Requests : Answered(r) /\ out[r].terminal =>
             \E i \in 1 .. Len(ledger[input[r].tenant]) : ledger[input[r].tenant][i].by = r

\* The output recorded in a bundle is the text its request returned, generated
\* from the prompt that bundle froze; and a billed request always has one, so
\* every charge can be replayed.
BilledIsReplayable ==
    /\ \A r \in Requests : bundle[r] # NoBundle /\ bundle[r].output # NoText =>
         /\ bundle[r].output = out[r] /\ out[r].terminal
         /\ bundle[r].kept = out[r].kept /\ bundle[r].found = out[r].facts
    /\ {"assembler", "replay"} \subseteq Wired =>
         \A t \in Tenants : \A i \in 1 .. Len(ledger[t]) :
            LET r == ledger[t][i].by
            IN  bundle[r] # NoBundle /\ bundle[r].output # NoText

\* Every request that enters the pipeline ends: in an answer, a reuse, an error
\* or its cancellation.
EveryRequestEnds ==
    \A r \in Requests : pc[r] \in Awaiting ~> pc[r] \in Ended

-----------------------------------------------------------------------------
(* The inductive invariant behind these: what holds at every await.        *)

\* A request that has begun has an input and a model; one that is writing back
\* has a text.
Started ==
    \A r \in Requests :
        /\ pc[r] # "new" => input[r] \in Inputs /\ chosen[r] \in Models
        /\ pc[r] \in {"store", "stored"} => resp[r] \in Text
        /\ Delivered(r) => out[r] \in Text

\* Candidates come from the request's own scope and the prompt only from the
\* candidates; nothing is frozen in a bundle before the prompt is assembled.
PromptInScope ==
    \A r \in Requests :
        /\ \A m \in found[r] : pc[r] # "new" /\ m.tenant = input[r].tenant
                                               /\ m.namespace = input[r].namespace
        /\ kept[r] \subseteq found[r]
        /\ pc[r] \in {"new", "exact", "semantic", "retrieve", "assemble"} => kept[r] = {}
        /\ pc[r] \in {"new", "exact", "semantic", "retrieve", "assemble", "denied", "served"} =>
             bundle[r] = NoBundle

\* The text a request is writing back, or has returned, is the one generated
\* for it from its prompt by the model it ended with.
OwnText(r, text) ==
    /\ text.by = r /\ text.model = chosen[r]
    /\ text.facts = found[r] /\ text.kept = kept[r]

TextIsOwn ==
    \A r \in Requests :
        /\ pc[r] \in {"store", "stored"} => OwnText(r, resp[r]) /\ Cacheable(resp[r])
        /\ Answered(r) => OwnText(r, out[r])

\* An entry is keyed by the scope, prompt and model its text was generated for.
EntryMatchesText ==
    \A e \in cache :
        /\ pc[e.text.by] # "new"
        /\ e.tenant = input[e.text.by].tenant
        /\ e.key = KeyOf(input[e.text.by], e.text.model)

\* A reused text once was in the cache.
ReusedWasCached ==
    \A r \in Requests : Reused(r) =>
        out[r].kept = {} /\ out[r].terminal /\ pc[out[r].by] # "new"

\* The bundle of a request past assembly freezes that request's prompt.
BundleMatchesPrompt ==
    \A r \in Requests :
        /\ bundle[r] # NoBundle =>
             /\ bundle[r].kept = kept[r] /\ bundle[r].found = found[r]
             /\ bundle[r].output # NoText =>
                  Answered(r) /\ out[r].terminal /\ bundle[r].output = out[r]
        /\ {"assembler", "replay"} \subseteq Wired =>
             /\ pc[r] \in {"invoke", "store", "stored", "done"} => bundle[r] # NoBundle
             /\ Answered(r) /\ out[r].terminal => bundle[r].output = out[r]

IInv ==
    /\ TypeOK /\ Started
    /\ PromptInScope /\ TextIsOwn
    /\ EntryMatchesText /\ CacheHoldsCommittedPublicText
    /\ ReusedWasCached /\ ReuseMatchesRequest
    /\ BundleMatchesPrompt /\ BilledIsReplayable
    /\ ("cost" \notin Wired => \A t \in Tenants : ledger[t] = <<>>)
    /\ LedgerMatchesDeliveries

-----------------------------------------------------------------------------
(* What the documents say of the pipeline and it does not do.              *)

\* diff.py:3-5: comparing bundles shows "whether the routed model changed": the
\* model in a bundle is the one the router sent the request to.
BundleNamesRoutedModel ==
    \A r \in Requests : Answered(r) /\ bundle[r] # NoBundle =>
        bundle[r].model = out[r].model

\* A query is its own nearest; but a text without words has a zero embedding,
\* which is near nothing (embedding/hashing.py, cache/backend.py).
FindsItself(query) == Similarity[Norm[query], Norm[query]] >= Threshold

\* keys.py:19: "byte-identical-after-normalization queries hit the exact tier".
\* While a text generated for the very same request is live, its repetition does
\* not miss.  So it is as the gateway builds the pipeline; with a router the text
\* may have been stored under another model than the one asked for.
IdenticalQueryIsServed ==
    [][\A r \in Requests :
          pc[r] = "semantic" /\ pc'[r] = "retrieve" /\ FindsItself(input[r].query) =>
              ~ \E e \in cache : input[e.text.by] = input[r]]_vars

=============================================================================
