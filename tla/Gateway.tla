------------------------------ MODULE Gateway ------------------------------
(***************************************************************************)
(* gateway/app.py: the routes of one gateway process over the pipeline it  *)
(* was built with, and its restart.  create_app gives the process a tracer,*)
(* a bundle store, a ledger, a cache and a memory store, all of them       *)
(* dictionaries: whatever a caller was told an id of is gone when the      *)
(* process is, while the caller keeps the id.  POST /v1/chat is the        *)
(* pipeline's run, POST /v1/memory is Remember.  A read route does not     *)
(* await anything that changes state, so it is an operator of the state:   *)
(* its status and what it shows, for a caller s and a trace id.            *)
(*                                                                         *)
(* The id of a trace is the request's.  A definition introduced by         *)
(* "Fault:" is a deliberately wrong variant of the one after it; no        *)
(* specification uses it.                                                  *)
(***************************************************************************)
EXTENDS Pipeline

CONSTANT MaxRestarts   \* bound: restarts in a behaviour

ASSUME RestartsAssumption == MaxRestarts \in Nat

\* create_app builds the pipeline with all of its components but a router.
ASSUME WiredAssumption == Wired = {"cache", "memory", "assembler", "replay", "cost"}

VARIABLES
    traces,     \* the tracer's traces, each with its tenant
    restarts,   \* how often the process was started again
    before      \* the requests of an earlier life of the process

gatewayVars == <<vars, traces, restarts, before>>

Trace == [id : Requests, tenant : Tenants]

GatewayTypeOK ==
    /\ traces \subseteq Trace
    /\ restarts \in 0 .. MaxRestarts
    /\ before \subseteq Requests

GatewayInit == Init /\ traces = {} /\ restarts = 0 /\ before = {}

-----------------------------------------------------------------------------
(* Steps.                                                                  *)

\* Fault: the tracer is keyed by tenant.
StartTraceOfTenant(r) ==
    LET t == input'[r].tenant
    IN  traces' = {x \in traces : x.tenant # t} \cup {[id |-> r, tenant |-> t]}

\* Tracer.start, before the policy is asked: denied and failed requests have a
\* trace too.
StartTrace(r) == traces' = traces \cup {[id |-> r, tenant |-> input'[r].tenant]}

\* A chat arrives.
Chat(r) == Begin(r) /\ StartTrace(r) /\ UNCHANGED <<restarts, before>>

\* Everything else the pipeline does for its requests, and writes to memory.
Run ==
    /\ \/ \E r \in Requests : Progress(r) \/ Cancel(r)
       \/ Remember \/ Expire
    /\ UNCHANGED <<traces, restarts, before>>

\* The process ends, with the requests in flight, and create_app is run again.
Restart ==
    /\ restarts < MaxRestarts
    /\ restarts' = restarts + 1
    /\ before' = {r \in Requests : pc[r] # "new"}
    /\ pc' = [r \in Requests |-> IF pc[r] \in Awaiting THEN "cancelled" ELSE pc[r]]
    /\ traces' = {} /\ memory' = {} /\ cache' = {}
    /\ bundle' = [r \in Requests |-> NoBundle]
    /\ ledger' = [t \in Tenants |-> <<>>]
    /\ UNCHANGED <<input, chosen, found, kept, resp, out>>

GatewayNext == (\E r \in Requests : Chat(r)) \/ Run \/ Restart

\* As for the pipeline: a request in flight goes on, unless the process ends.
GatewayFairness ==
    \A r \in Requests :
        WF_gatewayVars(Progress(r) /\ UNCHANGED <<traces, restarts, before>>)

GatewaySpec == GatewayInit /\ [][GatewayNext]_gatewayVars /\ GatewayFairness

-----------------------------------------------------------------------------
(* The read routes.                                                        *)

NotFound == [status |-> 404]
Ok(body) == [status |-> 200, body |-> body]

\* GET /v1/traces/{id} and, from the same lookup, its OpenTelemetry form.
GetTrace(s, id) ==
    IF \E t \in traces : t.id = id /\ t.tenant = s.tenant THEN Ok(id) ELSE NotFound

\* The store keeps the bundles of each tenant apart.
Stored(s, id) == bundle[id] # NoBundle /\ input[id].tenant = s.tenant

\* GET /v1/traces/{id}/bundle.
GetBundle(s, id) == IF Stored(s, id) THEN Ok(bundle[id]) ELSE NotFound

\* What a diff of two bundles says: candidates that came and went, the models.
DiffBundles(a, b) ==
    [added   |-> {m.id : m \in b.found} \ {m.id : m \in a.found},
     removed |-> {m.id : m \in a.found} \ {m.id : m \in b.found},
     models  |-> IF a.model = b.model THEN <<>> ELSE <<a.model, b.model>>]

\* GET /v1/admin/trace-diff: both bundles, or none.
TraceDiff(s, a, b) ==
    IF Stored(s, a) /\ Stored(s, b) THEN Ok(DiffBundles(bundle[a], bundle[b])) ELSE NotFound

\* GET /v1/admin/cost: of the tenant's records, how many, and by model.
Summary(s) ==
    LET Of(m) == {i \in 1 .. Len(ledger[s.tenant]) : ledger[s.tenant][i].model = m}
    IN  [requests |-> Len(ledger[s.tenant]),
         by_model |-> [m \in Models |-> Cardinality(Of(m))]]

-----------------------------------------------------------------------------
(* What callers may rely on.                                               *)

Callers == {[tenant |-> in.tenant, namespace |-> in.namespace] : in \in Inputs}

\* The replies of this life of the process.
Told(r) == Delivered(r) /\ r \notin before

\* An id in a reply answers for as long as the process lives, for every caller of
\* the tenant and for no other: each reply has its trace; a generated one has its
\* bundle, with the very text of the reply once the backend has finished it, and
\* can be compared with any other generated one, which shows the memories that came
\* and went and whether another model was asked for; a reply from the cache has none,
\* whatever has become of the request its text is from
\* (gateway/app.py:201-294, observability/tracer.py:48-58, replay/store.py:18-29).
HandlesResolve ==
    \A r \in Requests, s \in Callers : Told(r) =>
        LET own(q) == Told(q) /\ s.tenant = input[q].tenant /\ Answered(q)
        IN  /\ GetTrace(s, r).status = 200 <=> s.tenant = input[r].tenant
            /\ GetBundle(s, r).status = 200 <=> own(r)
            /\ own(r) /\ out[r].terminal => GetBundle(s, r).body.output = out[r]
            /\ \A q \in Requests : own(r) /\ own(q) =>
                 LET d == TraceDiff(s, q, r)
                 IN  /\ d.status = 200
                     /\ {m.id : m \in out[r].facts} =
                          ({m.id : m \in out[q].facts} \cup d.body.added) \ d.body.removed
                     /\ d.body.models = <<>> <=> input[q].model = input[r].model

\* The summary of a tenant counts the finished texts its callers were given since
\* the process started, no hit and no failure, each under the model its caller asked
\* for, whatever name the backend reported and the reply shows
\* (observability/cost.py:52-70, pipeline.py:269-276).
SpendMatchesReplies ==
    \A s \in Callers :
        LET paid == {r \in Requests : Told(r) /\ Answered(r) /\ out[r].terminal
                                         /\ input[r].tenant = s.tenant}
        IN  /\ Summary(s).requests = Cardinality(paid)
            /\ \A m \in Models :
                 Summary(s).by_model[m] = Cardinality({r \in paid : input[r].model = m})

-----------------------------------------------------------------------------
(* What the documents say and the code does not do.                        *)

\* gateway/asgi.py:3: "The app is stateless, so any number of replicas can serve
\* behind a load balancer".  A reply could then be looked up whichever process is
\* asked, one that has just been started among them.
AnyReplicaServes ==
    \A r \in Requests, s \in Callers :
        Delivered(r) /\ s.tenant = input[r].tenant => GetTrace(s, r).status = 200

=============================================================================
