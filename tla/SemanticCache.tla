--------------------------- MODULE SemanticCache ---------------------------
(***************************************************************************)
(* The semantic cache with its clock (cache/engine.py, cache/backend.py):  *)
(* concurrent lookups and stores, each a sequence of awaits on the backend *)
(* and the embedder, over entries that expire lazily, when they are read,  *)
(* and that nothing removes.  Pipeline uses the cache through its effects  *)
(* only (an entry may expire at any time); here is why it may.             *)
(*                                                                         *)
(* A text is named by the store that brought it.  A definition introduced  *)
(* by "Fault:" is a deliberately wrong variant of the one after it; no     *)
(* specification uses it.                                                  *)
(***************************************************************************)
EXTENDS CacheBackend, FiniteSets

CONSTANTS
    Ops,          \* lookups and stores
    Requests,     \* what they may be about: tenant, namespace, model, system, query
    Ttls,         \* ttl_seconds as passed; NoTtl if it is not
    NoTtl,
    DefaultTtl,   \* default_ttl
    MaxTime       \* bound on the clock

ASSUME TtlAssumption ==
    /\ Ttls \subseteq Nat \cup {NoTtl} /\ NoTtl \notin Nat
    /\ DefaultTtl \in Nat \ {0} /\ MaxTime \in Nat

ASSUME RequestsAssumption == \A in \in Requests : in.query \in Queries

VARIABLES
    clock,
    table,    \* the backend's entries, live or not
    call,     \* of each operation: "lookup" or "store", and its arguments
    pc,       \* of each operation: its next await, or "done"
    fresh,    \* the entry a store has built, from the embedding on
    answer    \* of each operation: the store whose text it was given, None (a miss
              \* or a failure), Stored, or Pending

vars == <<clock, table, call, pc, fresh, answer>>

None    == "none"
Stored  == "stored"
Pending == "pending"

\* An operation is not mistaken for an answer without a text.
ASSUME OpsAssumption == Ops \cap {None, Stored, Pending} = {}

Asked == [kind : {"lookup"}, in : Requests, ttl : {NoTtl}]
         \cup [kind : {"store"}, in : Requests, ttl : Ttls]

KeyFor(o) == KeyOf(call[o].in, call[o].in.model)

Entry ==
    [text : Ops, tenant : {in.tenant : in \in Requests},
     key : {KeyOf(in, in.model) : in \in Requests}, created : Nat, expires : Nat]

NoEntry == [text |-> None]

Init ==
    /\ clock = 0 /\ table = {}
    /\ call \in [Ops -> Asked]
    /\ pc = [o \in Ops |-> IF call[o].kind = "lookup" THEN "exact" ELSE "embed"]
    /\ fresh = [o \in Ops |-> NoEntry]
    /\ answer = [o \in Ops |-> Pending]

-----------------------------------------------------------------------------
(* The steps, each from one await to the next.                             *)

\* Fault: an entry is live through the second at which it expires.
LiveUntilAfter == {e \in table : clock <= e.expires}

\* Expiry is lazy: an entry is passed over from its time on, and stays.
Live == {e \in table : clock < e.expires}

\* Fault: zero is taken at its word.
LifetimeOfZero(ttl) == IF ttl = NoTtl THEN DefaultTtl ELSE ttl

\* ttl_seconds or default_ttl: zero counts as not passed.
Lifetime(ttl) == IF ttl \in {NoTtl, 0} THEN DefaultTtl ELSE ttl

\* The entry that store o builds at time t.
EntryAt(o, t) ==
    [text |-> o, tenant |-> call[o].in.tenant, key |-> KeyFor(o),
     created |-> t, expires |-> t + Lifetime(call[o].ttl)]

End(o, a) ==
    /\ pc' = [pc EXCEPT ![o] = "done"]
    /\ answer' = [answer EXCEPT ![o] = a]

Goto(o, label) == pc' = [pc EXCEPT ![o] = label] /\ UNCHANGED answer

\* The exact tier answers, or the query must be embedded.
LookupExact(o) ==
    /\ pc[o] = "exact"
    /\ LET hits == GetExact(Live, call[o].in.tenant, KeyFor(o))
       IN  IF hits = {} THEN Goto(o, "embed") ELSE \E e \in hits : End(o, e.text)
    /\ UNCHANGED <<clock, table, call, fresh>>

\* The query is embedded.  For a store the entry is built at once, and with it
\* the time at which it will expire.
Embed(o) ==
    /\ pc[o] = "embed"
    /\ IF call[o].kind = "lookup"
         THEN Goto(o, "search") /\ UNCHANGED fresh
         ELSE /\ Goto(o, "put")
              /\ fresh' = [fresh EXCEPT ![o] = EntryAt(o, clock)]
    /\ UNCHANGED <<clock, table, call>>

\* The semantic tier, whose best entry is the answer.
LookupSemantic(o) ==
    /\ pc[o] = "search"
    /\ LET in   == call[o].in
           hits == SearchSemantic(Live, in.tenant, Fingerprint(in, in.model), in.query)
       IN  IF hits = {} THEN End(o, None) ELSE \E e \in hits : End(o, e.text)
    /\ UNCHANGED <<clock, table, call, fresh>>

\* Fault: the store does not replace an entry that is there.
StoreKeepsOld(o) ==
    /\ pc[o] = "put"
    /\ table' = table \cup {fresh[o]}
    /\ End(o, Stored)
    /\ UNCHANGED <<clock, call, fresh>>

Store(o) ==
    /\ pc[o] = "put"
    /\ table' = PutEntry(table, fresh[o])
    /\ End(o, Stored)
    /\ UNCHANGED <<clock, call, fresh>>

\* Whatever a call to the backend or the embedder raises becomes a miss; a write
\* may have been made before it raised.
Fail(o) ==
    /\ pc[o] # "done"
    /\ End(o, None)
    /\ \/ UNCHANGED table
       \/ pc[o] = "put" /\ table' = PutEntry(table, fresh[o])
    /\ UNCHANGED <<clock, call, fresh>>

Tick ==
    /\ clock < MaxTime
    /\ clock' = clock + 1
    /\ UNCHANGED <<table, call, pc, fresh, answer>>

Next ==
    \/ Tick
    \/ \E o \in Ops : \/ LookupExact(o) \/ Embed(o) \/ LookupSemantic(o)
                      \/ Store(o) \/ Fail(o)

Spec == Init /\ [][Next]_vars

-----------------------------------------------------------------------------
(* What the cache must guarantee.                                          *)

TypeOK ==
    /\ clock \in 0 .. MaxTime /\ table \subseteq Entry /\ call \in [Ops -> Asked]
    /\ pc \in [Ops -> {"exact", "embed", "search", "put", "done"}]
    /\ fresh \in [Ops -> Entry \cup {NoEntry}]
    /\ answer \in [Ops -> Ops \cup {None, Stored, Pending}]

\* An operation waits where its kind does.
StepsMatchKind ==
    \A o \in Ops : /\ answer[o] = Pending <=> pc[o] # "done"
                   /\ pc[o] \in {"exact", "search"} => call[o].kind = "lookup"
                   /\ pc[o] = "put" => call[o].kind = "store" /\ fresh[o] # NoEntry

\* What a store has built, it built for its own request, and not in the future.
BuiltInTime ==
    \A o \in Ops : fresh[o] # NoEntry => \E t \in 0 .. clock : fresh[o] = EntryAt(o, t)

\* The table holds entries as their stores built them, one for each tenant and key.
TableIsFunctional ==
    /\ \A e \in table : fresh[e.text] = e /\ pc[e.text] = "done"
    /\ \A e, f \in table : e.tenant = f.tenant /\ e.key = f.key => e = f

\* Where something was stored there is an entry ever after.
PlacesStayTaken ==
    \A s \in Ops : answer[s] = Stored =>
        /\ fresh[s] # NoEntry
        /\ \E e \in table : e.tenant = fresh[s].tenant /\ e.key = fresh[s].key

\* The inductive invariant.
IInv == TypeOK /\ StepsMatchKind /\ BuiltInTime /\ TableIsFunctional /\ PlacesStayTaken

\* When the text of store s stops being served.
Deadline(s) == fresh[s].created + (IF call[s].ttl \in Nat \ {0} THEN call[s].ttl ELSE DefaultTtl)

\* No text is served from its deadline on, however long the lookup or the store
\* has been waiting (cache/backend.py:47, cache/engine.py:107-114).
ServedWithinLifetime ==
    [][\A o \in Ops : answer'[o] # answer[o] /\ answer'[o] \in Ops
            => clock < Deadline(answer'[o])]_vars

\* A lookup misses in the end only if nothing near enough was stored, or it is past
\* its deadline, or another store for the same question took its place and is.
\* A time to live of zero is the default one here (cache/engine.py:107).
StoredIsFound ==
    [][\A o \in Ops, s \in Ops :
         (LookupSemantic(o) /\ answer'[o] = None /\ answer[s] = Stored) =>
            LET near == /\ fresh[s].key.fp = KeyFor(o).fp
                        /\ Similarity[KeyFor(o).query, fresh[s].key.query] >= Threshold
            IN  near => \E r \in Ops : /\ pc[r] = "done" /\ fresh[r] # NoEntry
                                       /\ fresh[r].key = fresh[s].key
                                       /\ Deadline(r) <= clock]_vars

Asks == [o \in Ops |->
    LET in == call[o].in
    IN  [kind |-> call[o].kind, query |-> in.query,
         scope |-> <<in.tenant, in.namespace, in.model, in.system>>]]

Atomic == INSTANCE AtomicCache
    WITH asks <- Asks, live <- {e.text : e \in Live}

\* Two tiers read at different times, with an await between them, and a backend
\* that keeps dead entries are, to callers, one table read in one instant.
ImplementsAtomicCache == Atomic!AbsSpec

=============================================================================
