---------------------------- MODULE CacheBackend ----------------------------
(***************************************************************************)
(* The data operations of the semantic cache: cache/keys.py (what two      *)
(* entries must share) and cache/backend.py (the exact tier, the semantic  *)
(* tier and the write).  An entry is a record with a key, a tenant and the *)
(* cached text; a table is a set of entries with distinct (tenant, key).   *)
(* Expiry is left to the caller, which passes the entries that are live.   *)
(*                                                                         *)
(* stable_facts_version is not a field of the fingerprint: both engine     *)
(* calls leave it at its default "v0", so it distinguishes nothing.        *)
(*                                                                         *)
(* A definition introduced by "Fault:" is a deliberately wrong variant of  *)
(* the one after it; no specification uses it.                             *)
(***************************************************************************)
EXTENDS Naturals

CONSTANTS
    Queries,      \* prompts
    Norm,         \* normalize_query: lower-cased, white space collapsed
    Similarity,   \* cosine of two normalized queries' embeddings, in percent
    Threshold     \* tau, in percent

ASSUME NormAssumption ==
    /\ Norm \in [Queries -> Queries]
    /\ \A q \in Queries : Norm[Norm[q]] = Norm[q]

ASSUME SimilarityAssumption ==
    /\ Similarity \in [Queries \X Queries -> 0 .. 100]
    /\ Threshold \in 0 .. 100

\* Fault: the system prompt's version is left out.
FingerprintWithoutSystem(in, model) ==
    [tenant |-> in.tenant, namespace |-> in.namespace, model |-> model, system |-> "any"]

\* What must match for a hit, whichever the tier.
Fingerprint(in, model) ==
    [tenant |-> in.tenant, namespace |-> in.namespace, model |-> model, system |-> in.system]

\* The exact-tier key: the fingerprint plus the normalized query.
KeyOf(in, model) ==
    [fp |-> Fingerprint(in, model), query |-> Norm[in.query]]

\* Exact tier: the tenant's entry under this key, if there is one.
GetExact(live, tenant, key) ==
    {e \in live : e.tenant = tenant /\ e.key = key}

\* Fault: an identical query is taken to be the exact tier's business.
SearchOthers(live, tenant, fp, query) ==
    {e \in live : /\ e.tenant = tenant
                  /\ e.key.fp = fp
                  /\ e.key.query # Norm[query]
                  /\ Similarity[Norm[query], e.key.query] >= Threshold}

\* Semantic tier: of the tenant's entries with this fingerprint whose query
\* reaches the threshold, those of the highest similarity.  The code keeps the
\* first of equals in insertion order, which the model does not track.
SearchSemantic(live, tenant, fp, query) ==
    LET near  == {e \in live : /\ e.tenant = tenant
                               /\ e.key.fp = fp
                               /\ Similarity[Norm[query], e.key.query] >= Threshold}
    IN  {e \in near : \A f \in near :
            Similarity[Norm[query], e.key.query] >= Similarity[Norm[query], f.key.query]}

\* One entry per tenant and key: a write replaces what was there.
PutEntry(table, entry) ==
    {e \in table : ~(e.tenant = entry.tenant /\ e.key = entry.key)} \cup {entry}

=============================================================================
