----------------------------- MODULE Retrieval -----------------------------
(***************************************************************************)
(* MemoryEngine.retrieve (memory/engine.py, memory/scoring.py): the rows   *)
(* in scope are ranked twice, by cosine and by BM25; the two ranks are     *)
(* fused, rescored with recency and importance, and the result is picked   *)
(* one by one for relevance against redundancy, near-duplicates of what is *)
(* picked collapsing.  Pipeline's Candidates are what this returns.        *)
(*                                                                         *)
(* Cosines, recency, importance and weights are in percent, BM25 scores    *)
(* are compared only; the reciprocal ranks are exact.  A definition        *)
(* introduced by "Fault:" is a deliberately wrong variant of the one after *)
(* it; no specification uses it.                                           *)
(***************************************************************************)
EXTENDS Integers, Sequences, FiniteSets, SequencesExt

CONSTANTS
    Memories,
    Likeness,        \* cosine of two memories' embeddings
    Cosines, Bm25s,  \* the scores against the query that occur
    Signals,         \* the recency factors and importances that occur
    Ks,              \* the k that callers pass
    RrfK,            \* RRF_K
    Unit,            \* 1 of a reciprocal rank: a multiple of each RrfK + rank
    NDense, NSparse, MaxCandidates, MmrLambda, CosDup

ASSUME ScoresAssumption ==
    /\ IsFiniteSet(Memories)
    /\ Likeness \in [Memories \X Memories -> -100 .. 100]
    /\ \A a, b \in Memories : Likeness[a, b] = Likeness[b, a]
    /\ Cosines \subseteq -100 .. 100 /\ Bm25s \subseteq Nat
    /\ Signals \subseteq [recency : 0 .. 100, importance : 0 .. 100]

ASSUME CutsAssumption ==
    /\ Ks \subseteq Nat \ {0}
    /\ NDense \in Nat \ {0} /\ NSparse \in Nat \ {0} /\ MaxCandidates \in Nat \ {0}
    /\ MmrLambda \in 0 .. 100 /\ CosDup \in 1 .. 100
    /\ Unit \in Nat \ {0} /\ RrfK \in Nat
    /\ \A r \in 1 .. NDense + NSparse : r <= NDense \/ r <= NSparse => Unit % (RrfK + r) = 0

VARIABLES
    phase,       \* "list", "embed", "mmr", "done" or "failed"
    rows,        \* the rows in scope, in the store's order
    cosine, bm25, signal,
    limit,       \* the k of the call
    rrf,         \* the fused scores of the candidates
    picked,      \* what MMR has picked, in that order
    result

given        == <<rows, cosine, bm25, signal, limit>>
retrieveVars == <<phase, given, rrf, picked, result>>

RetrieveTypeOK ==
    /\ phase \in {"list", "embed", "mmr", "done", "failed"}
    /\ rows \in Seq(Memories)
    /\ cosine \in [ToSet(rows) -> Cosines] /\ bm25 \in [ToSet(rows) -> Bm25s]
    /\ signal \in [ToSet(rows) -> Signals]
    /\ limit \in Ks
    /\ DOMAIN rrf \subseteq ToSet(rows) /\ \A m \in DOMAIN rrf : rrf[m] \in Nat \ {0}
    /\ picked \in Seq(DOMAIN rrf) /\ result \in Seq(DOMAIN rrf)

RetrieveInit ==
    /\ phase = "list"
    /\ rows \in UNION {SetToAllKPermutations(S) : S \in SUBSET Memories}
    /\ cosine \in [ToSet(rows) -> Cosines] /\ bm25 \in [ToSet(rows) -> Bm25s]
    /\ signal \in [ToSet(rows) -> Signals]
    /\ limit \in Ks
    /\ rrf = [m \in {} |-> 0] /\ picked = <<>> /\ result = <<>>

-----------------------------------------------------------------------------
(* The two lists and their fusion.                                         *)

Place(m) == CHOOSE i \in 1 .. Len(rows) : rows[i] = m

\* The place of m among the rows sorted by a score, descending; ties keep the
\* store's order.
Rank(score, m) ==
    1 + Cardinality({n \in ToSet(rows) : \/ score[n] > score[m]
                                         \/ score[n] = score[m] /\ Place(n) < Place(m)})

\* Every row is ranked by cosine, those that share a token with the query by BM25.
InDense(m)  == Rank(cosine, m) <= NDense
InSparse(m) == bm25[m] > 0 /\ Rank(bm25, m) <= NSparse

\* A row in neither list is no candidate.
Candidates == {m \in ToSet(rows) : InDense(m) \/ InSparse(m)}

Reciprocal(rank) == Unit \div (RrfK + rank)

\* rrf_fuse: the sum of the reciprocal ranks in the lists it appears in.
Fused(m) ==
    (IF InDense(m) THEN Reciprocal(Rank(cosine, m)) ELSE 0)
    + (IF InSparse(m) THEN Reciprocal(Rank(bm25, m)) ELSE 0)

-----------------------------------------------------------------------------
(* The score that candidates are picked by.                                *)

Lowest == CHOOSE f \in {rrf[m] : m \in DOMAIN rrf} : \A m \in DOMAIN rrf : f <= rrf[m]
Span   == (CHOOSE f \in {rrf[m] : m \in DOMAIN rrf} : \A m \in DOMAIN rrf : f >= rrf[m]) - Lowest

\* minmax_normalize, without the division: a score of 1 is 100 * Scale.  If all
\* are equal, each is 1.
Scale   == IF Span = 0 THEN 1 ELSE Span
Norm(m) == IF Span = 0 THEN 100 ELSE 100 * (rrf[m] - Lowest)

\* _selection_score.
Score(m) == 60 * Norm(m) + Scale * (25 * signal[m].recency + 15 * signal[m].importance)

\* Fault: only the last pick is looked at.
MaxSimToLast(m) == IF picked = <<>> THEN 0 ELSE Likeness[m, Last(picked)]

\* The largest similarity to what is picked; 0 if nothing is.
MaxSim(m) ==
    IF picked = <<>> THEN 0
    ELSE CHOOSE s \in {Likeness[m, n] : n \in ToSet(picked)} :
             \A n \in ToSet(picked) : s >= Likeness[m, n]

Gain(m) == MmrLambda * Score(m) - (100 - MmrLambda) * 100 * Scale * MaxSim(m)

\* The first of the largest gain in a pool sorted by score, stably.
Preferred(m, n) ==
    \/ Gain(m) > Gain(n)
    \/ Gain(m) = Gain(n) /\ (Score(m) > Score(n) \/ (Score(m) = Score(n) /\ Place(m) < Place(n)))

Alike(m, n) == Likeness[m, n] >= CosDup

\* Fault: duplicates of any better candidate collapse, picked or not.
EligibleUnlikeBetter ==
    {m \in DOMAIN rrf \ ToSet(picked) :
        \A n \in DOMAIN rrf \ {m} : Score(n) > Score(m) => ~Alike(m, n)}

\* What is left in the pool and duplicates nothing that is picked.
Eligible == {m \in DOMAIN rrf \ ToSet(picked) : MaxSim(m) < CosDup}

-----------------------------------------------------------------------------
(* retrieve                                                                *)

\* The store answers with the rows of its listing, at most SCAN_LIMIT of them, which
\* are all that the rest speaks of; with none, nothing is embedded.
ListRows ==
    /\ phase = "list"
    /\ phase' = IF rows = <<>> THEN "done" ELSE "embed"
    /\ UNCHANGED <<given, rrf, picked, result>>

\* The store raises, or the embedder, for the query or for the rows.
Fails ==
    /\ phase \in {"list", "embed"} /\ phase' = "failed"
    /\ UNCHANGED <<given, rrf, picked, result>>

\* Rows and query are embedded and scored, and the two lists fused.
Fuse ==
    /\ phase = "embed" /\ phase' = "mmr"
    /\ rrf' = [m \in Candidates |-> Fused(m)]
    /\ UNCHANGED <<given, picked, result>>

\* One round of _mmr.
Pick ==
    /\ phase = "mmr" /\ Len(picked) < MaxCandidates
    /\ \E m \in Eligible :
         /\ \A n \in Eligible \ {m} : Preferred(m, n)
         /\ picked' = Append(picked, m)
    /\ UNCHANGED <<phase, given, rrf, result>>

\* The rounds are over: the first k are returned.
PicksEnd ==
    /\ phase = "mmr" /\ (Len(picked) = MaxCandidates \/ Eligible = {})
    /\ phase' = "done"
    /\ result' = SubSeq(picked, 1, IF limit < Len(picked) THEN limit ELSE Len(picked))
    /\ UNCHANGED <<given, rrf, picked>>

RetrieveNext == ListRows \/ Fails \/ Fuse \/ Pick \/ PicksEnd

RetrieveSpec == RetrieveInit /\ [][RetrieveNext]_retrieveVars

-----------------------------------------------------------------------------
(* What retrieval must guarantee.                                          *)

\* The candidate of the highest score comes first, and of several the first in the
\* store's order: diversity and duplicates never cost the best (memory/engine.py:165-177).
BestIsFirst ==
    result # <<>> =>
        \A m \in DOMAIN rrf \ {result[1]} :
            \/ Score(result[1]) > Score(m)
            \/ Score(result[1]) = Score(m) /\ Place(result[1]) < Place(m)

\* What is picked is picked once, and no two of it say the same
\* (memory/engine.py:171-174); a result is what was picked first, and empty only
\* for an empty scope, which is what Pipeline assumes of it; and it begins with the best.
RetrieveInv ==
    /\ RetrieveTypeOK
    /\ \A i, j \in 1 .. Len(picked) : i # j => ~Alike(picked[i], picked[j])
    /\ IsPrefix(result, picked) /\ Len(result) <= limit
    /\ phase = "done" => (result = <<>> <=> rows = <<>>)
    /\ BestIsFirst

\* A row that is near the query by meaning or by words is returned, unless the
\* result is full or a row that says the same is in it: no row is lost to a
\* duplicate that is itself dropped (memory/engine.py:105-107, 167-182).
LeftOutIsAlike ==
    phase = "done" /\ Len(result) < limit /\ Len(picked) < MaxCandidates =>
        \A m \in ToSet(rows) \ ToSet(result) :
            \/ \E n \in ToSet(result) : Alike(m, n)
            \/ Rank(cosine, m) > NDense /\ (bm25[m] = 0 \/ Rank(bm25, m) > NSparse)

-----------------------------------------------------------------------------
(* What the documents say and the code does not do.                        *)

\* 2.1-memory-engine.md:361: "two memories that similar are the same fact and one is
\* discarded outright (keeping the higher-importance / more-recent one)".  What is
\* discarded is then not both more important and more recent than all it duplicates,
\* at least if the query is equally near to all of them.
KeepsMoreImportant ==
    phase = "done" => \A m \in DOMAIN rrf \ ToSet(picked) :
        LET kept == {n \in ToSet(picked) : Alike(m, n)}
        IN  (kept # {} /\ \A n \in kept : cosine[n] = cosine[m] /\ bm25[n] = bm25[m])
              => \E n \in kept : \/ signal[n].importance >= signal[m].importance
                                \/ signal[n].recency >= signal[m].recency

=============================================================================
