------------------------------ MODULE Assembly ------------------------------
(***************************************************************************)
(* ContextAssembler.assemble (assembler/engine.py, assembler/budget.py):   *)
(* the hard reserves are checked, the best candidates by blended score are *)
(* reordered for diversity (MMR), packed greedily into what the reserves   *)
(* leave of the window, and placed with the strongest at the edges.        *)
(*                                                                         *)
(* Scores and similarities are integers in percent; the blend of the raw   *)
(* signals into a score and the counting of a text's tokens are inputs.  A *)
(* definition introduced by "Fault:" is a deliberately wrong variant of    *)
(* the one after it; no specification uses it.                             *)
(***************************************************************************)
EXTENDS Integers, Sequences, FiniteSets, SequencesExt, Ordering

CONSTANTS
    Blocks,       \* memory ids
    IdOrder,      \* their order as strings
    Scores,       \* blended scores that occur
    Sizes,        \* token counts that occur
    Similarity,   \* cosine of two blocks' embeddings, in percent
    Lambda,       \* mmr_lambda, in percent
    TopK,         \* MMR_TOPK
    Budgets,      \* the token budgets that occur
    Heading,      \* tokens of the line above the memories in a prompt
    Bullet        \* tokens of what sets off each memory below it

ASSUME BlocksAssumption ==
    /\ IsFiniteSet(Blocks)
    /\ IdOrder \in [Blocks -> Nat]
    /\ \A a, b \in Blocks : IdOrder[a] = IdOrder[b] => a = b
    /\ Scores \subseteq 0 .. 100 /\ Sizes \subseteq Nat
    /\ Similarity \in [Blocks \X Blocks -> -100 .. 100]

ASSUME LimitsAssumption ==
    /\ Lambda \in 0 .. 100 /\ TopK \in Nat \ {0}
    /\ Heading \in Nat /\ Bullet \in Nat
    /\ \A b \in Budgets : {b.window, b.output, b.system, b.user} \subseteq Nat

VARIABLES
    pc,          \* "check", "mmr", "pack", "done", "overflow" or "failed"
    cands,       \* the candidates, in the order retrieve returned them
    score,       \* their blended scores
    size,        \* their token counts
    budget,
    pool,        \* those MMR has yet to choose from, best score first
    maxSim,      \* each one's largest similarity to a chosen one
    selected,    \* those it has chosen, in that order
    used,        \* tokens packed so far
    decisions,   \* verdicts so far: block and whether kept
    placed       \* the kept blocks as they appear in the prompt

inputs == <<cands, score, size, budget>>
vars   == <<pc, inputs, pool, maxSim, selected, used, decisions, placed>>

HardFloor  == budget.output + budget.system + budget.user
SoftBudget == IF budget.window > HardFloor THEN budget.window - HardFloor ELSE 0

Decision == [block : Blocks, kept : BOOLEAN]
Kept     == {decisions[i].block : i \in {j \in 1 .. Len(decisions) : decisions[j].kept}}

TypeOK ==
    /\ pc \in {"check", "mmr", "pack", "done", "overflow", "failed"}
    /\ cands \in Seq(Blocks) /\ pool \in Seq(Blocks)
    /\ selected \in Seq(Blocks) /\ placed \in Seq(Blocks)
    /\ score \in [ToSet(cands) -> Scores] /\ size \in [ToSet(cands) -> Sizes]
    /\ budget \in Budgets
    /\ maxSim \in [Blocks -> 0 .. 100]
    /\ used \in Nat
    /\ decisions \in Seq(Decision)

\* What a caller may hand over: distinct candidates in any order.
Init ==
    /\ pc = "check"
    /\ cands \in UNION {SetToAllKPermutations(S) : S \in SUBSET Blocks}
    /\ score \in [ToSet(cands) -> Scores]
    /\ size \in [ToSet(cands) -> Sizes]
    /\ budget \in Budgets
    /\ pool = <<>> /\ selected = <<>> /\ placed = <<>> /\ decisions = <<>>
    /\ maxSim = [b \in Blocks |-> 0]
    /\ used = 0

-----------------------------------------------------------------------------
(* assemble                                                                *)

At(b) == CHOOSE i \in 1 .. Len(cands) : cands[i] = b

\* Three orders of the candidates, as pairs of one and another that comes after it:
\* as they were handed over; by score, descending, equal scores keeping that order;
\* by score, ascending, equal scores by id.
Pairs   == ToSet(cands) \X ToSet(cands)
Earlier == {p \in Pairs : At(p[1]) < At(p[2])}
Better  == {p \in Pairs : \/ score[p[1]] > score[p[2]]
                          \/ score[p[1]] = score[p[2]] /\ At(p[1]) < At(p[2])}
Weaker  == {p \in Pairs : \/ score[p[1]] < score[p[2]]
                          \/ score[p[1]] = score[p[2]] /\ IdOrder[p[1]] < IdOrder[p[2]]}

\* Fault: the weakest come first.
RankedAscending == Ordered(ToSet(cands), Weaker)

\* sorted(scored, reverse=True), which is stable.
Ranked == Ordered(ToSet(cands), Better)

\* Fault: the output reserve is not part of the floor.
CheckWithoutOutput ==
    /\ pc = "check"
    /\ IF budget.system + budget.user > budget.window
         THEN pc' = "overflow" /\ UNCHANGED pool
         ELSE pc' = "mmr" /\ pool' = SubSeq(Ranked, 1, IF Len(cands) < TopK THEN Len(cands) ELSE TopK)
    /\ UNCHANGED <<inputs, maxSim, selected, used, decisions, placed>>

\* check_hard_reserves raises before any work; otherwise the best TopK are
\* ranked, and the embedder is awaited for them.
Check ==
    /\ pc = "check"
    /\ IF HardFloor > budget.window
         THEN pc' = "overflow" /\ UNCHANGED pool
         ELSE pc' = "mmr" /\ pool' = SubSeq(Ranked, 1, IF Len(cands) < TopK THEN Len(cands) ELSE TopK)
    /\ UNCHANGED <<inputs, maxSim, selected, used, decisions, placed>>

\* The embedder raises; it is not called for no candidates.
EmbedFails ==
    /\ pc = "mmr" /\ selected = <<>> /\ pool # <<>>
    /\ pc' = "failed"
    /\ UNCHANGED <<inputs, pool, maxSim, selected, used, decisions, placed>>

\* Relevance against redundancy.
Marginal(b) == Lambda * score[b] - (100 - Lambda) * maxSim[b]

\* One round of MMR: the first in the pool of the largest marginal is chosen and
\* the others' similarities are brought up to date.
Select ==
    /\ pc = "mmr" /\ pool # <<>>
    /\ \E i \in 1 .. Len(pool) :
         /\ \A j \in 1 .. Len(pool) :
              \/ Marginal(pool[i]) > Marginal(pool[j])
              \/ Marginal(pool[i]) = Marginal(pool[j]) /\ i <= j
         /\ selected' = Append(selected, pool[i])
         /\ pool' = RemoveAt(pool, i)
         /\ maxSim' = [b \in Blocks |->
              IF b \in ToSet(pool) \ {pool[i]} /\ Similarity[b, pool[i]] > maxSim[b]
                THEN Similarity[b, pool[i]] ELSE maxSim[b]]
    /\ UNCHANGED <<pc, inputs, used, decisions, placed>>

\* The rounds are over.
SelectEnds ==
    /\ pc = "mmr" /\ pool = <<>>
    /\ pc' = "pack"
    /\ UNCHANGED <<inputs, pool, maxSim, selected, used, decisions, placed>>

Decide(b, kept) == decisions' = Append(decisions, [block |-> b, kept |-> kept])

\* Fault: after the first block that does not fit, none is kept.
PackUntilFull ==
    /\ pc = "pack" /\ Len(decisions) < Len(selected)
    /\ LET b == selected[Len(decisions) + 1]
       IN  IF used + size[b] <= SoftBudget /\ \A i \in 1 .. Len(decisions) : decisions[i].kept
             THEN Decide(b, TRUE) /\ used' = used + size[b]
             ELSE Decide(b, FALSE) /\ UNCHANGED used
    /\ UNCHANGED <<pc, inputs, pool, maxSim, selected, placed>>

\* The knapsack takes the blocks in MMR order, each if it still fits.
Pack ==
    /\ pc = "pack" /\ Len(decisions) < Len(selected)
    /\ LET b == selected[Len(decisions) + 1]
       IN  IF used + size[b] <= SoftBudget
             THEN Decide(b, TRUE) /\ used' = used + size[b]
             ELSE Decide(b, FALSE) /\ UNCHANGED used
    /\ UNCHANGED <<pc, inputs, pool, maxSim, selected, placed>>

\* Fault: the kept blocks alternate in the order they were packed.
EdgeLoadUnsorted(S) ==
    LET up == SelectSeq(selected, LAMBDA b : b \in S)
    IN  [i \in 1 .. Len(up) |->
            IF i <= Len(up) \div 2 THEN up[2 * (Len(up) \div 2 + 1 - i)]
            ELSE up[2 * (i - Len(up) \div 2) - 1]]

\* _edge_load: weakest first, ties by id, to the back and to the front in turn.
\* The even ones end up in front, in reverse; the odd ones behind them.
EdgeLoad(S) ==
    LET up == Ordered(S, Weaker)
    IN  [i \in 1 .. Len(up) |->
            IF i <= Len(up) \div 2 THEN up[2 * (Len(up) \div 2 + 1 - i)]
            ELSE up[2 * (i - Len(up) \div 2) - 1]]

\* The kept blocks are placed and those below the top K get their verdict.
Finish ==
    LET rest == Ordered(ToSet(cands) \ ToSet(selected), Earlier)
    IN  /\ pc = "pack" /\ Len(decisions) = Len(selected)
        /\ decisions' = decisions \o [i \in 1 .. Len(rest) |-> [block |-> rest[i], kept |-> FALSE]]
        /\ placed' = EdgeLoad(Kept)
        /\ pc' = "done"
        /\ UNCHANGED <<inputs, pool, maxSim, selected, used>>

Next == Check \/ EmbedFails \/ Select \/ SelectEnds \/ Pack \/ Finish

Spec == Init /\ [][Next]_vars

-----------------------------------------------------------------------------
(* What the assembler must guarantee.                                      *)

TokensOf(S) == FoldSet(LAMBDA b, n : n + size[b], 0, S)

\* The knapsack's count holds: the texts of the memories in the prompt and what the
\* reserves set aside for the system prompt, the user's turn and the answer are no
\* more than the window.  It is not the prompt's: see RenderedPromptFits.
PackedBlocksFit ==
    pc = "done" => HardFloor + TokensOf(ToSet(placed)) <= budget.window

\* The pack is maximal: no candidate that took part in it and was left out would
\* still fit, although the greedy pass met it when less was packed.
NoRoomForEvicted ==
    pc = "done" =>
        \A b \in ToSet(selected) \ ToSet(placed) : used + size[b] > SoftBudget

\* Diversity and packing never crowd out the best candidate: one of the highest
\* score is in the prompt, if those of that score fit the budget by themselves.
BestIsPlaced ==
    pc = "done" =>
        LET best == {b \in ToSet(cands) : \A c \in ToSet(cands) : score[b] >= score[c]}
        IN  (best # {} /\ \A b \in best : size[b] <= SoftBudget) => best \cap ToSet(placed) # {}

\* The decision record is complete: each candidate has one verdict, which says
\* whether it is in the prompt, and each is in the prompt at most once.
VerdictsMatchPrompt ==
    pc = "done" =>
        /\ \A b \in ToSet(cands) :
             Cardinality({i \in 1 .. Len(decisions) : decisions[i].block = b}) = 1
        /\ Len(decisions) = Len(cands)
        /\ Kept = ToSet(placed) /\ Len(placed) = Cardinality(Kept)

\* Lost in the middle: no block stands between two that are both weaker.
ValleyShaped ==
    pc = "done" =>
        \A i, j, k \in 1 .. Len(placed) :
            i < j /\ j < k => \/ score[placed[j]] <= score[placed[i]]
                              \/ score[placed[j]] <= score[placed[k]]

\* Behind these: what is packed is counted and within the budget at every step,
\* and a block is in the pool, chosen, or below the top K, never in two of them.
IInv ==
    /\ TypeOK
    /\ used = TokensOf(Kept) /\ used <= SoftBudget
    /\ ToSet(pool) \cup ToSet(selected) \subseteq ToSet(cands)
    /\ Len(pool) + Len(selected) = Cardinality(ToSet(pool) \cup ToSet(selected))
    /\ pc = "pack" => \A i \in 1 .. Len(decisions) : decisions[i].block = selected[i]
    /\ VerdictsMatchPrompt /\ ValleyShaped

-----------------------------------------------------------------------------
(* What the documents say and the code does not do.                        *)

\* What _render makes of the memories: below a heading, each behind a bullet.
TokensRendered == IF placed = <<>> THEN 0
                  ELSE Heading + Bullet * Len(placed) + TokensOf(ToSet(placed))

\* 2.2-context-assembler.md:210-211: "real = model.tokenizer.count(packed.render())",
\* and what is shipped has "real <= packed.budget.window_tokens -
\* packed.budget.output_reserve".  The knapsack counts the memories' texts alone, and
\* nothing counts again what has been rendered.
RenderedPromptFits == pc = "done" => HardFloor + TokensRendered <= budget.window

=============================================================================
