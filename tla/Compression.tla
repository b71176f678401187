---------------------------- MODULE Compression ----------------------------
(***************************************************************************)
(* ContextCompressor.compress (compressor/engine.py, compressor/guard.py)  *)
(* for one block of text: tidy it up; if it is still too long keep some    *)
(* whole sentences; if that is too long still and there is a model, ask it *)
(* for a summary, which the fact guard must pass.                          *)
(*                                                                         *)
(* Of a text the model keeps its length in characters and its facts, the   *)
(* words with a digit; of a sentence also how many words it shares with    *)
(* the query.  Tidying a text removes slack characters; tidied, it is its  *)
(* sentences and junk further characters: what separates them, which is    *)
(* nothing in "v1.2", and punctuation that belongs to no sentence.         *)
(*                                                                         *)
(* A definition introduced by "Fault:" is a deliberately wrong variant of  *)
(* the one after it; no specification uses it.                             *)
(***************************************************************************)
EXTENDS Integers, Sequences, FiniteSets, FiniteSetsExt, Ordering

CONSTANTS
    Facts,
    Texts,      \* the blocks that occur
    Targets,    \* the target_tokens that occur
    Summaries,  \* what a model may answer
    WithLlm     \* whether compress is given a model; the pipeline gives it none

Sentence == [len : Nat \ {0}, facts : SUBSET Facts, overlap : Nat]

ASSUME TextsAssumption ==
    /\ \A x \in Texts : /\ x.sents \in Seq(Sentence)
                        /\ x.junk \in Nat /\ x.slack \in Nat
    /\ \A s \in Summaries : s.len \in Nat /\ s.facts \subseteq Facts
    /\ Targets \subseteq Nat /\ WithLlm \in BOOLEAN

VARIABLES
    text, target,
    step,    \* "structural", "select", "summarize" or "done"
    todo,    \* the sentences to consider, best first
    kept,    \* those kept
    spent,   \* their tokens
    tier, out

compressVars == <<text, target, step, todo, kept, spent, tier, out>>

\* HeuristicTokenizer.count: four characters to a token, rounded up.
Count(len) == (len + 3) \div 4

All        == 1 .. Len(text.sents)
Lengths    == [i \in All |-> text.sents[i].len]
Costs      == [i \in All |-> Count(text.sents[i].len)]
SumOf(w, S) == FoldSet(LAMBDA i, n : n + w[i], 0, S)
FactsOf(S) == UNION {text.sents[i].facts : i \in S}

Tidied   == [len |-> SumOf(Lengths, All) + text.junk, facts |-> FactsOf(All)]
Original == [len |-> Tidied.len + text.slack, facts |-> Tidied.facts]

\* The kept sentences, joined by single spaces; a text without sentences as it is.
Extract ==
    IF All = {} THEN Tidied
    ELSE [len |-> SumOf(Lengths, kept) + Cardinality(kept) - 1, facts |-> FactsOf(kept)]

Unfinished == [len |-> 0, facts |-> {}]

CompressTypeOK ==
    /\ text \in Texts /\ target \in Targets
    /\ step \in {"structural", "select", "summarize", "done"}
    /\ todo \in Seq(All) /\ kept \subseteq All /\ spent \in Nat
    /\ tier \in {"none", "structural", "extractive", "abstractive"}
    /\ out.len \in Nat /\ out.facts \subseteq Facts

CompressInit ==
    /\ text \in Texts /\ target \in Targets
    /\ step = "structural"
    /\ todo = <<>> /\ kept = {} /\ spent = 0
    /\ tier = "none" /\ out = Unfinished

-----------------------------------------------------------------------------

\* Pairs of a sentence and another that is ranked after it: by words shared with the
\* query, then by position: the lead bias, at most 0.1, decides only between equal
\* overlaps.
Closer == {p \in All \X All :
    \/ text.sents[p[1]].overlap > text.sents[p[2]].overlap
    \/ text.sents[p[1]].overlap = text.sents[p[2]].overlap /\ p[1] < p[2]}

MostRelevantFirst == Ordered(All, Closer)

\* Fault: the guard looks for facts that were dropped, not for new ones.
GuardReversed(original, compressed) == original.facts \subseteq compressed.facts

\* fact_retention_ok: no fact that is not in the original.
Guard(original, compressed) == compressed.facts \subseteq original.facts

Return(result, t) == out' = result /\ tier' = t /\ step' = "done"

\* Tidying is enough (the tier is called "none" if it changed nothing), or the
\* sentences are ranked.
Structural ==
    /\ step = "structural"
    /\ IF Count(Tidied.len) <= target
         THEN Return(Tidied, "structural") /\ UNCHANGED todo
         ELSE step' = "select" /\ todo' = MostRelevantFirst /\ UNCHANGED <<tier, out>>
    /\ UNCHANGED <<text, target, kept, spent>>

Skip(i) ==
    /\ spent + Costs[i] > target /\ kept # {}
    /\ todo' = Tail(todo)
    /\ UNCHANGED <<kept, spent>>

Take(i) ==
    LET n == spent + Costs[i]
    IN  /\ n <= target \/ kept = {}
        /\ kept' = kept \cup {i} /\ spent' = n
        /\ todo' = IF n >= target THEN <<>> ELSE Tail(todo)

\* Fault: a sentence that does not fit is kept if the target is not reached yet.
ConsiderLoosely ==
    /\ step = "select" /\ todo # <<>>
    /\ LET n == spent + Costs[Head(todo)]
       IN  /\ kept' = kept \cup {Head(todo)} /\ spent' = n
           /\ todo' = IF n >= target THEN <<>> ELSE Tail(todo)
    /\ UNCHANGED <<text, target, step, tier, out>>

\* The next sentence is kept if it fits, the first one in any case; the target
\* reached, the rest is not looked at.
Consider ==
    /\ step = "select" /\ todo # <<>>
    /\ Take(Head(todo)) \/ Skip(Head(todo))
    /\ UNCHANGED <<text, target, step, tier, out>>

\* The selection is guarded; it is the result, unless it is too long and there
\* is a model to ask.  Whole sentences never fail the guard.
Extractive ==
    /\ step = "select" /\ todo = <<>>
    /\ IF ~Guard(Original, Extract) THEN Return(Tidied, "structural")
       ELSE IF WithLlm /\ Count(Extract.len) > target
         THEN step' = "summarize" /\ UNCHANGED <<tier, out>>
         ELSE Return(Extract, "extractive")
    /\ UNCHANGED <<text, target, todo, kept, spent>>

\* Fault: the summary's length is not looked at.
SummarizeAnyLength ==
    /\ step = "summarize"
    /\ \E s \in Summaries : IF s.len > 0 /\ Guard(Original, s)
                              THEN Return(s, "abstractive") ELSE Return(Extract, "extractive")
    /\ UNCHANGED <<text, target, todo, kept, spent>>

\* The model answers: a summary that is not empty, has no new facts and is no
\* longer than the extract replaces it.
Summarize ==
    /\ step = "summarize"
    /\ \E s \in Summaries :
         IF s.len > 0 /\ Guard(Original, s) /\ Count(s.len) <= Count(Extract.len)
           THEN Return(s, "abstractive") ELSE Return(Extract, "extractive")
    /\ UNCHANGED <<text, target, todo, kept, spent>>

\* The model raises: the extract stays.
SummarizeFails ==
    /\ step = "summarize"
    /\ Return(Extract, "extractive")
    /\ UNCHANGED <<text, target, todo, kept, spent>>

CompressNext == Structural \/ Consider \/ Extractive \/ Summarize \/ SummarizeFails

CompressSpec == CompressInit /\ [][CompressNext]_compressVars

-----------------------------------------------------------------------------
(* What the compressor must guarantee.                                     *)

\* Whatever the model answers, the result states no fact the block did not.
NothingFabricated ==
    /\ CompressTypeOK
    /\ step = "done" => out.facts \subseteq Original.facts

\* The extract meets its target as the tokens of its sentences go, unless it is
\* one sentence; it stops short of the target only if nothing more fits; and the
\* sentence closest to the query is in it, however long it is.
ExtractMeetsTarget ==
    step = "done" /\ tier = "extractive" /\ All # {} =>
        /\ spent = SumOf(Costs, kept)
        /\ spent > target => Cardinality(kept) = 1
        /\ spent < target => \A i \in All \ kept : spent + Costs[i] > target
        /\ \E i \in kept : \A j \in All : text.sents[i].overlap >= text.sents[j].overlap

\* A summary is used only where the extract was over target, and never makes the
\* result longer than the extract would have been.
SummaryPaysOff ==
    step = "done" /\ tier = "abstractive" =>
        Count(Extract.len) > target /\ Count(out.len) <= Count(Extract.len)

=============================================================================
