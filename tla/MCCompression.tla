---------------------------- MODULE MCCompression ----------------------------
(* Instances of Compression for TLC.                                         *)
EXTENDS Compression

CONSTANTS f, g, h

S(len, facts, overlap) == [len |-> len, facts |-> facts, overlap |-> overlap]

\* Short and long sentences, with and without facts and relevance.
Kinds == {S(4, {}, 0), S(5, {f}, 0), S(12, {g}, 2), S(12, {}, 1), S(30, {f, g}, 1)}

Prose(n) == {[sents |-> s, junk |-> IF n > 0 THEN n - 1 ELSE 30, slack |-> k] :
                 s \in [1 .. n -> Kinds], k \in {0, 6}}

\* "a=1.b=2.c=3. ...": sentences that nothing separates.
Fused == [sents |-> [i \in 1 .. 8 |-> S(4, {}, 0)], junk |-> 0, slack |-> 0]

MCTexts == Prose(0) \cup Prose(1) \cup Prose(2) \cup Prose(3) \cup {Fused}

\* An answer may be empty, keep, drop or make up facts, be short or long; h is new.
MCSummaries == [len : {0, 8, 60}, facts : SUBSET {f, g, h}]

=============================================================================
