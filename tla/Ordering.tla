------------------------------ MODULE Ordering ------------------------------
(***************************************************************************)
(* Python's sorted(), as the assembler and the compressor use it.  A stable*)
(* sort orders what it is given totally, equal keys by position, and so    *)
(* puts each member behind exactly those that come before it.              *)
(***************************************************************************)
EXTENDS Naturals, FiniteSets

\* The members of S, listed in the order R: a set of pairs, in each of which the
\* first comes before the second.
Ordered(S, R) ==
    [n \in 1 .. Cardinality(S) |->
        CHOOSE x \in S : Cardinality({y \in S : <<y, x>> \in R}) = n - 1]

=============================================================================
