--------------------------- MODULE MCConsolidation ---------------------------
(* Instances of Consolidation for TLC.                                       *)
EXTENDS Consolidation, TLC

Symmetry == Permutations(Jobs) \cup Permutations(Drains) \cup Permutations(Memories)

=============================================================================
