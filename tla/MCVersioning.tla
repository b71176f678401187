---------------------------- MODULE MCVersioning ----------------------------
(* Instances of Versioning for TLC.                                          *)
EXTENDS Versioning, TLC

Symmetry ==
    Permutations(Callers) \cup Permutations(Memories) \cup Permutations(Tenants)
        \cup Permutations(Namespaces) \cup Permutations(Branches)

=============================================================================
