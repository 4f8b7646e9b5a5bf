-------------------------- MODULE MC_BlockCacheRecency --------------------------
(* Instances of BlockCacheRecency for TLC. *)
EXTENDS BlockCacheRecency, TLC

Symmetry == Permutations(Keys) \cup Permutations(Requests)

=============================================================================
