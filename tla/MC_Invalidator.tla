----------------------------- MODULE MC_Invalidator -----------------------------
(* Instances of Invalidator for TLC. *)
EXTENDS Invalidator, TLC

(* Safety only: the liveness runs use no symmetry. *)
Symmetry == Permutations(Keys) \cup Permutations(Requests)
              \cup Permutations(Sessions) \cup Permutations(Polls)

=============================================================================
