-------------------------- MODULE MCRefreshRotation --------------------------
(* Instances of RefreshRotation for TLC. *)
EXTENDS RefreshRotation, TLC

Symmetry == Permutations(Tokens) \cup Permutations(Keys)
            \cup Permutations(Requests) \cup Permutations(Instances)
=============================================================================
