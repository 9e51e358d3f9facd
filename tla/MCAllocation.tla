---------------------------- MODULE MCAllocation ----------------------------
(* Allocation for TLC: every set is of values without a difference. *)
EXTENDS Allocation, TLC

Symmetry == Permutations(NewClients) \cup Permutations(Adds) \cup
            Permutations(TunnelIds) \cup Permutations(SignKeys)
=============================================================================
