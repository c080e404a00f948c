---------------------------- MODULE MCStreamBudget ----------------------------
(* Instances of StreamBudget for TLC. *)
EXTENDS StreamBudget, TLC

ConnSymmetry == Permutations(Conns) \cup Permutations(NackIds)
=============================================================================
