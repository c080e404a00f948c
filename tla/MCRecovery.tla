------------------------------ MODULE MCRecovery ------------------------------
(* Instances of RecoveryCheckpoints for TLC. *)
EXTENDS RecoveryCheckpoints, TLC

PeerSymmetry == Permutations(Peers)

===============================================================================
