---------------------------- MODULE MCLocalSocket ----------------------------
(* Instances of LocalSocket for TLC. *)
EXTENDS LocalSocket

\* Neither the processes nor the connections are told apart.
Symmetry == Permutations(Procs) \cup Permutations(Conns)
=============================================================================
