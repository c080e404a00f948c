----------------------------- MODULE MCSentCache -----------------------------
(* Instances of SentCache for TLC. *)
EXTENDS SentCache, TLC

TrackSymmetry == Permutations(Tracks) \cup Permutations(Tags)

==============================================================================
