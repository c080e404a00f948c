------------------------------- MODULE MCEgress -------------------------------
(* Instances of Egress for TLC. *)
EXTENDS Egress, TLC
=============================================================================
