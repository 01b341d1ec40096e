----------------------------- MODULE MC_DoHRecency -----------------------------
(* Instances of DoHRecency for TLC. *)
EXTENDS DoHRecency

CONSTANT r1
=============================================================================
