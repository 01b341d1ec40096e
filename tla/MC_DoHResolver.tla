---------------------------- MODULE MC_DoHResolver ----------------------------
(* Instances of DoHResolver for TLC. *)
EXTENDS DoHResolver

CONSTANTS r1, r2, r3
=============================================================================
