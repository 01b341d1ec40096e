---------------------------- MODULE MC_DnstapWriter ----------------------------
(* Instances of DnstapWriter for TLC. *)
EXTENDS DnstapWriter
=============================================================================
