---------------------------- MODULE MC_PiBridge ----------------------------
(* PiBridge for TLC. *)
EXTENDS PiBridge
=============================================================================
