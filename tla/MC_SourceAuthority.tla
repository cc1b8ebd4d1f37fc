------------------------- MODULE MC_SourceAuthority -------------------------
(* SourceAuthority for TLC: one file, one run, one stream. *)
EXTENDS SourceAuthority
=============================================================================
