------------------------- MODULE MC_AuthorityLedger -------------------------
(* AuthorityLedger for TLC: two threads and a queue that overflows. *)
EXTENDS AuthorityLedger
=============================================================================
