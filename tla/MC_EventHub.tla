------------------------- MODULE MC_EventHub -------------------------
(* EventHub for TLC: one client, or two in the run that needs them. *)
EXTENDS EventHub
======================================================================
