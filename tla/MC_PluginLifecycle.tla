------------------------- MODULE MC_PluginLifecycle -------------------------
(* Two calls that compete for one connection, and pools enough to prepare a
   second time, to fail, and to prepare again after a deactivation. *)
EXTENDS PluginLifecycle

CONSTANTS c1, c2

MCCalls == {c1, c2}
=============================================================================
