---------------------------- MODULE MCDiscovery ----------------------------
(* An instance of Discovery for TLC. *)
EXTENDS Discovery

\* The tables and the notifiers have only the goroutine of listen in common:
\* time passes in the behaviours without notifiers.
TablesOrNotifiers == now = 0 \/ notifyCount = 0
=============================================================================
