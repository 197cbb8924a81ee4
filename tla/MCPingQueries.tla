----------------------------- MODULE MCPingQueries -----------------------------
(***************************************************************************)
(* Instances of PingQueries, and with it of PingSummary, for TLC.          *)
(***************************************************************************)
EXTENDS PingQueries

CONSTANTS c1, c2

Symmetry == Permutations(Clients)
===============================================================================
