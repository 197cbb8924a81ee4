----------------------------- MODULE MCAlertRules -----------------------------
(***************************************************************************)
(* Instances of AlertRules for TLC.  The keys are, in the order of the     *)
(* database: 1 latency of all nodes, 2 latency of one node, 3 loss of all  *)
(* nodes and 4 offline of all nodes.                                       *)
(***************************************************************************)
EXTENDS AlertRules, TLC

CONSTANTS r1, r2

Handlers == Permutations({r1, r2})
===============================================================================
