------------------------------ MODULE MCNodeStore ------------------------------
(***************************************************************************)
(* Instances of NodeStore for TLC: one node.  Nodes meet in the purge only, *)
(* which treats each of them alike.                                        *)
(***************************************************************************)
EXTENDS NodeStore

CONSTANTS u1, eu, host, named, cpu, goarch

MCCores == {0, 4}
===============================================================================
