----------------------------- MODULE MCConfigStore -----------------------------
(***************************************************************************)
(* Instances of ConfigStore for TLC.                                       *)
(***************************************************************************)
EXTENDS ConfigStore

MCZeroTime == -1
===============================================================================
