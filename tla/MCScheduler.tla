------------------------------ MODULE MCScheduler ------------------------------
(***************************************************************************)
(* Instances of Scheduler for TLC.                                         *)
(***************************************************************************)
EXTENDS Scheduler, TLC

CONSTANTS x, y

MCRow(c, m, i) == [client |-> c, name |-> m, interval |-> i, enabled |-> TRUE]

\* One task for every node, and an id that is still free.
OneTask == [i \in Ids |-> IF i = 1 THEN MCRow(Global, x, 2) ELSE NoRow]

MCIntervals == {0}
===============================================================================
