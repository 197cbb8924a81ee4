----------------------------- MODULE MCProbeTasks -----------------------------
(***************************************************************************)
(* Instances of ProbeTasks for TLC.                                        *)
(***************************************************************************)
EXTENDS ProbeTasks, TLC

CONSTANTS n1, n2, a, b, t1, t2

MCIntervals == {0, 30}

\* The targets differ in their hosts.
HostEach == [t \in Targets |-> t]

DeclaredProbe(i, m, t) == [batch |-> 1, pos |-> i, name |-> m, target |-> t]

\* Nobody declares a probe: every task is the admin's.
DeclaresNothing == [n \in Nodes |-> {}]

\* Node n1 declares a probe named like a task of the admin's.
DeclaresOne == [n \in Nodes |-> IF n = n1 THEN {DeclaredProbe(1, a, t1)} ELSE {}]
===============================================================================
