------------------------------ MODULE WorkerPool ------------------------------
(***************************************************************************)
(* What a bounded pool of workers promises, whoever asks for the work and  *)
(* whatever it is: a worker is only started on a free place, gives its     *)
(* place back exactly once, when its result is in or given up, and only    *)
(* those at work leave results.  A stop loses the workers, no results.     *)
(*                                                                         *)
(* A job is a pair of its work and a number that tells it from other jobs  *)
(* on the same work.  A result says which work it is of.                   *)
(***************************************************************************)
EXTENDS Integers

CONSTANT Capacity

VARIABLES
  active,  \* the jobs at work
  free,    \* places
  results  \* works that have left a result

vars == <<active, free, results>>

Init ==
  /\ active = {}
  /\ free = Capacity
  /\ results = {}

Start(job) ==
  /\ free > 0
  /\ job \notin active
  /\ active' = active \cup {job}
  /\ free' = free - 1
  /\ UNCHANGED results

Deliver(job) ==
  /\ results' = results \cup {job[1]}
  /\ UNCHANGED <<active, free>>

Finish(job) ==
  /\ active' = active \ {job}
  /\ free' = free + 1
  /\ UNCHANGED results

Stop ==
  /\ active' = {}
  /\ free' = Capacity
  /\ UNCHANGED results

Next ==
  \/ \E job \in active' : Start(job)
  \/ \E job \in active : Deliver(job) \/ Finish(job)
  \/ Stop

Spec == Init /\ [][Next]_vars
===============================================================================
