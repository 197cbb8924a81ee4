----------------------------- MODULE RuleRegistry -----------------------------
(***************************************************************************)
(* What the alert rules promise to whoever sets them, whatever is kept in  *)
(* memory and what in a table: one value per key is in use; a request that *)
(* has ended well, with no other on its key, survives a restart; and a     *)
(* restart changes no other key, except that a registry without any rule   *)
(* fills up with the defaults.  If what is stored cannot be read, in whole *)
(* or in part, a start does without it, and the next one may have it back. *)
(***************************************************************************)
CONSTANTS
  Keys, Values,
  None,         \* no value
  Defaults,     \* by key, a value or None
  Forced,       \* the set of the keys with a value on the command line
  MayLoseTable  \* may the stored values be unreadable at a start?

VARIABLES
  inUse,  \* inUse[k]: the value in use
  open    \* keys for which a restart may bring another value back

vars == <<inUse, open>>

Empty == [k \in Keys |-> None]

Init ==
  /\ inUse = Empty
  /\ open = {}

Request(k, v) ==
  /\ inUse' = [inUse EXCEPT ![k] = v]
  /\ open' = open \cup {k}

Settle(k) ==
  /\ open' = open \ {k}
  /\ UNCHANGED inUse

\* A key of the command line gets its value, whether or not it can be stored.
Force(k) ==
  /\ inUse' = [inUse EXCEPT ![k] = Defaults[k]]
  /\ open' \in {open, open \cup {k}}

Recover ==
  /\ inUse' \in [Keys -> Values \cup {None}]
  /\ \A k \in Keys \ open : inUse'[k] = inUse[k]
  /\ open' = {}

Fill ==
  /\ inUse = Empty \/ MayLoseTable
  /\ inUse' = Defaults
  /\ open' = {k \in Keys : inUse[k] # None \/ Defaults[k] # None}

\* A part of what is stored, and not nothing of it.
Lose ==
  /\ MayLoseTable
  /\ LET held == {k \in Keys : inUse[k] # None}
     IN \E lost \in SUBSET held :
          /\ lost # held
          /\ inUse' = [k \in Keys |-> IF k \in lost THEN None ELSE inUse[k]]
          /\ open' = open \cup lost

Next ==
  \/ \E k \in Keys : Settle(k) \/ \E v \in Values \cup {None} : Request(k, v)
  \/ \E k \in Forced : Force(k)
  \/ Recover
  \/ Fill
  \/ Lose

Spec == Init /\ [][Next]_vars
===============================================================================
