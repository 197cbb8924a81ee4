------------------------------- MODULE MCStartup -------------------------------
(***************************************************************************)
(* Instances of Startup for TLC: three of the tables, three of the added   *)
(* columns, two of the secrets.                                            *)
(***************************************************************************)
EXTENDS Startup

CONSTANTS nodes, status_history, secrets, agent_token, jwt_secret

MCTables == <<nodes, status_history, secrets>>

MCAdded ==
  <<[table |-> nodes, column |-> "swap_total"], [table |-> nodes, column |-> "kernel_version"],
    [table |-> status_history, column |-> "uptime"]>>

MCKeys == <<agent_token, jwt_secret>>
===============================================================================
