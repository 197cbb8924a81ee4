----------------------------- MODULE MCAlertWatch -----------------------------
(***************************************************************************)
(* Instances of AlertWatch for TLC: one node, two tasks.                   *)
(***************************************************************************)
EXTENDS AlertWatch, TLC

CONSTANTS n, a, b, none

Offline == [kind |-> "offline", node |-> n, task |-> none, value |-> 1]
Slow(t) == [kind |-> "latency", node |-> n, task |-> t, value |-> 9]
Quick(t) == [kind |-> "latency", node |-> n, task |-> t, value |-> 1]

MCReadings == {Offline, Slow(a), Quick(b)}

MCRule(k, m, v, until, W) ==
  [key |-> [kind |-> k, node |-> m], threshold |-> v,
   silenceUntil |-> until, muteWindows |-> W]

Midnight == [start |-> 4, end |-> 1]
Empty == [start |-> 2, end |-> 2]

\* The latency rule of all nodes is silent at first.
MCRules == <<MCRule("offline", AnyNode, 1, 0, {Empty}), MCRule("latency", AnyNode, 5, 4, {})>>

MCRuleChoices ==
  {MCRule("latency", AnyNode, 5, 0, {}), MCRule("latency", n, 1, 0, {}),
   MCRule("offline", AnyNode, 1, 0, {Midnight})}
===============================================================================
