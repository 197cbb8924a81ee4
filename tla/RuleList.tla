------------------------------- MODULE RuleList -------------------------------
(***************************************************************************)
(* The list of rules in the alert manager: records with at least a key,    *)
(* in the order in which Evaluate looks at them.                           *)
(***************************************************************************)
EXTENDS Integers, Sequences, FiniteSets

\* A finite set of numbers, in order.
Ascending(S) ==
  [n \in 1..Cardinality(S) |-> CHOOSE x \in S : Cardinality({y \in S : y <= x}) = n]

Has(rules, k) == \E i \in DOMAIN rules : rules[i].key = k

DistinctKeys(rules) ==
  \A i, j \in DOMAIN rules : rules[i].key = rules[j].key => i = j

\* The value of the rule with key k, or none.
ValueIn(rules, k, none) ==
  IF Has(rules, k) THEN rules[CHOOSE i \in DOMAIN rules : rules[i].key = k].value ELSE none

\* Manager.SetRule: in the rule's place, or at the end.
WithRule(rules, rule) ==
  IF Has(rules, rule.key)
  THEN [i \in DOMAIN rules |-> IF rules[i].key = rule.key THEN rule ELSE rules[i]]
  ELSE Append(rules, rule)

\* Manager.DeleteRule.
WithoutKey(rules, k) ==
  LET kept == Ascending({i \in DOMAIN rules : rules[i].key # k})
  IN [j \in DOMAIN kept |-> rules[kept[j]]]

Among(rules) == {rules[i] : i \in DOMAIN rules}

\* The first rule that is one of fitting, as a set of at most one rule.
FirstFit(rules, fitting) ==
  {rules[i] : i \in {j \in DOMAIN rules :
                       rules[j] \in fitting /\ \A h \in 1..(j - 1) : rules[h] \notin fitting}}
===============================================================================
