------------------------------ MODULE AlertRules ------------------------------
(***************************************************************************)
(* The alert rules, kept twice: in the memory of the alert manager, where  *)
(* they are evaluated, and in the table alert_rules.  A request of the     *)
(* admin API changes the one and then the other, without a lock around the *)
(* two; when the server starts it loads the table, and seeds it when there *)
(* is nothing in what it loaded.                                           *)
(*                                                                         *)
(* A rule is its key (kind and node) and a value, which stands for the     *)
(* threshold and the silence settings.  Keys are numbers in the order the  *)
(* database sorts them.                                                    *)
(***************************************************************************)
EXTENDS Integers, Sequences, FiniteSets, RuleList

CONSTANTS
  Requests,    \* request handlers of the admin API
  Keys,        \* (kind, node), sorted
  Values,
  NoRule,      \* "no such row"
  NoWish,      \* the API never changed a key
  OfflineAll, LatencyAll, LossAll,  \* the keys of the default rules
  AlertOffline,                     \* -alert-offline
  AlertLatency,                     \* -alert-latency-ms, a value, or NoRule for 0
  OfflineValue, LossValue,          \* thresholds of the other defaults
  Fallible,    \* which of "load", "seed", "override", "write" may fail
  MaxEdits,    \* bound: requests
  MaxFaults,   \* bound: failed statements
  MaxRestarts  \* bound: restarts of the server

Rule == [key: Keys, value: Values]

ASSUME KeysAssumption ==
  /\ Keys \subseteq Int /\ IsFiniteSet(Keys)
  /\ {OfflineAll, LatencyAll, LossAll} \subseteq Keys
  /\ OfflineAll # LatencyAll /\ OfflineAll # LossAll /\ LatencyAll # LossAll
ASSUME ValuesAssumption ==
  NoRule \notin Values /\ {OfflineValue, LossValue} \subseteq Values
  /\ AlertLatency \in Values \cup {NoRule} /\ AlertOffline \in BOOLEAN
ASSUME RuleBoundsAssumption == {MaxEdits, MaxFaults, MaxRestarts} \subseteq Nat

VARIABLES
  mem,      \* the manager's rules, in the order Evaluate looks at them
  db,       \* the rows of alert_rules
  phase,    \* of the server: "load", "seed", "override" or "run"
  todo,     \* the defaults the server has still to save
  req,      \* req[r]: the statement request r has still to run, or Idle
  edits, faults, restarts,
  wish,     \* history: what the API last confirmed it made of a key
  dirty     \* history: keys whose requests overlapped, or where one failed

vars == <<mem, db, phase, todo, req, edits, faults, restarts, wish, dirty>>

Idle == [key |-> 0, value |-> NoRule, busy |-> FALSE]

Save(k, v) == [key |-> k, value |-> v, busy |-> TRUE]   \* NoRule: delete

TypeOK ==
  /\ mem \in Seq(Rule)
  /\ db \in [Keys -> Values \cup {NoRule}]
  /\ phase \in {"load", "seed", "override", "run"}
  /\ todo \in Seq(Rule)
  /\ req \in [Requests -> [key: Keys \cup {0}, value: Values \cup {NoRule}, busy: BOOLEAN]]
  /\ \A r \in Requests : req[r].busy => req[r].key \in Keys
  /\ edits \in 0..MaxEdits /\ faults \in 0..MaxFaults /\ restarts \in 0..MaxRestarts
  /\ wish \in [Keys -> Values \cup {NoRule, NoWish}]
  /\ dirty \subseteq Keys
  /\ phase # "run" => \A r \in Requests : ~req[r].busy

Init ==
  /\ mem = <<>>
  /\ db = [k \in Keys |-> NoRule]
  /\ phase = "load"
  /\ todo = <<>>
  /\ req = [r \in Requests |-> Idle]
  /\ edits = 0 /\ faults = 0 /\ restarts = 0
  /\ wish = [k \in Keys |-> NoWish]
  /\ dirty = {}

Fault(s) == s \in Fallible /\ faults < MaxFaults /\ faults' = faults + 1

(***************************************************************************)
(* The start of the server.                                                *)
(***************************************************************************)

RuleFor(k, v) == [key |-> k, value |-> v]

\* ORDER BY kind, node.
Stored ==
  LET ks == Ascending({k \in Keys : db[k] # NoRule})
  IN [i \in DOMAIN ks |-> RuleFor(ks[i], db[ks[i]])]

When(c, s) == IF c THEN s ELSE <<>>

Defaults ==
  When(AlertOffline, <<RuleFor(OfflineAll, OfflineValue)>>)
  \o When(AlertLatency # NoRule, <<RuleFor(LatencyAll, AlertLatency)>>)
  \o <<RuleFor(LossAll, LossValue)>>

AfterLoad(rules) ==
  /\ mem' = IF rules = <<>> THEN Defaults ELSE rules
  /\ todo' = IF rules = <<>> THEN Defaults ELSE <<>>
  /\ phase' = IF rules = <<>> THEN "seed"
              ELSE IF AlertLatency # NoRule THEN "override" ELSE "run"

Load ==
  /\ phase = "load"
  /\ AfterLoad(Stored)
  /\ UNCHANGED <<db, req, edits, faults, restarts, wish, dirty>>

\* The error is logged, and the rows that were read before it are used; without
\* any, as when the query itself fails, the table counts as empty.
LoadFails ==
  /\ phase = "load"
  /\ Fault("load")
  /\ \E n \in 0..Len(Stored) :
       LET loaded == SubSeq(Stored, 1, n)
       IN /\ AfterLoad(loaded)
          /\ dirty' = dirty \cup {k \in Keys : db[k] # NoRule /\ ~Has(loaded, k)}
  /\ UNCHANGED <<db, req, edits, restarts, wish>>

SeedRule ==
  /\ phase = "seed"
  /\ todo # <<>>
  /\ db' = [db EXCEPT ![Head(todo).key] = Head(todo).value]
  /\ todo' = Tail(todo)
  /\ UNCHANGED <<mem, phase, req, edits, faults, restarts, wish, dirty>>

SeedFails ==
  /\ phase = "seed"
  /\ todo # <<>>
  /\ Fault("seed")
  /\ dirty' = dirty \cup {Head(todo).key}
  /\ todo' = Tail(todo)
  /\ UNCHANGED <<mem, db, phase, req, edits, restarts, wish>>

Seeded ==
  /\ phase = "seed"
  /\ todo = <<>>
  /\ phase' = "run"
  /\ UNCHANGED <<mem, db, todo, req, edits, faults, restarts, wish, dirty>>

\* The command line's latency threshold replaces the stored one.
OverrideLatency ==
  /\ phase = "override"
  /\ mem' = WithRule(mem, RuleFor(LatencyAll, AlertLatency))
  /\ phase' = "run"
  /\ \/ /\ db' = [db EXCEPT ![LatencyAll] = AlertLatency]
        /\ UNCHANGED <<faults, dirty>>
     \/ /\ Fault("override")
        /\ dirty' = dirty \cup {LatencyAll}
        /\ UNCHANGED db
  /\ UNCHANGED <<todo, req, edits, restarts, wish>>

(***************************************************************************)
(* Requests: the manager first, then the table.                            *)
(***************************************************************************)

Busy(k) == \E r \in Requests : req[r].busy /\ req[r].key = k

BeginEarly(r, k, v) ==   \* mutant: requests are served while the rules are loaded
  /\ ~req[r].busy
  /\ edits < MaxEdits
  /\ edits' = edits + 1
  /\ req' = [req EXCEPT ![r] = Save(k, v)]
  /\ dirty' = IF Busy(k) THEN dirty \cup {k} ELSE dirty \ {k}
  /\ UNCHANGED <<db, phase, todo, faults, restarts, wish>>

Begin(r, k, v) ==
  /\ phase = "run"
  /\ ~req[r].busy
  /\ edits < MaxEdits
  /\ edits' = edits + 1
  /\ req' = [req EXCEPT ![r] = Save(k, v)]
  /\ dirty' = IF Busy(k) THEN dirty \cup {k} ELSE dirty \ {k}
  /\ UNCHANGED <<db, phase, todo, faults, restarts, wish>>

AppendRule(r, k, v) ==   \* mutant: an existing rule is not looked for
  /\ Begin(r, k, v)
  /\ mem' = Append(mem, RuleFor(k, v))

SetRule(r, k, v) ==
  /\ Begin(r, k, v)
  /\ mem' = WithRule(mem, RuleFor(k, v))

DeleteRule(r, k) ==
  /\ Begin(r, k, NoRule)
  /\ mem' = WithoutKey(mem, k)

InsertOrIgnore(k, v) ==   \* mutant: ON CONFLICT DO NOTHING
  IF v = NoRule \/ db[k] = NoRule THEN [db EXCEPT ![k] = v] ELSE db

Written(k, v) == [db EXCEPT ![k] = v]

WriteRule(r) ==
  /\ req[r].busy
  /\ db' = Written(req[r].key, req[r].value)
  /\ req' = [req EXCEPT ![r] = Idle]
  /\ wish' = [wish EXCEPT ![req[r].key] = req[r].value]
  /\ UNCHANGED <<mem, phase, todo, edits, faults, restarts, dirty>>

\* The API answers with an error; the manager keeps the change.
WriteFails(r) ==
  /\ req[r].busy
  /\ Fault("write")
  /\ req' = [req EXCEPT ![r] = Idle]
  /\ dirty' = dirty \cup {req[r].key}
  /\ UNCHANGED <<mem, db, phase, todo, edits, restarts, wish>>

\* The server stops anywhere; the manager's rules are gone.
Restart ==
  /\ restarts < MaxRestarts
  /\ restarts' = restarts + 1
  /\ mem' = <<>>
  /\ phase' = "load"
  /\ todo' = <<>>
  /\ req' = [r \in Requests |-> Idle]
  /\ dirty' = {}
  /\ UNCHANGED <<db, edits, faults, wish>>

Next ==
  \/ Load \/ LoadFails \/ SeedRule \/ SeedFails \/ Seeded \/ OverrideLatency
  \/ \E r \in Requests :
       \/ \E k \in Keys : DeleteRule(r, k) \/ \E v \in Values : SetRule(r, k, v)
       \/ WriteRule(r) \/ WriteFails(r)
  \/ Restart

Spec == Init /\ [][Next]_vars

(***************************************************************************)
(* Properties.                                                             *)
(***************************************************************************)

InMemory(k) == ValueIn(mem, k, NoRule)

\* The manager never holds two rules of one kind and node, in any order of
\* loading, seeding, overriding and requests: the first would hide the other,
\* and a delete or an update through the API would reach only one.
OneRulePerKey == DistinctKeys(mem)

\* A key whose requests did not overlap and none of whose statements failed is
\* the same in the manager and in the table whenever no request on it is under
\* way: a restart of the server at that moment brings the same rule back.
CleanKeysAgree ==
  phase = "run" => \A k \in Keys \ dirty : ~Busy(k) => InMemory(k) = db[k]

Quiet == phase = "run" /\ faults = 0 /\ \A r \in Requests : ~req[r].busy

(***************************************************************************)
(* Claims of the documentation that the code does not meet.                *)
(***************************************************************************)

\* README: rules are persistent.  When nothing failed and no request is under
\* way, the rules in use are those in the table.
RulesArePersistent == Quiet => \A k \in Keys : InMemory(k) = db[k]

\* docs/configuration.md: the defaults are seeded at the first start, and from
\* then on the rules are what the management page or the API made them.
ApiHasTheLastWord ==
  Quiet => \A k \in Keys : wish[k] # NoWish => InMemory(k) = wish[k]

\* main.go: rules that exist in the database are the ones that count.  Here
\* statements may fail, but only while the server is loading its rules.
StoredRulesAreKept ==
  phase = "run" /\ (\A r \in Requests : ~req[r].busy) =>
    \A k \in Keys : wish[k] # NoWish => db[k] = wish[k]

\* docs/configuration.md: the defaults are seeded at the first start.  With no
\* request ever made, a server that runs has all of them.
DefaultsAreSeeded ==
  Quiet /\ edits = 0 => \A i \in DOMAIN Defaults : Has(mem, Defaults[i].key)

(***************************************************************************)
(* The registry that the manager and the table implement between them.     *)
(***************************************************************************)

DefaultOf(k) == ValueIn(Defaults, k, NoRule)

\* Until the rules are loaded, those in use are the stored ones.
Registry == INSTANCE RuleRegistry WITH
  None         <- NoRule,
  Defaults     <- [k \in Keys |-> DefaultOf(k)],
  Forced       <- IF AlertLatency = NoRule THEN {} ELSE {LatencyAll},
  MayLoseTable <- "load" \in Fallible,
  inUse        <- [k \in Keys |-> IF phase = "load" THEN db[k] ELSE InMemory(k)],
  open         <- dirty \cup {k \in Keys : Busy(k)} \cup {todo[i].key : i \in DOMAIN todo}

\* Loading, seeding, overriding, two-step requests, their failures and restarts
\* are steps of a registry of one value per key that loses nothing but what a
\* failed or overlapping request left open, or a start could not read.
ImplementsRegistry == Registry!Spec
===============================================================================
