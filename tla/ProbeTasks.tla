------------------------------ MODULE ProbeTasks ------------------------------
(***************************************************************************)
(* The probe_tasks table and everybody who writes it: the admin API        *)
(* (/api/admin/probes) and the agents, each of which fetches its tasks     *)
(* from /agent/config before a report, appends the probes of its own       *)
(* agent.yml, and posts the whole list back with the report; the server    *)
(* upserts every probe of the report under the reporting node's uuid.      *)
(*                                                                         *)
(* Abstractions.  Probe type and host are one value, a target; Host is its *)
(* host.  Types are among those the "name:type:host" list knows, and names *)
(* and hosts contain no separator of that list (',', and ':' in a name),   *)
(* so that formatting and parsing it gives the same probes back.  The      *)
(* probes of a report are a set ordered by Precedes: served rows by id     *)
(* (ORDER BY id), then the declared ones by position.                      *)
(***************************************************************************)
EXTENDS Integers, FiniteSets

CONSTANTS
  Nodes,            \* uuids of the agents
  Global,           \* the client '*' of a task for every node
  Names, Targets,
  Host,             \* Host[t]: the host of target t
  Intervals,        \* what an admin may post as interval_sec, 0 included
  DefaultInterval,  \* 60 seconds
  NoTask,           \* "no such row"
  Remote,           \* nodes whose agent runs with -remote-config (the default)
  Declared,         \* Declared[n]: the probes in n's own agent.yml
  MaxEdits,         \* bound: admin commands in a behaviour
  MaxFaults         \* bound: failed requests and statements in a behaviour

Keys == (Nodes \cup {Global}) \X Names       \* UNIQUE(client, name)

Seconds == Nat \ {0}

Row == [id: Nat \ {0}, target: Targets, interval: Seconds, enabled: BOOLEAN]

Setting == [target: Targets, interval: Seconds, enabled: BOOLEAN]

\* A probe of a report: batch 0 was served by /agent/config, batch 1 is declared.
Probe == [batch: {0, 1}, pos: Nat, name: Names, target: Targets]

ASSUME NodesAssumption == Global \notin Nodes /\ Remote \subseteq Nodes
ASSUME IntervalAssumption ==
  Intervals \subseteq Int /\ DefaultInterval \in Seconds
ASSUME NoTaskAssumption == NoTask \notin Row /\ NoTask \notin Setting
ASSUME DeclaredAssumption ==
  Declared \in [Nodes -> SUBSET {p \in Probe : p.batch = 1}]
ASSUME BoundsAssumption == MaxEdits \in Nat /\ MaxFaults \in Nat

VARIABLES
  tasks,    \* tasks[k]: the row of key k, or NoTask
  nextId,   \* the next AUTOINCREMENT id
  pc,       \* pc[n]: where n's agent is in its loop
  remote,   \* remote[n]: the probes n fetched for the report it is preparing
  pending,  \* pending[n]: probes of n's report the handler still has to upsert
  edits, faults,
  wish,     \* history: wish[k] is the admin's last command on k
  said      \* history: said[k] are the targets an admin ever gave to k

vars == <<tasks, nextId, pc, remote, pending, edits, faults, wish, said>>

agentVars == <<pc, remote, pending>>
adminVars == <<edits, wish, said>>

TypeOK ==
  /\ tasks \in [Keys -> Row \cup {NoTask}]
  /\ nextId \in Nat \ {0}
  /\ pc \in [Nodes -> {"idle", "fetched", "posting"}]
  /\ remote \in [Nodes -> SUBSET Probe]
  /\ pending \in [Nodes -> SUBSET Probe]
  /\ edits \in 0..MaxEdits
  /\ faults \in 0..MaxFaults
  /\ wish \in [Keys -> Setting \cup {NoTask}]
  /\ said \in [Keys -> SUBSET Targets]

Init ==
  /\ tasks = [k \in Keys |-> NoTask]
  /\ nextId = 1
  /\ pc = [n \in Nodes |-> "idle"]
  /\ remote = [n \in Nodes |-> {}]
  /\ pending = [n \in Nodes |-> {}]
  /\ edits = 0
  /\ faults = 0
  /\ wish = [k \in Keys |-> NoTask]
  /\ said = [k \in Keys |-> {}]

(***************************************************************************)
(* The table.                                                              *)
(***************************************************************************)

Exists(k) == tasks[k] # NoTask

\* The row ids are handed out once: a row that is inserted again is a new one.
IdFor(k) == IF Exists(k) THEN tasks[k].id ELSE nextId

NextIdAfter(k) == IF Exists(k) THEN nextId ELSE nextId + 1

EveryRow(n) == {k \in Keys : Exists(k)}   \* mutant: WHERE client is missing

\* ProbeTasks(client): the rows of the client and the global ones, whether or
\* not they are enabled.
ProbeTasksOf(n) == {k \in Keys : Exists(k) /\ k[1] \in {Global, n}}

(***************************************************************************)
(* The admin API.                                                          *)
(***************************************************************************)

PostedInterval(i) == i   \* mutant: no default for an interval of 0

EffectiveInterval(i) == IF i <= 0 THEN DefaultInterval ELSE i

AdminUpsertProbe(k, t, i, e) ==
  /\ edits < MaxEdits
  /\ edits' = edits + 1
  /\ LET set == [target |-> t, interval |-> EffectiveInterval(i), enabled |-> e]
     IN /\ tasks' = [tasks EXCEPT ![k] =
                       [id |-> IdFor(k), target |-> set.target,
                        interval |-> set.interval, enabled |-> set.enabled]]
        /\ wish' = [wish EXCEPT ![k] = set]
  /\ nextId' = NextIdAfter(k)
  /\ said' = [said EXCEPT ![k] = @ \cup {t}]
  /\ UNCHANGED <<agentVars, faults>>

AdminDeleteProbe(k) ==
  /\ edits < MaxEdits
  /\ edits' = edits + 1
  /\ tasks' = [tasks EXCEPT ![k] = NoTask]
  /\ wish' = [wish EXCEPT ![k] = NoTask]
  /\ UNCHANGED <<nextId, agentVars, faults, said>>

(***************************************************************************)
(* The agent's loop.                                                       *)
(***************************************************************************)

ServedProbe(k) ==
  [batch |-> 0, pos |-> tasks[k].id, name |-> k[2], target |-> tasks[k].target]

\* GET /agent/config; the agent decodes name, target and type of every task.
AgentFetch(n) ==
  /\ pc[n] = "idle"
  /\ pc' = [pc EXCEPT ![n] = "fetched"]
  /\ remote' = [remote EXCEPT ![n] =
                  IF n \in Remote THEN {ServedProbe(k) : k \in ProbeTasksOf(n)}
                                  ELSE {}]
  /\ UNCHANGED <<tasks, nextId, pending, adminVars, faults>>

\* Any failure of the fetch counts as an empty list.
AgentFetchFails(n) ==
  /\ pc[n] = "idle"
  /\ n \in Remote
  /\ faults < MaxFaults
  /\ faults' = faults + 1
  /\ pc' = [pc EXCEPT ![n] = "fetched"]
  /\ remote' = [remote EXCEPT ![n] = {}]
  /\ UNCHANGED <<tasks, nextId, pending, adminVars>>

Precedes(p, q) ==
  \/ p.batch < q.batch
  \/ p.batch = q.batch /\ p.pos < q.pos

\* parseProbes keeps the first of the probes with the same name and host,
\* whatever their types.
Deduped(P) ==
  {p \in P : \A q \in P :
     q.name = p.name /\ Host[q.target] = Host[p.target] => ~Precedes(q, p)}

\* POST /agent/status has passed UpsertNode and InsertStatus.
AgentPost(n) ==
  /\ pc[n] = "fetched"
  /\ pc' = [pc EXCEPT ![n] = "posting"]
  /\ pending' = [pending EXCEPT ![n] = Deduped(remote[n] \cup Declared[n])]
  /\ UNCHANGED <<tasks, nextId, remote, adminVars, faults>>

\* The collector, the request or one of the first two statements failed, or
\* the server went down while the handler was at work.
AgentPostFails(n) ==
  /\ pc[n] \in {"fetched", "posting"}
  /\ faults < MaxFaults
  /\ faults' = faults + 1
  /\ pc' = [pc EXCEPT ![n] = "idle"]
  /\ remote' = [remote EXCEPT ![n] = {}]
  /\ pending' = [pending EXCEPT ![n] = {}]
  /\ UNCHANGED <<tasks, nextId, adminVars>>

(***************************************************************************)
(* The report handler's loop over payload.Probes.                          *)
(***************************************************************************)

IsNext(n, p) ==
  /\ pc[n] = "posting"
  /\ p \in pending[n]
  /\ \A q \in pending[n] : ~Precedes(q, p)

ReportedRow(k, t) ==   \* mutant: the conflict clause overwrites the interval
  [id |-> IdFor(k), target |-> t, interval |-> DefaultInterval, enabled |-> TRUE]

RowKeptDisabled(k, t) ==   \* mutant: the conflict clause leaves enabled alone
  [id       |-> IdFor(k),
   target   |-> t,
   interval |-> IF Exists(k) THEN tasks[k].interval ELSE DefaultInterval,
   enabled  |-> Exists(k) => tasks[k].enabled]

\* ON CONFLICT(client, name) DO UPDATE keeps the id and the interval.
UpsertedRow(k, t) ==
  [id       |-> IdFor(k),
   target   |-> t,
   interval |-> IF Exists(k) THEN tasks[k].interval ELSE DefaultInterval,
   enabled  |-> TRUE]

KeyByName(n, p) ==   \* mutant: UNIQUE(name), a global task is written over
  IF Exists(<<Global, p.name>>) THEN <<Global, p.name>> ELSE <<n, p.name>>

UpsertKey(n, p) == <<n, p.name>>

UpsertProbeTask(n, p) ==
  /\ IsNext(n, p)
  /\ LET k == UpsertKey(n, p)
     IN /\ tasks' = [tasks EXCEPT ![k] = UpsertedRow(k, p.target)]
        /\ nextId' = NextIdAfter(k)
  /\ pending' = [pending EXCEPT ![n] = @ \ {p}]
  /\ UNCHANGED <<pc, remote, adminVars, faults>>

\* The handler drops the error and goes on with the next probe.
UpsertFails(n, p) ==
  /\ IsNext(n, p)
  /\ faults < MaxFaults
  /\ faults' = faults + 1
  /\ pending' = [pending EXCEPT ![n] = @ \ {p}]
  /\ UNCHANGED <<tasks, nextId, pc, remote, adminVars>>

ReportDone(n) ==
  /\ pc[n] = "posting"
  /\ pending[n] = {}
  /\ pc' = [pc EXCEPT ![n] = "idle"]
  /\ remote' = [remote EXCEPT ![n] = {}]
  /\ UNCHANGED <<tasks, nextId, pending, adminVars, faults>>

Admin ==
  \E k \in Keys :
    \/ \E t \in Targets, i \in Intervals, e \in BOOLEAN : AdminUpsertProbe(k, t, i, e)
    \/ AdminDeleteProbe(k)

Agent(n) ==
  \/ AgentFetch(n)
  \/ AgentFetchFails(n)
  \/ AgentPost(n)
  \/ AgentPostFails(n)
  \/ \E p \in pending[n] : UpsertProbeTask(n, p) \/ UpsertFails(n, p)
  \/ ReportDone(n)

Next == Admin \/ \E n \in Nodes : Agent(n)

Spec == Init /\ [][Next]_vars

\* The agent's ticker and the request handlers keep going; nobody has to edit
\* a task and nothing has to fail.
Fairness == \A n \in Nodes : WF_vars(Agent(n))

FairSpec == Spec /\ Fairness

(***************************************************************************)
(* Properties.                                                             *)
(***************************************************************************)

DeclaredTargets(n, m) == {p.target : p \in {q \in Declared[n] : q.name = m}}

\* Where a task of key k may have got its target from.
Sources(k) ==
  IF k[1] = Global
  THEN said[k]
  ELSE said[k] \cup said[<<Global, k[2]>>] \cup DeclaredTargets(k[1], k[2])

\* Whatever is fetched, echoed, reordered or lost, a row (and a probe on its
\* way through an agent and its report) has a target that
\* an admin gave to this very task or to the global task of the same name, or
\* that the node's own agent declares: /agent/config and the write-back of
\* /agent/status never carry a target from one node or one task to another.
NoInventedTarget ==
  /\ \A k \in Keys : Exists(k) => tasks[k].target \in Sources(k)
  /\ \A n \in Nodes : \A p \in remote[n] \cup pending[n] :
       p.target \in Sources(<<n, p.name>>)

\* The write-back never disturbs an interval: a row runs at the interval of
\* the admin's last command on it, and at the default when the admin never
\* configured it or deleted it since (the comment on UpsertProbeTask).
IntervalAsConfigured ==
  \A k \in Keys : Exists(k) =>
    tasks[k].interval = IF wish[k] = NoTask THEN DefaultInterval
                                            ELSE wish[k].interval

\* What the table does with k is what the admin asked for last.
Agrees(k) ==
  IF wish[k] = NoTask
  THEN ~Exists(k)
  ELSE /\ Exists(k)
       /\ tasks[k].target = wish[k].target
       /\ tasks[k].interval = wish[k].interval
       /\ tasks[k].enabled = wish[k].enabled

\* Global tasks, and the tasks a node without -remote-config does not declare.
AdminOnly ==
  {k \in Keys : \/ k[1] = Global
                \/ k[1] \notin Remote /\ DeclaredTargets(k[1], k[2]) = {}}

\* On the tasks no agent can echo, the table is always exactly what the admin
\* last asked for, whatever the agents report meanwhile.
AdminOnlyFollowsAdmin == \A k \in AdminOnly : Agrees(k)

\* A probe an agent declares is registered and enabled again and again: an
\* admin's delete or disable of it, and any failed request, is made good by a
\* later report (docs: probes of agent.yml are upserted automatically).
DeclaredIsRegistered ==
  \A n \in Nodes : \A d \in Declared[n] :
    []<>(LET k == <<n, d.name>> IN Exists(k) /\ tasks[k].enabled)

(***************************************************************************)
(* Claims of the documentation and of comments that the code does not meet *)
(***************************************************************************)

\* adapters.go, ProbeTasks: "returns the enabled probe tasks".
OnlyEnabledServed ==
  \A n \in Nodes : \A k \in ProbeTasksOf(n) : tasks[k].enabled

\* docs/configuration.md: a task edited on the admin page takes effect on its
\* own.  Here the weakest reading, that once the edits are over it is in effect
\* again and again.  Of a task whose last edit disabled it:
DisableTakesEffect ==
  \A k \in Keys :
    []<>(wish[k] # NoTask => \/ wish[k].enabled
                             \/ (Exists(k) /\ ~tasks[k].enabled))

\* The same of a task the admin deleted.
DeleteTakesEffect ==
  \A k \in Keys : []<>(said[k] # {} /\ wish[k] = NoTask => ~Exists(k))

\* The same of a task whose target the admin changed.
RetargetTakesEffect ==
  \A k \in Keys :
    []<>(wish[k] # NoTask => Exists(k) /\ tasks[k].target = wish[k].target)
===============================================================================
