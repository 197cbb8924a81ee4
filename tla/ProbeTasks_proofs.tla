--------------------------- MODULE ProbeTasks_proofs ---------------------------
(***************************************************************************)
(* Proofs of the safety properties of ProbeTasks, for any nodes, names,    *)
(* targets, intervals and declared probes, and for any number of edits and *)
(* faults.                                                                 *)
(***************************************************************************)
EXTENDS ProbeTasks, TLAPS

USE DEF vars, agentVars, adminVars

(***************************************************************************)
(* Types.                                                                  *)
(***************************************************************************)

\* A row that exists is a row, and the id it is inserted or kept under and the
\* next id are ids.
LEMMA RowTypes ==
  ASSUME TypeOK, NEW k \in Keys
  PROVE  /\ Exists(k) => tasks[k] \in Row
         /\ IdFor(k) \in Nat \ {0}
         /\ NextIdAfter(k) \in Nat \ {0}
BY DEF TypeOK, Exists, Row, IdFor, NextIdAfter

\* The interval a command of the admin's sets is a positive number of seconds.
LEMMA EffectiveIntervalPositive ==
  ASSUME NEW i \in Intervals
  PROVE  EffectiveInterval(i) \in Seconds
BY IntervalAssumption DEF EffectiveInterval, Seconds

\* What /agent/config serves for a row of the table is a probe of batch 0.
LEMMA ServedProbeType ==
  ASSUME TypeOK, NEW k \in Keys, Exists(k)
  PROVE  /\ ServedProbe(k) \in Probe
         /\ ServedProbe(k).name = k[2]
         /\ ServedProbe(k).target = tasks[k].target
<1>1. tasks[k] \in Row
  BY RowTypes
<1>2. k[2] \in Names
  BY DEF Keys
<1> QED
  BY <1>1, <1>2 DEF ServedProbe, Probe, Row

\* The key a report's probe is upserted under is a key of the reporting node.
LEMMA UpsertKeyType ==
  ASSUME TypeOK, NEW n \in Nodes, NEW p \in pending[n]
  PROVE  UpsertKey(n, p) \in Keys /\ p \in Probe
BY DEF TypeOK, UpsertKey, Keys, Probe

LEMMA TypeInit == Init => TypeOK
BY BoundsAssumption DEF Init, TypeOK

LEMMA TypeStep == TypeOK /\ [Next]_vars => TypeOK'
<1> SUFFICES ASSUME TypeOK, [Next]_vars
             PROVE  TypeOK'
  OBVIOUS
<1>1. ASSUME NEW k \in Keys, NEW t \in Targets, NEW i \in Intervals, NEW e \in BOOLEAN,
             AdminUpsertProbe(k, t, i, e)
      PROVE  TypeOK'
  <2> DEFINE set == [target |-> t, interval |-> EffectiveInterval(i), enabled |-> e]
             row == [id |-> IdFor(k), target |-> t,
                     interval |-> EffectiveInterval(i), enabled |-> e]
  <2>1. set \in Setting /\ row \in Row
    BY RowTypes, EffectiveIntervalPositive DEF Setting, Row
  <2>2. tasks' = [tasks EXCEPT ![k] = row] /\ wish' = [wish EXCEPT ![k] = set]
    BY <1>1 DEF AdminUpsertProbe
  <2>3. tasks' \in [Keys -> Row \cup {NoTask}]
    BY <2>1, <2>2 DEF TypeOK
  <2>4. wish' \in [Keys -> Setting \cup {NoTask}]
    BY <2>1, <2>2 DEF TypeOK
  <2>5. said' \in [Keys -> SUBSET Targets]
    BY <1>1 DEF TypeOK, AdminUpsertProbe
  <2>6. nextId' \in Nat \ {0} /\ edits' \in 0..MaxEdits
    BY <1>1, RowTypes, BoundsAssumption DEF TypeOK, AdminUpsertProbe
  <2> QED
    BY <1>1, <2>3, <2>4, <2>5, <2>6 DEF TypeOK, AdminUpsertProbe
<1>2. ASSUME NEW k \in Keys, AdminDeleteProbe(k)
      PROVE  TypeOK'
  BY <1>2, BoundsAssumption DEF TypeOK, AdminDeleteProbe
<1>3. ASSUME NEW n \in Nodes, AgentFetch(n)
      PROVE  TypeOK'
  <2>1. {ServedProbe(k) : k \in ProbeTasksOf(n)} \subseteq Probe
    BY ServedProbeType DEF ProbeTasksOf
  <2>2. remote' \in [Nodes -> SUBSET Probe]
    BY <1>3, <2>1 DEF TypeOK, AgentFetch
  <2> QED
    BY <1>3, <2>2 DEF TypeOK, AgentFetch
<1>4. ASSUME NEW n \in Nodes, AgentFetchFails(n)
      PROVE  TypeOK'
  BY <1>4, BoundsAssumption DEF TypeOK, AgentFetchFails
<1>5. ASSUME NEW n \in Nodes, AgentPost(n)
      PROVE  TypeOK'
  <2>1. Deduped(remote[n] \cup Declared[n]) \subseteq Probe
    BY DeclaredAssumption DEF TypeOK, Deduped
  <2>2. pending' \in [Nodes -> SUBSET Probe]
    BY <1>5, <2>1 DEF TypeOK, AgentPost
  <2> QED
    BY <1>5, <2>2 DEF TypeOK, AgentPost
<1>6. ASSUME NEW n \in Nodes, AgentPostFails(n)
      PROVE  TypeOK'
  BY <1>6, BoundsAssumption DEF TypeOK, AgentPostFails
<1>7. ASSUME NEW n \in Nodes, NEW p \in pending[n], UpsertProbeTask(n, p)
      PROVE  TypeOK'
  <2> DEFINE k == UpsertKey(n, p)
  <2>1. k \in Keys /\ p \in Probe
    BY UpsertKeyType
  <2>2. UpsertedRow(k, p.target) \in Row
    BY <2>1, RowTypes, IntervalAssumption DEF UpsertedRow, Row, Probe
  <2>3. tasks' \in [Keys -> Row \cup {NoTask}]
    BY <1>7, <2>1, <2>2 DEF TypeOK, UpsertProbeTask
  <2>4. nextId' \in Nat \ {0}
    BY <1>7, <2>1, RowTypes DEF UpsertProbeTask
  <2> QED
    BY <1>7, <2>3, <2>4 DEF TypeOK, UpsertProbeTask
<1>8. ASSUME NEW n \in Nodes, NEW p \in pending[n], UpsertFails(n, p)
      PROVE  TypeOK'
  BY <1>8, BoundsAssumption DEF TypeOK, UpsertFails
<1>9. ASSUME NEW n \in Nodes, ReportDone(n)
      PROVE  TypeOK'
  BY <1>9 DEF TypeOK, ReportDone
<1>10. CASE UNCHANGED vars
  BY <1>10 DEF TypeOK
<1> QED
  BY <1>1, <1>2, <1>3, <1>4, <1>5, <1>6, <1>7, <1>8, <1>9, <1>10 DEF Next, Admin, Agent

\* Every variable keeps its type, in every behaviour of the table, the admin
\* API and the agents: in particular no row ever has an interval of zero or
\* less, whatever interval_sec is posted.
THEOREM TypeCorrect == Spec => []TypeOK
BY TypeInit, TypeStep, PTL DEF Spec

(***************************************************************************)
(* The targets of the rows and of the probes on their way.                 *)
(***************************************************************************)

\* What an admin has ever said is never unsaid, so a target never loses the
\* sources it may have come from.
LEMMA SourcesGrow ==
  ASSUME TypeOK, [Next]_vars, NEW k \in Keys
  PROVE  Sources(k) \subseteq Sources(k)'
<1>1. \A j \in Keys : said[j] \subseteq said'[j]
  <2>1. ASSUME NEW j \in Keys, NEW t \in Targets, NEW i \in Intervals, NEW e \in BOOLEAN,
               AdminUpsertProbe(j, t, i, e)
        PROVE  \A h \in Keys : said[h] \subseteq said'[h]
    BY <2>1 DEF TypeOK, AdminUpsertProbe
  <2>2. ASSUME NEW j \in Keys, AdminDeleteProbe(j)
        PROVE  said' = said
    BY <2>2 DEF AdminDeleteProbe
  <2>3. ASSUME NEW n \in Nodes, Agent(n)
        PROVE  said' = said
    BY <2>3 DEF Agent, AgentFetch, AgentFetchFails, AgentPost, AgentPostFails,
                UpsertProbeTask, UpsertFails, ReportDone
  <2> QED
    BY <2>1, <2>2, <2>3 DEF Next, Admin
<1>2. <<Global, k[2]>> \in Keys
  BY DEF Keys
<1> QED
  BY <1>1, <1>2 DEF Sources, DeclaredTargets

\* A row that is served to a node has its target from where a row of the
\* node's own of that name may have it.
LEMMA ServedSources ==
  ASSUME NEW n \in Nodes, NEW k \in ProbeTasksOf(n)
  PROVE  Sources(k) \subseteq Sources(<<n, k[2]>>)
<1>1. k = <<k[1], k[2]>> /\ k[1] \in {Global, n}
  BY DEF ProbeTasksOf, Keys
<1>2. n # Global
  BY NodesAssumption
<1>3. CASE k[1] = Global
  BY <1>1, <1>2, <1>3 DEF Sources
<1>4. CASE k[1] = n
  BY <1>1, <1>4
<1> QED
  BY <1>1, <1>3, <1>4

LEMMA TargetStep ==
  TypeOK /\ NoInventedTarget /\ [Next]_vars => NoInventedTarget'
<1> SUFFICES ASSUME TypeOK, NoInventedTarget, [Next]_vars
             PROVE  NoInventedTarget'
  OBVIOUS
<1> DEFINE RowOK(k) == Exists(k) => tasks[k].target \in Sources(k)
           ProbesOK(n) == \A p \in remote[n] \cup pending[n] :
                            p.target \in Sources(<<n, p.name>>)
<1>a. \A k \in Keys : RowOK(k)
  BY DEF NoInventedTarget
<1>b. \A n \in Nodes : ProbesOK(n)
  BY DEF NoInventedTarget
<1>c. \A n \in Nodes : \A p \in Probe : <<n, p.name>> \in Keys
  BY DEF Keys, Probe
<1>d. ASSUME UNCHANGED tasks
      PROVE  \A k \in Keys : RowOK(k)'
  BY <1>a, <1>d, SourcesGrow DEF Exists
<1>e. ASSUME NEW n \in Nodes, remote'[n] \subseteq remote[n], pending'[n] \subseteq pending[n]
      PROVE  ProbesOK(n)'
  <2>1. \A p \in remote[n] \cup pending[n] : p \in Probe
    BY DEF TypeOK
  <2>2. \A p \in remote[n] \cup pending[n] :
          Sources(<<n, p.name>>) \subseteq Sources(<<n, p.name>>)'
    BY <1>c, <2>1, SourcesGrow
  <2> QED
    BY <1>b, <1>e, <2>2
<1>1. ASSUME NEW k \in Keys, NEW t \in Targets, NEW i \in Intervals, NEW e \in BOOLEAN,
             AdminUpsertProbe(k, t, i, e)
      PROVE  NoInventedTarget'
  <2>1. t \in said'[k]
    BY <1>1 DEF TypeOK, AdminUpsertProbe
  <2>2. t \in Sources(k)'
    BY <2>1 DEF Sources
  <2>3. RowOK(k)'
    BY <1>1, <2>2 DEF TypeOK, AdminUpsertProbe
  <2>4. \A j \in Keys \ {k} : tasks'[j] = tasks[j]
    BY <1>1 DEF TypeOK, AdminUpsertProbe
  <2>5. \A j \in Keys : RowOK(j)'
    BY <1>a, <2>3, <2>4, SourcesGrow DEF Exists
  <2>6. \A n \in Nodes : ProbesOK(n)'
    BY <1>1, <1>e DEF AdminUpsertProbe
  <2> QED
    BY <2>5, <2>6 DEF NoInventedTarget
<1>2. ASSUME NEW k \in Keys, AdminDeleteProbe(k)
      PROVE  NoInventedTarget'
  <2>1. \A j \in Keys : tasks'[j] \in {tasks[j], NoTask}
    BY <1>2 DEF TypeOK, AdminDeleteProbe
  <2>2. \A j \in Keys : RowOK(j)'
    BY <1>a, <2>1, SourcesGrow DEF Exists
  <2>3. \A n \in Nodes : ProbesOK(n)'
    BY <1>2, <1>e DEF AdminDeleteProbe
  <2> QED
    BY <2>2, <2>3 DEF NoInventedTarget
<1>3. ASSUME NEW n \in Nodes, AgentFetch(n)
      PROVE  NoInventedTarget'
  <2>1. \A k \in ProbeTasksOf(n) :
          ServedProbe(k).target \in Sources(<<n, ServedProbe(k).name>>)
    BY <1>a, ServedProbeType, ServedSources DEF ProbeTasksOf
  <2>2. \A p \in remote'[n] : p.target \in Sources(<<n, p.name>>)
    BY <1>3, <2>1 DEF TypeOK, AgentFetch
  <2>3. UNCHANGED <<tasks, said, pending>>
    BY <1>3 DEF AgentFetch
  <2>4. \A m \in Nodes : m # n => remote'[m] = remote[m]
    BY <1>3 DEF TypeOK, AgentFetch
  <2>5. \A k : Sources(k)' = Sources(k)
    BY <2>3 DEF Sources, DeclaredTargets
  <2>6. \A m \in Nodes : ProbesOK(m)'
    BY <1>b, <2>2, <2>3, <2>4, <2>5
  <2> QED
    BY <1>d, <2>3, <2>6 DEF NoInventedTarget
<1>4. ASSUME NEW n \in Nodes, AgentFetchFails(n)
      PROVE  NoInventedTarget'
  <2>1. \A m \in Nodes : remote'[m] \subseteq remote[m] /\ pending'[m] \subseteq pending[m]
    BY <1>4 DEF TypeOK, AgentFetchFails
  <2> QED
    BY <1>4, <1>d, <1>e, <2>1 DEF NoInventedTarget, AgentFetchFails
<1>5. ASSUME NEW n \in Nodes, AgentPost(n)
      PROVE  NoInventedTarget'
  <2>1. pending'[n] \subseteq remote[n] \cup Declared[n]
    BY <1>5 DEF TypeOK, AgentPost, Deduped
  <2>2. \A p \in Declared[n] : p.target \in Sources(<<n, p.name>>)
    BY NodesAssumption DEF Sources, DeclaredTargets
  <2>3. UNCHANGED <<tasks, said, remote>>
    BY <1>5 DEF AgentPost
  <2>4. \A m \in Nodes : m # n => pending'[m] = pending[m]
    BY <1>5 DEF TypeOK, AgentPost
  <2>5. \A k : Sources(k)' = Sources(k)
    BY <2>3 DEF Sources, DeclaredTargets
  <2>6. \A m \in Nodes : ProbesOK(m)'
    BY <1>b, <2>1, <2>2, <2>3, <2>4, <2>5
  <2> QED
    BY <1>d, <2>3, <2>6 DEF NoInventedTarget
<1>6. ASSUME NEW n \in Nodes, AgentPostFails(n)
      PROVE  NoInventedTarget'
  <2>1. \A m \in Nodes : remote'[m] \subseteq remote[m] /\ pending'[m] \subseteq pending[m]
    BY <1>6 DEF TypeOK, AgentPostFails
  <2> QED
    BY <1>6, <1>d, <1>e, <2>1 DEF NoInventedTarget, AgentPostFails
<1>7. ASSUME NEW n \in Nodes, NEW p \in pending[n], UpsertProbeTask(n, p)
      PROVE  NoInventedTarget'
  <2> DEFINE k == <<n, p.name>>
  <2>1. k \in Keys
    BY UpsertKeyType DEF UpsertKey
  <2>2. tasks' = [tasks EXCEPT ![k] = UpsertedRow(k, p.target)]
    BY <1>7 DEF UpsertProbeTask, UpsertKey
  <2>3. tasks'[k].target = p.target
    BY <2>1, <2>2 DEF TypeOK, UpsertedRow
  <2>4. p.target \in Sources(k)'
    BY <1>b, <2>1, SourcesGrow
  <2>5. \A j \in Keys \ {k} : tasks'[j] = tasks[j]
    BY <2>2 DEF TypeOK
  <2>6. \A j \in Keys : RowOK(j)'
    BY <1>a, <2>3, <2>4, <2>5, SourcesGrow DEF Exists
  <2>7. \A m \in Nodes : remote'[m] \subseteq remote[m] /\ pending'[m] \subseteq pending[m]
    BY <1>7 DEF TypeOK, UpsertProbeTask
  <2>8. \A m \in Nodes : ProbesOK(m)'
    BY <1>e, <2>7
  <2> QED
    BY <2>6, <2>8 DEF NoInventedTarget
<1>8. ASSUME NEW n \in Nodes, NEW p \in pending[n], UpsertFails(n, p)
      PROVE  NoInventedTarget'
  <2>1. \A m \in Nodes : remote'[m] \subseteq remote[m] /\ pending'[m] \subseteq pending[m]
    BY <1>8 DEF TypeOK, UpsertFails
  <2> QED
    BY <1>8, <1>d, <1>e, <2>1 DEF NoInventedTarget, UpsertFails
<1>9. ASSUME NEW n \in Nodes, ReportDone(n)
      PROVE  NoInventedTarget'
  <2>1. \A m \in Nodes : remote'[m] \subseteq remote[m] /\ pending'[m] \subseteq pending[m]
    BY <1>9 DEF TypeOK, ReportDone
  <2> QED
    BY <1>9, <1>d, <1>e, <2>1 DEF NoInventedTarget, ReportDone
<1>10. CASE UNCHANGED vars
  BY <1>10, <1>d, <1>e DEF NoInventedTarget
<1> QED
  BY <1>1, <1>2, <1>3, <1>4, <1>5, <1>6, <1>7, <1>8, <1>9, <1>10 DEF Next, Admin, Agent

\* Whatever is fetched, echoed, reordered or lost, the target of a row or of a
\* probe under way was given to this task, or to the global task of its name,
\* by an admin, or is declared by the node's own agent.
THEOREM TargetsCorrect == Spec => []NoInventedTarget
<1>1. Init => NoInventedTarget
  BY DEF Init, NoInventedTarget, Exists
<1> QED
  BY <1>1, TypeInit, TypeStep, TargetStep, PTL DEF Spec

(***************************************************************************)
(* What the admin configured.                                              *)
(***************************************************************************)

\* A task the admin configured and did not delete has a row: nothing but the
\* admin deletes one.
ConfiguredExists == \A k \in Keys : wish[k] # NoTask => Exists(k)

\* An agent that fetches nothing reports what it declares and nothing else.
UnservedReportDeclared ==
  \A n \in Nodes \ Remote : remote[n] = {} /\ pending[n] \subseteq Declared[n]

ConfigInv ==
  /\ ConfiguredExists
  /\ IntervalAsConfigured
  /\ UnservedReportDeclared
  /\ AdminOnlyFollowsAdmin

LEMMA ConfigInit == Init => ConfigInv
BY DEF Init, ConfigInv, ConfiguredExists, IntervalAsConfigured, UnservedReportDeclared,
       AdminOnlyFollowsAdmin, AdminOnly, Agrees, Exists

\* A report's upsert never hits a task that only the admin writes.
LEMMA UpsertMissesAdminOnly ==
  ASSUME TypeOK, UnservedReportDeclared, NEW n \in Nodes, NEW p \in pending[n]
  PROVE  UpsertKey(n, p) \notin AdminOnly
<1>1. n # Global
  BY NodesAssumption
<1>2. ASSUME n \notin Remote
      PROVE  p.target \in DeclaredTargets(n, p.name)
  BY <1>2 DEF UnservedReportDeclared, DeclaredTargets
<1> QED
  BY <1>1, <1>2 DEF AdminOnly, UpsertKey

LEMMA ConfigStep == TypeOK /\ ConfigInv /\ [Next]_vars => ConfigInv'
<1> SUFFICES ASSUME TypeOK, ConfigInv, [Next]_vars
             PROVE  ConfigInv'
  OBVIOUS
<1> USE DEF ConfigInv
<1> DEFINE RowInv(k) ==
             /\ wish[k] # NoTask => Exists(k)
             /\ Exists(k) => tasks[k].interval =
                               IF wish[k] = NoTask THEN DefaultInterval ELSE wish[k].interval
             /\ k \in AdminOnly => Agrees(k)
<1>a. \A k \in Keys : RowInv(k)
  BY DEF ConfiguredExists, IntervalAsConfigured, AdminOnlyFollowsAdmin
<1>b. AdminOnly' = AdminOnly /\ AdminOnly \subseteq Keys
  BY DEF AdminOnly, DeclaredTargets
<1>c. ASSUME NEW k \in Keys, tasks'[k] = tasks[k], wish'[k] = wish[k]
      PROVE  RowInv(k)'
  BY <1>a, <1>b, <1>c DEF Exists, Agrees
<1>d. ASSUME \A k \in Keys : RowInv(k)', UnservedReportDeclared'
      PROVE  ConfigInv'
  BY <1>b, <1>d DEF ConfiguredExists, IntervalAsConfigured, AdminOnlyFollowsAdmin
<1>e. ASSUME \A n \in Nodes : remote'[n] \subseteq remote[n] /\ pending'[n] \subseteq pending[n]
      PROVE  UnservedReportDeclared'
  BY <1>e DEF UnservedReportDeclared
<1>f. ASSUME UNCHANGED <<tasks, wish>>, UnservedReportDeclared'
      PROVE  ConfigInv'
  BY <1>c, <1>d, <1>f
<1>1. ASSUME NEW k \in Keys, NEW t \in Targets, NEW i \in Intervals, NEW e \in BOOLEAN,
             AdminUpsertProbe(k, t, i, e)
      PROVE  ConfigInv'
  <2> DEFINE set == [target |-> t, interval |-> EffectiveInterval(i), enabled |-> e]
             row == [id |-> IdFor(k), target |-> t,
                     interval |-> EffectiveInterval(i), enabled |-> e]
  <2>1. set \in Setting /\ row \in Row
    BY RowTypes, EffectiveIntervalPositive DEF Setting, Row
  <2>2. tasks'[k] = row /\ wish'[k] = set
    BY <1>1 DEF TypeOK, AdminUpsertProbe
  <2>3. row # NoTask /\ set # NoTask
    BY <2>1, NoTaskAssumption
  <2>4. RowInv(k)'
    BY <2>2, <2>3 DEF Exists, Agrees
  <2>5. \A j \in Keys \ {k} : tasks'[j] = tasks[j] /\ wish'[j] = wish[j]
    BY <1>1 DEF TypeOK, AdminUpsertProbe
  <2>6. \A j \in Keys : RowInv(j)'
    BY <1>c, <2>4, <2>5
  <2> QED
    BY <1>1, <1>d, <1>e, <2>6 DEF AdminUpsertProbe
<1>2. ASSUME NEW k \in Keys, AdminDeleteProbe(k)
      PROVE  ConfigInv'
  <2>1. tasks'[k] = NoTask /\ wish'[k] = NoTask
    BY <1>2 DEF TypeOK, AdminDeleteProbe
  <2>2. RowInv(k)'
    BY <2>1 DEF Exists, Agrees
  <2>3. \A j \in Keys \ {k} : tasks'[j] = tasks[j] /\ wish'[j] = wish[j]
    BY <1>2 DEF TypeOK, AdminDeleteProbe
  <2>4. \A j \in Keys : RowInv(j)'
    BY <1>c, <2>2, <2>3
  <2> QED
    BY <1>2, <1>d, <1>e, <2>4 DEF AdminDeleteProbe
<1>3. ASSUME NEW n \in Nodes, AgentFetch(n)
      PROVE  ConfigInv'
  <2>1. \A m \in Nodes \ Remote : remote'[m] = remote[m] \/ remote'[m] = {}
    BY <1>3 DEF TypeOK, AgentFetch
  <2>2. UnservedReportDeclared'
    BY <1>3, <2>1 DEF UnservedReportDeclared, AgentFetch
  <2> QED
    BY <1>3, <1>f, <2>2 DEF AgentFetch
<1>4. ASSUME NEW n \in Nodes, AgentFetchFails(n)
      PROVE  ConfigInv'
  <2>1. \A m \in Nodes : remote'[m] \subseteq remote[m] /\ pending'[m] \subseteq pending[m]
    BY <1>4 DEF TypeOK, AgentFetchFails
  <2> QED
    BY <1>4, <1>e, <1>f, <2>1 DEF AgentFetchFails
<1>5. ASSUME NEW n \in Nodes, AgentPost(n)
      PROVE  ConfigInv'
  <2>1. pending'[n] \subseteq remote[n] \cup Declared[n]
    BY <1>5 DEF TypeOK, AgentPost, Deduped
  <2>2. \A m \in Nodes : m # n => pending'[m] = pending[m]
    BY <1>5 DEF TypeOK, AgentPost
  <2>3. UnservedReportDeclared'
    BY <1>5, <2>1, <2>2 DEF UnservedReportDeclared, AgentPost
  <2> QED
    BY <1>5, <1>f, <2>3 DEF AgentPost
<1>6. ASSUME NEW n \in Nodes, AgentPostFails(n)
      PROVE  ConfigInv'
  <2>1. \A m \in Nodes : remote'[m] \subseteq remote[m] /\ pending'[m] \subseteq pending[m]
    BY <1>6 DEF TypeOK, AgentPostFails
  <2> QED
    BY <1>6, <1>e, <1>f, <2>1 DEF AgentPostFails
<1>7. ASSUME NEW n \in Nodes, NEW p \in pending[n], UpsertProbeTask(n, p)
      PROVE  ConfigInv'
  <2> DEFINE k == UpsertKey(n, p)
             row == UpsertedRow(k, p.target)
  <2>1. k \in Keys /\ p \in Probe /\ k \notin AdminOnly
    BY UpsertKeyType, UpsertMissesAdminOnly
  <2>2. row \in Row
    BY <2>1, RowTypes, IntervalAssumption DEF UpsertedRow, Row, Probe
  <2>3. tasks'[k] = row /\ wish' = wish
    BY <1>7, <2>1 DEF TypeOK, UpsertProbeTask
  <2>4. Exists(k)'
    BY <2>2, <2>3, NoTaskAssumption DEF Exists
  <2>5. row.interval = IF wish[k] = NoTask THEN DefaultInterval ELSE wish[k].interval
    <3>1. row.interval = IF Exists(k) THEN tasks[k].interval ELSE DefaultInterval
      BY DEF UpsertedRow
    <3>2. RowInv(k)
      BY <1>a, <2>1
    <3> QED
      BY <3>1, <3>2
  <2>6. RowInv(k)'
    BY <1>b, <2>1, <2>3, <2>4, <2>5
  <2>7. \A j \in Keys \ {k} : tasks'[j] = tasks[j]
    BY <1>7 DEF TypeOK, UpsertProbeTask
  <2>8. \A j \in Keys : RowInv(j)'
    BY <1>c, <2>3, <2>6, <2>7
  <2>9. \A m \in Nodes : remote'[m] \subseteq remote[m] /\ pending'[m] \subseteq pending[m]
    BY <1>7 DEF TypeOK, UpsertProbeTask
  <2> QED
    BY <1>d, <1>e, <2>8, <2>9
<1>8. ASSUME NEW n \in Nodes, NEW p \in pending[n], UpsertFails(n, p)
      PROVE  ConfigInv'
  <2>1. \A m \in Nodes : remote'[m] \subseteq remote[m] /\ pending'[m] \subseteq pending[m]
    BY <1>8 DEF TypeOK, UpsertFails
  <2> QED
    BY <1>8, <1>e, <1>f, <2>1 DEF UpsertFails
<1>9. ASSUME NEW n \in Nodes, ReportDone(n)
      PROVE  ConfigInv'
  <2>1. \A m \in Nodes : remote'[m] \subseteq remote[m] /\ pending'[m] \subseteq pending[m]
    BY <1>9 DEF TypeOK, ReportDone
  <2> QED
    BY <1>9, <1>e, <1>f, <2>1 DEF ReportDone
<1>10. CASE UNCHANGED vars
  BY <1>10, <1>e, <1>f
<1> QED
  BY <1>1, <1>2, <1>3, <1>4, <1>5, <1>6, <1>7, <1>8, <1>9, <1>10 DEF Next, Admin, Agent

LEMMA ConfigCorrect == Spec => []ConfigInv
BY TypeInit, TypeStep, ConfigInit, ConfigStep, PTL DEF Spec

\* No report, however late or often it is echoed, disturbs the interval an
\* admin configured: every row runs at the interval of the admin's last command
\* on it, or at the default when there is none.
THEOREM IntervalsCorrect == Spec => []IntervalAsConfigured
BY ConfigCorrect, PTL DEF ConfigInv

\* Global tasks, and tasks of nodes that neither fetch nor declare them, are
\* always exactly what the admin last asked for.
THEOREM AdminOnlyCorrect == Spec => []AdminOnlyFollowsAdmin
BY ConfigCorrect, PTL DEF ConfigInv

=============================================================================
