------------------------------- MODULE NodeStore -------------------------------
(***************************************************************************)
(* The nodes table and the history kept for it: status_history and         *)
(* probe_records.  A report of an agent, the deletion of a node and the    *)
(* purge of old history are each several statements, every one of which    *)
(* can fail or be the last before a crash; the one connection of the pool  *)
(* runs the statements one at a time, in any interleaving of the requests. *)
(*                                                                         *)
(* Abstractions.  The hardware columns that follow one rule (keep what is  *)
(* known when a report leaves it out) are one value; cpu_cores is apart.   *)
(* "", "unknown" and 0 in such a column are all NotReported.               *)
(* Of the operating fields only the region is kept.  A history is the set  *)
(* of the times of its rows: nothing here looks at the measured values.    *)
(***************************************************************************)
EXTENDS Integers

CONSTANTS
  Uuids, Regions,
  NoRegion,     \* "UNKNOWN", the region of a node that registered itself
  AgentNames, AdminNames,  \* the names posted by agents and by the admin
  Hardware,
  Fallback,     \* what the collector reports in place of a field it cannot read
  NotReported,  \* a field without such a fallback, or an empty report
  NoNode,       \* "no such row"
  Cores,        \* what may be posted as the number of cores: 0 when it is not
                \* known, the number of processes when only that can be read
  Retain,       \* age at which history is purged (30 days)
  MaxTime,      \* bound: the clock
  MaxReports,   \* bound: reports
  MaxEdits,     \* bound: admin commands and purges
  MaxFaults     \* bound: failed statements and crashes

Time == 0..MaxTime

Names == AgentNames \cup AdminNames

Node == [name: Names, region: Regions \cup {NoRegion},
         hw: Hardware \cup {NotReported}, cores: Nat]

\* What a report says of its node: the name and the os_info posted with it.
Info == [name: AgentNames, hw: Hardware \cup {NotReported}, cores: Cores]

\* What the admin posts of a node: all of it can be filled in.
Posted == [name: AdminNames, region: Regions, hw: Hardware \cup {NotReported}, cores: Cores]

\* What the reports and the admin have told of a node: history only.
Knowledge == [name: Names \cup {NotReported}, hw: Hardware \cup {NotReported}, cores: Nat]

ASSUME NodeAssumption ==
  NoNode \notin Node /\ NotReported \notin Hardware /\ Fallback \in Hardware
ASSUME CoresAssumption == Cores \subseteq Nat
ASSUME NodeBoundsAssumption ==
  {Retain, MaxTime, MaxReports, MaxEdits, MaxFaults} \subseteq Nat

VARIABLES
  now,
  nodes,      \* nodes[u]: the row of u, or NoNode
  statuses,   \* statuses[u]: the times of u's rows in status_history
  samples,    \* samples[u]: the times of u's rows in probe_records
  reporting,  \* reporting[u]: u's report has registered it, its status is to come
  deleting,   \* deleting[u]: u's history is deleted, its row is not yet
  probing,    \* probing[u]: a probe for u is under way
  cutoff,     \* of the purge that has still to delete samples, or -1
  reports, edits, faults,
  known,      \* history: the last told of u since it has a row
  ops,        \* history: the region u was given when its row was made or edited
  overlap,    \* history: u's last deletion and a report of u overlapped
  heard       \* history: a report of u was stored since the last deletion

vars == <<now, nodes, statuses, samples, reporting, deleting, probing, cutoff,
          reports, edits, faults, known, ops, overlap, heard>>

bounds == <<reports, edits, faults>>
ghosts == <<known, ops, overlap, heard>>

TypeOK ==
  /\ now \in Time
  /\ nodes \in [Uuids -> Node \cup {NoNode}]
  /\ statuses \in [Uuids -> SUBSET Time]
  /\ samples \in [Uuids -> SUBSET Time]
  /\ reporting \in [Uuids -> BOOLEAN]
  /\ deleting \in [Uuids -> BOOLEAN]
  /\ probing \in [Uuids -> BOOLEAN]
  /\ cutoff \in Time \cup {-1}
  /\ reports \in 0..MaxReports /\ edits \in 0..MaxEdits /\ faults \in 0..MaxFaults
  /\ known \in [Uuids -> Knowledge]
  /\ ops \in [Uuids -> Regions \cup {NoRegion}]
  /\ overlap \in [Uuids -> BOOLEAN]
  /\ heard \in [Uuids -> BOOLEAN]

Exists(u) == nodes[u] # NoNode

NothingKnown == [name |-> NotReported, hw |-> NotReported, cores |-> 0]

Init ==
  /\ now = 0
  /\ nodes = [u \in Uuids |-> NoNode]
  /\ statuses = [u \in Uuids |-> {}]
  /\ samples = [u \in Uuids |-> {}]
  /\ reporting = [u \in Uuids |-> FALSE]
  /\ deleting = [u \in Uuids |-> FALSE]
  /\ probing = [u \in Uuids |-> FALSE]
  /\ cutoff = -1
  /\ reports = 0 /\ edits = 0 /\ faults = 0
  /\ known = [u \in Uuids |-> NothingKnown]
  /\ ops = [u \in Uuids |-> NoRegion]
  /\ overlap = [u \in Uuids |-> FALSE]
  /\ heard = [u \in Uuids |-> FALSE]

\* A failed statement, or a crash before it.
Fault == faults < MaxFaults /\ faults' = faults + 1

AdminStep == edits < MaxEdits /\ edits' = edits + 1

(***************************************************************************)
(* A report: UpsertNode, then InsertStatus.  (Its probes: ProbeTasks.)     *)
(***************************************************************************)

CoresOrNull(info) ==   \* mutant: no default for an unreadable core count
  IF info.cores <= 0 THEN NotReported ELSE info.cores

CoresOf(info) == IF info.cores <= 0 THEN 1 ELSE info.cores

NewRow(info) ==
  [name |-> info.name, region |-> NoRegion, hw |-> info.hw, cores |-> CoresOf(info)]

HardwareReset(u, info) ==   \* mutant: no CASE around the hardware columns
  IF Exists(u)
  THEN [nodes[u] EXCEPT !.name = info.name, !.hw = info.hw, !.cores = CoresOf(info)]
  ELSE NewRow(info)

\* INSERT ... ON CONFLICT(uuid) DO UPDATE: the operating fields stay, and so
\* does the hardware a report leaves out; the name is the report's.
UpsertedNode(u, info) ==
  IF Exists(u)
  THEN [nodes[u] EXCEPT !.name = info.name,
                        !.hw = IF info.hw = NotReported THEN @ ELSE info.hw,
                        !.cores = IF CoresOf(info) > 0 THEN CoresOf(info) ELSE @]
  ELSE NewRow(info)

Learned(u, info) ==
  [name  |-> info.name,
   hw    |-> IF info.hw = NotReported THEN known[u].hw ELSE info.hw,
   cores |-> IF info.cores = 0 THEN known[u].cores ELSE info.cores]

UpsertNode(u, info) ==
  /\ ~reporting[u]
  /\ reports < MaxReports
  /\ reports' = reports + 1
  /\ nodes' = [nodes EXCEPT ![u] = UpsertedNode(u, info)]
  /\ reporting' = [reporting EXCEPT ![u] = TRUE]
  /\ known' = [known EXCEPT ![u] = Learned(u, info)]
  /\ ops' = [ops EXCEPT ![u] = IF Exists(u) THEN @ ELSE NoRegion]
  /\ overlap' = [overlap EXCEPT ![u] = @ \/ deleting[u]]
  /\ UNCHANGED <<now, statuses, samples, deleting, probing, cutoff, edits, faults, heard>>

InsertStatus(u) ==
  /\ reporting[u]
  /\ statuses' = [statuses EXCEPT ![u] = @ \cup {now}]
  /\ reporting' = [reporting EXCEPT ![u] = FALSE]
  /\ heard' = [heard EXCEPT ![u] = TRUE]
  /\ UNCHANGED <<now, nodes, samples, deleting, probing, cutoff, bounds, known, ops, overlap>>

InsertStatusFails(u) ==
  /\ reporting[u]
  /\ Fault
  /\ reporting' = [reporting EXCEPT ![u] = FALSE]
  /\ UNCHANGED <<now, nodes, statuses, samples, deleting, probing, cutoff, reports, edits, ghosts>>

(***************************************************************************)
(* The admin.                                                              *)
(***************************************************************************)

\* INSERT ... ON CONFLICT(uuid) DO UPDATE: a row that is there gets a name and a
\* region, a new one all that is posted, the cores as they are.
AdminUpsertNode(u, n) ==
  /\ AdminStep
  /\ nodes' = [nodes EXCEPT ![u] =
                 IF Exists(u) THEN [@ EXCEPT !.name = n.name, !.region = n.region] ELSE n]
  /\ known' = [known EXCEPT ![u] =
                 IF Exists(u) THEN [@ EXCEPT !.name = n.name]
                 ELSE [name |-> n.name, hw |-> n.hw, cores |-> n.cores]]
  /\ ops' = [ops EXCEPT ![u] = n.region]
  /\ UNCHANGED <<now, statuses, samples, reporting, deleting, probing, cutoff, reports,
                 faults, overlap, heard>>

DeleteRowInstead(u) ==   \* mutant: the first statement forgets the history
  /\ ~deleting[u]
  /\ AdminStep
  /\ nodes' = [nodes EXCEPT ![u] = NoNode]
  /\ deleting' = [deleting EXCEPT ![u] = TRUE]
  /\ overlap' = [overlap EXCEPT ![u] = reporting[u]]
  /\ heard' = [heard EXCEPT ![u] = FALSE]
  /\ UNCHANGED <<now, statuses, samples, reporting, probing, cutoff, reports, faults, known, ops>>

\* AdminDeleteNode, its first statement ...
DeleteStatuses(u) ==
  /\ ~deleting[u]
  /\ AdminStep
  /\ statuses' = [statuses EXCEPT ![u] = {}]
  /\ deleting' = [deleting EXCEPT ![u] = TRUE]
  /\ overlap' = [overlap EXCEPT ![u] = reporting[u]]
  /\ heard' = [heard EXCEPT ![u] = FALSE]
  /\ UNCHANGED <<now, nodes, samples, reporting, probing, cutoff, reports, faults, known, ops>>

\* ... and its second.
DeleteRow(u) ==
  /\ deleting[u]
  /\ nodes' = [nodes EXCEPT ![u] = NoNode]
  /\ deleting' = [deleting EXCEPT ![u] = FALSE]
  /\ known' = [known EXCEPT ![u] = NothingKnown]
  /\ UNCHANGED <<now, statuses, samples, reporting, probing, cutoff, bounds, ops, overlap, heard>>

DeleteRowFails(u) ==
  /\ deleting[u]
  /\ Fault
  /\ deleting' = [deleting EXCEPT ![u] = FALSE]
  /\ UNCHANGED <<now, nodes, statuses, samples, reporting, probing, cutoff, reports, edits, ghosts>>

(***************************************************************************)
(* The scheduler's probes, and the purge.                                  *)
(***************************************************************************)

StartProbe(u) ==
  /\ Exists(u)
  /\ ~probing[u]
  /\ probing' = [probing EXCEPT ![u] = TRUE]
  /\ UNCHANGED <<now, nodes, statuses, samples, reporting, deleting, cutoff, bounds, ghosts>>

InsertProbe(u) ==
  /\ probing[u]
  /\ probing' = [probing EXCEPT ![u] = FALSE]
  /\ samples' = [samples EXCEPT ![u] = @ \cup {now}]
  /\ UNCHANGED <<now, nodes, statuses, reporting, deleting, cutoff, bounds, ghosts>>

Cutoff == now - Retain

AgedFrom(S, c) == {t \in S : t >= c}

AgedWrongWay(S, c) == {t \in S : t < c}   \* mutant: the comparison is turned round

\* DELETE ... WHERE time < cutoff.
Kept(S, c) == AgedFrom(S, c)

PurgeStatuses ==
  /\ cutoff = -1
  /\ Cutoff >= 0
  /\ AdminStep
  /\ cutoff' = Cutoff
  /\ statuses' = [u \in Uuids |-> Kept(statuses[u], Cutoff)]
  /\ UNCHANGED <<now, nodes, samples, reporting, deleting, probing, reports, faults, ghosts>>

PurgeSamples ==
  /\ cutoff # -1
  /\ cutoff' = -1
  /\ samples' = [u \in Uuids |-> Kept(samples[u], cutoff)]
  /\ UNCHANGED <<now, nodes, statuses, reporting, deleting, probing, bounds, ghosts>>

PurgeFails ==
  /\ cutoff # -1
  /\ Fault
  /\ cutoff' = -1
  /\ UNCHANGED <<now, nodes, statuses, samples, reporting, deleting, probing, reports, edits, ghosts>>

AdvanceTime ==
  /\ now < MaxTime
  /\ now' = now + 1
  /\ UNCHANGED <<nodes, statuses, samples, reporting, deleting, probing, cutoff, bounds, ghosts>>

Report(u) ==
  \/ \E info \in Info : UpsertNode(u, info)
  \/ InsertStatus(u) \/ InsertStatusFails(u)

Admin(u) ==
  \/ \E n \in Posted : AdminUpsertNode(u, n)
  \/ DeleteStatuses(u) \/ DeleteRow(u) \/ DeleteRowFails(u)

Purge == PurgeStatuses \/ PurgeSamples \/ PurgeFails

Next ==
  \/ \E u \in Uuids : Report(u) \/ Admin(u) \/ StartProbe(u) \/ InsertProbe(u)
  \/ Purge
  \/ AdvanceTime

Spec == Init /\ [][Next]_vars

(***************************************************************************)
(* Properties.                                                             *)
(***************************************************************************)

\* Of a row with two writers, each column is what its rule says, whatever
\* reports, edits, deletions and failures come between.  The operating fields
\* are the admin's alone: a node that registers itself has the default, and no
\* later report touches them, not even one that overlaps the edit (the comment
\* on UpsertNode).  The hardware is what the last report that carried it has
\* told, a fallback of the collector counting as told, or, before any, what
\* the admin made the row with: neither an edit nor an empty report wipes it
\* (store/fixes_test.go), and a row that is made anew inherits nothing.  The
\* name is that of the last of either to write.  The cores: CoresAreKept.
WhatIsKnownIsKept ==
  \A u \in Uuids :
    Exists(u) => /\ nodes[u].region = ops[u]
                 /\ nodes[u].hw = known[u].hw
                 /\ nodes[u].name = known[u].name

\* History without a node is only ever left by a deletion that overlapped a
\* report of that node: on its own, a deletion leaves none, even when its
\* second statement fails or the server stops between the two.
OrphansNeedOverlap ==
  \A u \in Uuids : ~Exists(u) /\ statuses[u] # {} => overlap[u]

\* Nothing is lost that is younger than the retention period, except the
\* statuses of the very node an admin deletes: neither table's purge uses a
\* cutoff that is too late, however long it takes between its statements.
NothingRecentIsLost ==
  [][\A u \in Uuids :
       /\ \A t \in statuses[u] \ statuses'[u] :
            t < now - Retain \/ (deleting'[u] /\ ~deleting[u])
       /\ \A t \in samples[u] \ samples'[u] : t < now - Retain]_vars

(***************************************************************************)
(* Claims of the documentation and of comments that the code does not meet *)
(***************************************************************************)

\* store/fixes_test.go: a later report with empty info does not clear the
\* information there is.  Of the number of cores:
CoresAreKept ==
  \A u \in Uuids : Exists(u) /\ known[u].cores > 0 => nodes[u].cores = known[u].cores

\* The same of a field the collector could not read, in whose place it puts
\* another (the architecture for the name of the CPU), so that the report is not
\* empty and does replace what was read before:
MeasuredIsKept ==
  [][\A u \in Uuids :
       Exists(u) /\ nodes[u].hw \in Hardware \ {Fallback} /\ Exists(u)'
         => nodes'[u].hw # Fallback]_vars

\* adapters.go, AdminDeleteNode: "deletes the node and its history".  Once the
\* deletion and the reports are over, a node that is gone has no statuses ...
DeletedStatusesAreGone ==
  \A u \in Uuids :
    ~Exists(u) /\ ~reporting[u] /\ ~deleting[u] => statuses[u] = {}

\* ... and no samples (retention.go calls both tables the history).
DeletedSamplesAreGone ==
  \A u \in Uuids :
    ~Exists(u) /\ ~deleting[u] /\ ~probing[u] => samples[u] = {}

\* README: a node that has not reported for 60 seconds is judged offline.  The
\* judgement is made of the node's latest status, so there has to be one.
SilentNodesAreJudged == \A u \in Uuids : Exists(u) /\ heard[u] => statuses[u] # {}
===============================================================================
