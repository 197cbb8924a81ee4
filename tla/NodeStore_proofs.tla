--------------------------- MODULE NodeStore_proofs ---------------------------
(***************************************************************************)
(* Theorems about NodeStore, for any nodes, names, regions and hardware,   *)
(* any number of reports, edits, purges, faults, any retention period.     *)
(***************************************************************************)
EXTENDS NodeStore, TLAPS

(***************************************************************************)
(* Types.                                                                  *)
(***************************************************************************)

\* A report makes a row of a row, or of nothing.
LEMMA UpsertedType ==
  ASSUME TypeOK, NEW u \in Uuids, NEW info \in Info
  PROVE  UpsertedNode(u, info) \in Node
<1>1. /\ info.name \in Names
      /\ info.hw \in Hardware \cup {NotReported}
      /\ info.cores \in Nat
  BY CoresAssumption DEF Info, Names
<1>2. CoresOf(info) \in Nat
  BY <1>1 DEF CoresOf
<1>3. CASE Exists(u)
  <2>1. nodes[u] \in Node
    BY <1>3 DEF Exists, TypeOK
  <2> QED
    BY <1>1, <1>2, <1>3, <2>1 DEF UpsertedNode, Node
<1>4. CASE ~Exists(u)
  BY <1>1, <1>2, <1>4 DEF UpsertedNode, NewRow, Node
<1> QED
  BY <1>3, <1>4

\* What is known of a node's hardware is hardware.
LEMMA LearnedType ==
  ASSUME TypeOK, NEW u \in Uuids, NEW info \in Info
  PROVE  Learned(u, info) \in Knowledge
<1>1. /\ info.name \in Names
      /\ info.hw \in Hardware \cup {NotReported}
      /\ info.cores \in Nat
  BY CoresAssumption DEF Info, Names
<1>2. known[u] \in Knowledge
  BY DEF TypeOK
<1> QED
  BY <1>1, <1>2 DEF Learned, Knowledge

\* The tables start empty.
LEMMA TypeInit == Init => TypeOK
<1> SUFFICES ASSUME Init
             PROVE  TypeOK
  OBVIOUS
<1>1. 0 \in Time /\ 0 \in 0..MaxReports /\ 0 \in 0..MaxEdits /\ 0 \in 0..MaxFaults
  BY NodeBoundsAssumption DEF Time
<1>2. NothingKnown \in Knowledge
  BY DEF NothingKnown, Knowledge
<1> QED
  BY <1>1, <1>2 DEF Init, TypeOK

\* Every statement of a report keeps the types.
LEMMA ReportType ==
  ASSUME TypeOK, NEW u \in Uuids, Report(u)
  PROVE  TypeOK'
<1>1. ASSUME NEW info \in Info, UpsertNode(u, info)
      PROVE  TypeOK'
  <2>1. /\ nodes' \in [Uuids -> Node \cup {NoNode}]
        /\ known' \in [Uuids -> Knowledge]
    BY <1>1, UpsertedType, LearnedType DEF UpsertNode, TypeOK
  <2>2. reports' \in 0..MaxReports
    BY <1>1, NodeBoundsAssumption DEF UpsertNode, TypeOK
  <2>3. /\ reporting' \in [Uuids -> BOOLEAN]
        /\ ops' \in [Uuids -> Regions \cup {NoRegion}]
    BY <1>1 DEF UpsertNode, TypeOK
  <2>4. overlap' \in [Uuids -> BOOLEAN]
    BY <1>1 DEF UpsertNode, TypeOK
  <2> QED
    BY <1>1, <2>1, <2>2, <2>3, <2>4 DEF UpsertNode, TypeOK
<1>2. CASE InsertStatus(u)
  BY <1>2 DEF InsertStatus, TypeOK, bounds
<1>3. CASE InsertStatusFails(u)
  <2>1. faults' \in 0..MaxFaults
    BY <1>3, NodeBoundsAssumption DEF InsertStatusFails, Fault, TypeOK
  <2> QED
    BY <1>3, <2>1 DEF InsertStatusFails, TypeOK, ghosts
<1> QED
  BY <1>1, <1>2, <1>3 DEF Report

\* What an admin posts makes a row of a row, or of nothing ...
LEMMA EditedType ==
  ASSUME TypeOK, NEW u \in Uuids, NEW n \in Posted
  PROVE  (IF Exists(u) THEN [nodes[u] EXCEPT !.name = n.name, !.region = n.region] ELSE n)
           \in Node
<1>1. n \in Node
  BY CoresAssumption DEF Posted, Node, Names
<1>2. Exists(u) => nodes[u] \in Node
  BY DEF Exists, TypeOK
<1> QED
  BY <1>1, <1>2 DEF Node

\* ... and is knowledge of it.
LEMMA ToldType ==
  ASSUME TypeOK, NEW u \in Uuids, NEW n \in Posted
  PROVE  (IF Exists(u) THEN [known[u] EXCEPT !.name = n.name]
          ELSE [name |-> n.name, hw |-> n.hw, cores |-> n.cores]) \in Knowledge
<1>1. /\ n.name \in Names
      /\ n.hw \in Hardware \cup {NotReported}
      /\ n.cores \in Nat
  BY CoresAssumption DEF Posted, Names
<1>2. known[u] \in Knowledge
  BY DEF TypeOK
<1> QED
  BY <1>1, <1>2 DEF Knowledge

\* Every statement of the admin's commands keeps the types.
LEMMA AdminType ==
  ASSUME TypeOK, NEW u \in Uuids, Admin(u)
  PROVE  TypeOK'
<1>1. ASSUME NEW n \in Posted, AdminUpsertNode(u, n)
      PROVE  TypeOK'
  <2>1. nodes' \in [Uuids -> Node \cup {NoNode}]
    BY <1>1, EditedType DEF AdminUpsertNode, TypeOK
  <2>2. known' \in [Uuids -> Knowledge]
    BY <1>1, ToldType DEF AdminUpsertNode, TypeOK
  <2>3. edits' \in 0..MaxEdits
    BY <1>1, NodeBoundsAssumption DEF AdminUpsertNode, AdminStep, TypeOK
  <2>4. ops' \in [Uuids -> Regions \cup {NoRegion}]
    BY <1>1 DEF AdminUpsertNode, TypeOK, Posted
  <2> QED
    BY <1>1, <2>1, <2>2, <2>3, <2>4 DEF AdminUpsertNode, TypeOK
<1>2. CASE DeleteStatuses(u)
  <2>1. edits' \in 0..MaxEdits
    BY <1>2, NodeBoundsAssumption DEF DeleteStatuses, AdminStep, TypeOK
  <2> QED
    BY <1>2, <2>1 DEF DeleteStatuses, TypeOK
<1>3. CASE DeleteRow(u)
  <2>1. NothingKnown \in Knowledge
    BY DEF NothingKnown, Knowledge
  <2> QED
    BY <1>3, <2>1 DEF DeleteRow, TypeOK, bounds
<1>4. CASE DeleteRowFails(u)
  <2>1. faults' \in 0..MaxFaults
    BY <1>4, NodeBoundsAssumption DEF DeleteRowFails, Fault, TypeOK
  <2> QED
    BY <1>4, <2>1 DEF DeleteRowFails, TypeOK, ghosts
<1> QED
  BY <1>1, <1>2, <1>3, <1>4 DEF Admin

\* The purge keeps sets of times, and its cutoff is a time.
LEMMA PurgeType ==
  ASSUME TypeOK, Purge
  PROVE  TypeOK'
<1>1. CASE PurgeStatuses
  <2>1. cutoff' \in Time /\ edits' \in 0..MaxEdits
    BY <1>1, NodeBoundsAssumption DEF PurgeStatuses, AdminStep, Cutoff, TypeOK, Time
  <2>2. statuses' \in [Uuids -> SUBSET Time]
    BY <1>1 DEF PurgeStatuses, Kept, AgedFrom, TypeOK
  <2> QED
    BY <1>1, <2>1, <2>2 DEF PurgeStatuses, TypeOK, ghosts
<1>2. CASE PurgeSamples
  <2>1. samples' \in [Uuids -> SUBSET Time]
    BY <1>2 DEF PurgeSamples, Kept, AgedFrom, TypeOK
  <2> QED
    BY <1>2, <2>1 DEF PurgeSamples, TypeOK, bounds, ghosts
<1>3. CASE PurgeFails
  <2>1. faults' \in 0..MaxFaults
    BY <1>3, NodeBoundsAssumption DEF PurgeFails, Fault, TypeOK
  <2> QED
    BY <1>3, <2>1 DEF PurgeFails, TypeOK, ghosts
<1> QED
  BY <1>1, <1>2, <1>3 DEF Purge

\* Every step keeps the types.
LEMMA TypeStep == TypeOK /\ [Next]_vars => TypeOK'
<1> SUFFICES ASSUME TypeOK, [Next]_vars
             PROVE  TypeOK'
  OBVIOUS
<1>1. CASE \E u \in Uuids : Report(u) \/ Admin(u)
  BY <1>1, ReportType, AdminType
<1>2. ASSUME NEW u \in Uuids, StartProbe(u)
      PROVE  TypeOK'
  BY <1>2 DEF StartProbe, TypeOK, bounds, ghosts
<1>3. ASSUME NEW u \in Uuids, InsertProbe(u)
      PROVE  TypeOK'
  <2>1. samples' \in [Uuids -> SUBSET Time]
    BY <1>3 DEF InsertProbe, TypeOK
  <2> QED
    BY <1>3, <2>1 DEF InsertProbe, TypeOK, bounds, ghosts
<1>4. CASE Purge
  BY <1>4, PurgeType
<1>5. CASE AdvanceTime
  <2>1. now' \in Time
    BY <1>5, NodeBoundsAssumption DEF AdvanceTime, TypeOK, Time
  <2> QED
    BY <1>5, <2>1 DEF AdvanceTime, TypeOK, bounds, ghosts
<1>6. CASE UNCHANGED vars
  BY <1>6 DEF vars, TypeOK
<1> QED
  BY <1>1, <1>2, <1>3, <1>4, <1>5, <1>6 DEF Next

\* Every column, every history and every handler between its statements keeps
\* its type.
THEOREM TypeCorrect == Spec => []TypeOK
BY TypeInit, TypeStep, PTL DEF Spec

(***************************************************************************)
(* The two writers of a row.                                               *)
(***************************************************************************)

\* Of a node without a row nothing is known: a row an admin makes starts from
\* nothing, and so does one a report makes.
NothingKnownOfNoNode ==
  \A u \in Uuids : ~Exists(u) => known[u].hw = NotReported

RowInv == WhatIsKnownIsKept /\ NothingKnownOfNoNode

\* A row that a report has written holds what is known now, and its old region.
LEMMA UpsertKeeps ==
  ASSUME TypeOK, RowInv, NEW u \in Uuids, NEW info \in Info, UpsertNode(u, info)
  PROVE  RowInv'
<1>1. UpsertedNode(u, info) \in Node /\ UpsertedNode(u, info) # NoNode
  BY UpsertedType, NodeAssumption
<1>2. /\ nodes'[u] = UpsertedNode(u, info)
      /\ known'[u] = Learned(u, info)
      /\ ops'[u] = IF Exists(u) THEN ops[u] ELSE NoRegion
  BY DEF UpsertNode, TypeOK
<1>3. \A v \in Uuids \ {u} : nodes'[v] = nodes[v] /\ known'[v] = known[v] /\ ops'[v] = ops[v]
  BY DEF UpsertNode, TypeOK
<1>4. /\ nodes'[u].region = ops'[u] /\ nodes'[u].hw = known'[u].hw
      /\ nodes'[u].name = known'[u].name
  <2>1. CASE Exists(u)
    <3>1. nodes[u] \in Node
      BY <2>1 DEF Exists, TypeOK
    <3>2. nodes[u].region = ops[u] /\ nodes[u].hw = known[u].hw
      BY <2>1 DEF RowInv, WhatIsKnownIsKept
    <3> QED
      BY <1>2, <2>1, <3>1, <3>2 DEF UpsertedNode, Learned, Node
  <2>2. CASE ~Exists(u)
    <3>1. known[u].hw = NotReported
      BY <2>2 DEF RowInv, NothingKnownOfNoNode
    <3> QED
      BY <1>2, <2>2, <3>1 DEF UpsertedNode, NewRow, Learned
  <2> QED
    BY <2>1, <2>2
<1> QED
  BY <1>1, <1>2, <1>3, <1>4 DEF RowInv, WhatIsKnownIsKept, NothingKnownOfNoNode, Exists

\* An edit of the admin keeps the hardware; a row it makes is all that is known.
LEMMA EditKeeps ==
  ASSUME TypeOK, RowInv, NEW u \in Uuids, NEW n \in Posted, AdminUpsertNode(u, n)
  PROVE  RowInv'
<1>1. /\ nodes'[u] = IF Exists(u) THEN [nodes[u] EXCEPT !.name = n.name, !.region = n.region]
                     ELSE n
      /\ known'[u] = IF Exists(u) THEN [known[u] EXCEPT !.name = n.name]
                     ELSE [name |-> n.name, hw |-> n.hw, cores |-> n.cores]
      /\ ops'[u] = n.region
      /\ \A v \in Uuids \ {u} : nodes'[v] = nodes[v] /\ known'[v] = known[v] /\ ops'[v] = ops[v]
  BY DEF AdminUpsertNode, TypeOK
<1>2. nodes'[u] \in Node
  BY <1>1, EditedType
<1>3. /\ nodes'[u].region = ops'[u] /\ nodes'[u].hw = known'[u].hw
      /\ nodes'[u].name = known'[u].name
  <2>1. CASE Exists(u)
    <3>1. nodes[u] \in Node /\ known[u] \in Knowledge /\ nodes[u].hw = known[u].hw
      BY <2>1 DEF Exists, TypeOK, RowInv, WhatIsKnownIsKept
    <3> QED
      BY <1>1, <2>1, <3>1 DEF Node, Knowledge
  <2>2. CASE ~Exists(u)
    BY <1>1, <2>2
  <2> QED
    BY <2>1, <2>2
<1> QED
  BY <1>1, <1>2, <1>3, NodeAssumption
  DEF RowInv, WhatIsKnownIsKept, NothingKnownOfNoNode, Exists

\* A deletion forgets a row and what is known of it together.
LEMMA DeletionForgets ==
  ASSUME TypeOK, RowInv, NEW u \in Uuids, DeleteRow(u)
  PROVE  RowInv'
<1>1. /\ nodes'[u] = NoNode /\ known'[u] = NothingKnown /\ ops' = ops
      /\ \A v \in Uuids \ {u} : nodes'[v] = nodes[v] /\ known'[v] = known[v]
  BY DEF DeleteRow, TypeOK
<1> QED
  BY <1>1 DEF RowInv, WhatIsKnownIsKept, NothingKnownOfNoNode, Exists, NothingKnown

\* The other steps write neither a row nor what is known of it.
LEMMA RowStep == TypeOK /\ RowInv /\ [Next]_vars => RowInv'
<1> SUFFICES ASSUME TypeOK, RowInv, [Next]_vars
             PROVE  RowInv'
  OBVIOUS
<1>1. CASE UNCHANGED <<nodes, known, ops>>
  BY <1>1 DEF RowInv, WhatIsKnownIsKept, NothingKnownOfNoNode, Exists
<1>2. ASSUME NEW u \in Uuids, Report(u)
      PROVE  RowInv'
  <2>1. CASE \E info \in Info : UpsertNode(u, info)
    BY <2>1, UpsertKeeps
  <2>2. CASE InsertStatus(u) \/ InsertStatusFails(u)
    BY <1>1, <2>2 DEF InsertStatus, InsertStatusFails, ghosts
  <2> QED
    BY <1>2, <2>1, <2>2 DEF Report
<1>3. ASSUME NEW u \in Uuids, Admin(u)
      PROVE  RowInv'
  <2>1. CASE \E n \in Posted : AdminUpsertNode(u, n)
    BY <2>1, EditKeeps
  <2>2. CASE DeleteRow(u)
    BY <2>2, DeletionForgets
  <2>3. CASE DeleteStatuses(u) \/ DeleteRowFails(u)
    BY <1>1, <2>3 DEF DeleteStatuses, DeleteRowFails, ghosts
  <2> QED
    BY <1>3, <2>1, <2>2, <2>3 DEF Admin
<1>4. CASE (\E u \in Uuids : StartProbe(u) \/ InsertProbe(u)) \/ Purge \/ AdvanceTime
  BY <1>1, <1>4
  DEF StartProbe, InsertProbe, Purge, PurgeStatuses, PurgeSamples, PurgeFails, AdvanceTime, ghosts
<1>5. CASE UNCHANGED vars
  BY <1>1, <1>5 DEF vars
<1> QED
  BY <1>2, <1>3, <1>4, <1>5 DEF Next

\* The region of a row is the admin's last word, its hardware the last that a
\* report carried or the row was made with, its name that of its last writer, in
\* any interleaving of edits, reports, deletions and faults.
THEOREM WhatIsKnownCorrect == Spec => []WhatIsKnownIsKept
<1>1. Init => RowInv
  BY DEF Init, RowInv, WhatIsKnownIsKept, NothingKnownOfNoNode, Exists, NothingKnown
<1>2. RowInv => WhatIsKnownIsKept
  BY DEF RowInv
<1> QED
  BY <1>1, <1>2, RowStep, TypeCorrect, PTL DEF Spec

(***************************************************************************)
(* The deletion of a node.                                                 *)
(***************************************************************************)

\* A node that has no row, or is being deleted, has statuses or a report under way
\* only when a report overlapped its deletion.
OrphanInv ==
  \A u \in Uuids :
    (~Exists(u) \/ deleting[u]) /\ (statuses[u] # {} \/ reporting[u]) => overlap[u]

\* A step for one node touches nothing of another that the invariant looks at.
SameFor(v) ==
  /\ nodes'[v] = nodes[v] /\ deleting'[v] = deleting[v] /\ reporting'[v] = reporting[v]
  /\ statuses'[v] = statuses[v] /\ overlap'[v] = overlap[v]

\* It is enough to look at the node a step is about.
LEMMA OneNode ==
  ASSUME OrphanInv, NEW u \in Uuids, \A v \in Uuids \ {u} : SameFor(v),
         (nodes'[u] = NoNode \/ deleting'[u]) /\ (statuses'[u] # {} \/ reporting'[u])
           => overlap'[u]
  PROVE  OrphanInv'
BY DEF OrphanInv, SameFor, Exists

\* A report makes its node's row, and says so when a deletion is under way.
LEMMA ReportOrphans ==
  ASSUME TypeOK, OrphanInv, NEW u \in Uuids, Report(u)
  PROVE  OrphanInv'
<1>1. ASSUME NEW info \in Info, UpsertNode(u, info)
      PROVE  OrphanInv'
  <2>1. nodes'[u] # NoNode
    BY <1>1, UpsertedType, NodeAssumption DEF UpsertNode, TypeOK
  <2>2. /\ deleting'[u] = deleting[u] /\ overlap'[u] = (overlap[u] \/ deleting[u])
        /\ \A v \in Uuids \ {u} : SameFor(v)
    BY <1>1 DEF UpsertNode, TypeOK, SameFor
  <2> QED
    BY <2>1, <2>2, OneNode
<1>2. CASE InsertStatus(u)
  <2>1. /\ reporting[u] /\ nodes' = nodes /\ deleting' = deleting /\ overlap' = overlap
        /\ \A v \in Uuids \ {u} : SameFor(v)
    BY <1>2 DEF InsertStatus, TypeOK, SameFor
  <2> QED
    BY <2>1, OneNode DEF OrphanInv, Exists
<1>3. CASE InsertStatusFails(u)
  <2>1. /\ reporting[u] /\ nodes' = nodes /\ deleting' = deleting /\ overlap' = overlap
        /\ \A v \in Uuids \ {u} : SameFor(v)
    BY <1>3 DEF InsertStatusFails, TypeOK, SameFor, ghosts
  <2> QED
    BY <2>1, OneNode DEF OrphanInv, Exists
<1> QED
  BY <1>1, <1>2, <1>3 DEF Report

\* A deletion starts by forgetting the statuses, and notes a report under way.
LEMMA AdminOrphans ==
  ASSUME TypeOK, OrphanInv, NEW u \in Uuids, Admin(u)
  PROVE  OrphanInv'
<1>1. ASSUME NEW n \in Posted, AdminUpsertNode(u, n)
      PROVE  OrphanInv'
  <2>1. /\ deleting' = deleting /\ overlap' = overlap /\ statuses' = statuses
        /\ reporting' = reporting
        /\ \A v \in Uuids \ {u} : SameFor(v)
    BY <1>1 DEF AdminUpsertNode, TypeOK, SameFor
  <2>2. nodes'[u] \in Node
    BY <1>1, EditedType DEF AdminUpsertNode, TypeOK
  <2> QED
    BY <2>1, <2>2, OneNode, NodeAssumption DEF OrphanInv
<1>2. CASE DeleteStatuses(u)
  <2>1. /\ statuses'[u] = {} /\ reporting' = reporting /\ overlap'[u] = reporting[u]
        /\ \A v \in Uuids \ {u} : SameFor(v)
    BY <1>2 DEF DeleteStatuses, TypeOK, SameFor
  <2> QED
    BY <2>1, OneNode
<1>3. CASE DeleteRow(u)
  <2>1. /\ deleting[u] /\ reporting' = reporting /\ overlap' = overlap /\ statuses' = statuses
        /\ \A v \in Uuids \ {u} : SameFor(v)
    BY <1>3 DEF DeleteRow, TypeOK, SameFor
  <2> QED
    BY <2>1, OneNode DEF OrphanInv
<1>4. CASE DeleteRowFails(u)
  <2>1. /\ nodes' = nodes /\ reporting' = reporting /\ overlap' = overlap /\ statuses' = statuses
        /\ deleting'[u] = FALSE
        /\ \A v \in Uuids \ {u} : SameFor(v)
    BY <1>4 DEF DeleteRowFails, TypeOK, SameFor, ghosts
  <2> QED
    BY <2>1, OneNode DEF OrphanInv, Exists
<1> QED
  BY <1>1, <1>2, <1>3, <1>4 DEF Admin

\* The purge only takes statuses away; the other steps touch nothing of it.
LEMMA OrphanStep == TypeOK /\ OrphanInv /\ [Next]_vars => OrphanInv'
<1> SUFFICES ASSUME TypeOK, OrphanInv, [Next]_vars
             PROVE  OrphanInv'
  OBVIOUS
<1>1. CASE UNCHANGED <<nodes, deleting, reporting, statuses, overlap>>
  BY <1>1 DEF OrphanInv, Exists
<1>2. CASE \E u \in Uuids : Report(u) \/ Admin(u)
  BY <1>2, ReportOrphans, AdminOrphans
<1>3. CASE PurgeStatuses
  <2>1. /\ UNCHANGED <<nodes, deleting, reporting, overlap>>
        /\ \A u \in Uuids : statuses'[u] \subseteq statuses[u]
    BY <1>3 DEF PurgeStatuses, Kept, AgedFrom, ghosts
  <2> QED
    BY <2>1 DEF OrphanInv, Exists
<1>4. CASE \/ \E u \in Uuids : StartProbe(u) \/ InsertProbe(u)
           \/ PurgeSamples \/ PurgeFails \/ AdvanceTime
  BY <1>1, <1>4 DEF StartProbe, InsertProbe, PurgeSamples, PurgeFails, AdvanceTime, ghosts
<1>5. CASE UNCHANGED vars
  BY <1>1, <1>5 DEF vars
<1> QED
  BY <1>2, <1>3, <1>4, <1>5 DEF Next, Purge

\* Statuses without a node are only ever left by a deletion that overlapped a
\* report of this node, wherever statements fail and however often it is made
\* and deleted again.
THEOREM OrphansCorrect == Spec => []OrphansNeedOverlap
<1>1. Init => OrphanInv
  BY DEF Init, OrphanInv
<1>2. OrphanInv => OrphansNeedOverlap
  BY DEF OrphanInv, OrphansNeedOverlap
<1> QED
  BY <1>1, <1>2, OrphanStep, TypeCorrect, PTL DEF Spec

(***************************************************************************)
(* The retention.                                                          *)
(***************************************************************************)

\* A cutoff is never later than the one that a purge would use now.
CutoffIsPast == cutoff # -1 => cutoff <= Cutoff

\* Time only moves the cutoff a new purge would use.
LEMMA CutoffStep == TypeOK /\ CutoffIsPast /\ [Next]_vars => CutoffIsPast'
<1> SUFFICES ASSUME TypeOK, CutoffIsPast, [Next]_vars
             PROVE  CutoffIsPast'
  OBVIOUS
<1> USE DEF CutoffIsPast, Cutoff
<1>1. CASE UNCHANGED <<cutoff, now>>
  BY <1>1
<1>2. CASE Purge
  BY <1>2, NodeBoundsAssumption DEF Purge, PurgeStatuses, PurgeSamples, PurgeFails, TypeOK, Time
<1>3. CASE AdvanceTime
  BY <1>3, NodeBoundsAssumption DEF AdvanceTime, TypeOK, Time
<1>4. CASE \E u \in Uuids : Report(u) \/ StartProbe(u) \/ InsertProbe(u)
  BY <1>1, <1>4
  DEF Report, UpsertNode, InsertStatus, InsertStatusFails, StartProbe, InsertProbe
<1>5. CASE \E u \in Uuids : Admin(u)
  BY <1>1, <1>5 DEF Admin, AdminUpsertNode, DeleteStatuses, DeleteRow, DeleteRowFails
<1>6. CASE UNCHANGED vars
  BY <1>1, <1>6 DEF vars
<1> QED
  BY <1>2, <1>3, <1>4, <1>5, <1>6 DEF Next

\* What a step of NothingRecentIsLost may take away, for one node.
OldOrDeleted(u) ==
  /\ \A t \in statuses[u] \ statuses'[u] : t < now - Retain \/ (deleting'[u] /\ ~deleting[u])
  /\ \A t \in samples[u] \ samples'[u] : t < now - Retain

\* What the purge takes away is older than a cutoff that is past.
LEMMA LostIsOld ==
  ASSUME TypeOK, CutoffIsPast, [Next]_vars, NEW u \in Uuids
  PROVE  OldOrDeleted(u)
<1>1. CASE statuses[u] \subseteq statuses'[u] /\ samples[u] \subseteq samples'[u]
  BY <1>1 DEF OldOrDeleted
<1>2. CASE PurgeStatuses
  <2>1. samples' = samples /\ statuses'[u] = {t \in statuses[u] : t >= now - Retain}
    BY <1>2 DEF PurgeStatuses, Kept, AgedFrom, Cutoff
  <2>2. now - Retain \in Int /\ statuses[u] \subseteq Int
    BY NodeBoundsAssumption DEF TypeOK, Time
  <2> QED
    BY <2>1, <2>2 DEF OldOrDeleted
<1>3. CASE PurgeSamples
  <2>1. /\ statuses' = statuses /\ samples'[u] = {t \in samples[u] : t >= cutoff}
        /\ cutoff <= now - Retain
    BY <1>3 DEF PurgeSamples, Kept, AgedFrom, CutoffIsPast, Cutoff
  <2>2. now - Retain \in Int /\ cutoff \in Int /\ samples[u] \subseteq Int
    BY NodeBoundsAssumption DEF TypeOK, Time
  <2> QED
    BY <2>1, <2>2 DEF OldOrDeleted
<1>4. ASSUME NEW v \in Uuids, DeleteStatuses(v)
      PROVE  OldOrDeleted(u)
  <2>1. /\ samples' = samples /\ ~deleting[v] /\ deleting'[v]
        /\ \A w \in Uuids \ {v} : statuses'[w] = statuses[w]
    BY <1>4 DEF DeleteStatuses, TypeOK
  <2> QED
    BY <2>1 DEF OldOrDeleted
<1>5. ASSUME NEW v \in Uuids, Report(v) \/ StartProbe(v) \/ InsertProbe(v)
      PROVE  OldOrDeleted(u)
  <2>1. CASE InsertStatus(v)
    BY <1>1, <2>1 DEF InsertStatus, TypeOK
  <2>2. CASE InsertProbe(v)
    BY <1>1, <2>2 DEF InsertProbe, TypeOK
  <2>3. CASE (\E info \in Info : UpsertNode(v, info)) \/ InsertStatusFails(v) \/ StartProbe(v)
    BY <1>1, <2>3 DEF UpsertNode, InsertStatusFails, StartProbe
  <2> QED
    BY <1>5, <2>1, <2>2, <2>3 DEF Report
<1>6. CASE \E v \in Uuids : DeleteRow(v) \/ DeleteRowFails(v)
                            \/ \E n \in Posted : AdminUpsertNode(v, n)
  BY <1>1, <1>6 DEF AdminUpsertNode, DeleteRow, DeleteRowFails
<1>7. CASE PurgeFails \/ AdvanceTime \/ UNCHANGED vars
  BY <1>1, <1>7 DEF PurgeFails, AdvanceTime, vars
<1> QED
  BY <1>2, <1>3, <1>4, <1>5, <1>6, <1>7 DEF Next, Admin, Purge

\* No row of either history table that is younger than the retention period is
\* lost, except the statuses of a node that an admin deletes, however long a purge
\* takes between its two statements.
THEOREM NothingRecentCorrect == Spec => NothingRecentIsLost
<1>1. Init => CutoffIsPast
  BY DEF Init, CutoffIsPast
<1>2. TypeOK /\ CutoffIsPast /\ [Next]_vars
        => [\A u \in Uuids :
              /\ \A t \in statuses[u] \ statuses'[u] :
                   t < now - Retain \/ (deleting'[u] /\ ~deleting[u])
              /\ \A t \in samples[u] \ samples'[u] : t < now - Retain]_vars
  BY LostIsOld DEF OldOrDeleted
<1> QED
  BY <1>1, <1>2, CutoffStep, TypeCorrect, PTL DEF Spec, NothingRecentIsLost
===============================================================================
