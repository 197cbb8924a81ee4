---------------------------- MODULE Scheduler_proofs ----------------------------
(***************************************************************************)
(* Proofs of safety properties of Scheduler, for any nodes, tasks and      *)
(* intervals, any number of slots, and any bounds.                         *)
(***************************************************************************)
EXTENDS Scheduler, FiniteSetTheorems, TLAPS

USE DEF vars, walkVars, loopVars, tableVars, probeVars

(***************************************************************************)
(* Types.                                                                  *)
(***************************************************************************)

\* While the loop looks at tasks it visits a node, never the client '*'.
Visiting == pc \in {"task", "slot"} => client \in Nodes

TypeInv == TypeOK /\ Visiting

LEMMA InitialIds ==
  LET S == {i \in Ids : InitRows[i] # NoRow}
  IN /\ Cardinality(S) \in 0..MaxId
     /\ \A i \in S : i < 1 + Cardinality(S)
<1> DEFINE S == {i \in Ids : InitRows[i] # NoRow}
<1>1. MaxId \in Nat
  BY BoundsAssumption
<1>2. IsFiniteSet(Ids) /\ Cardinality(Ids) = MaxId
  BY <1>1, FS_Interval DEF Ids
<1>3. IsFiniteSet(S) /\ Cardinality(S) \in Nat /\ Cardinality(S) <= MaxId
  BY <1>2, FS_Subset, FS_CardinalityType
<1>4. ASSUME NEW i \in S
      PROVE  i <= Cardinality(S)
  <2>1. i \in Nat /\ i >= 1
    BY <1>1 DEF Ids
  <2>2. 1..i \subseteq S
    BY <1>1, <2>1, InitRowsAssumption DEF Ids
  <2>3. IsFiniteSet(1..i) /\ Cardinality(1..i) = i
    BY <2>1, FS_Interval
  <2>4. Cardinality(1..i) <= Cardinality(S)
    BY <1>3, <2>2, FS_Subset
  <2> QED
    BY <2>3, <2>4
<1>5. \A i \in S : i < 1 + Cardinality(S)
  <2> SUFFICES ASSUME NEW i \in S
               PROVE  i < 1 + Cardinality(S)
    OBVIOUS
  <2>1. i \in Int
    BY <1>1 DEF Ids
  <2> QED
    BY <1>3, <1>4, <2>1
<1> QED
  BY <1>1, <1>3, <1>5

LEMMA TypeInit == Init => TypeInv
<1> SUFFICES ASSUME Init
             PROVE  TypeInv
  OBVIOUS
<1>1. nextId \in 1..(MaxId + 1)
  <2> DEFINE c == Cardinality({i \in Ids : InitRows[i] # NoRow})
  <2>1. c \in 0..MaxId
    BY InitialIds
  <2>2. nextId = 1 + c
    BY DEF Init
  <2> QED
    BY <2>1, <2>2, BoundsAssumption
<1>2. 0 \in Time
  BY BoundsAssumption DEF Time
<1> QED
  BY <1>1, <1>2, NodesAssumption, InitRowsAssumption DEF Init, TypeInv, TypeOK, Visiting

\* The loop visits nodes only.
LEMMA ClientsAreNodes ==
  ASSUME TypeOK
  PROVE  ClientsOf(rows, registered) \subseteq Nodes
<1>1. \A j \in Ids : rows[j] # NoRow => rows[j].client \in Nodes \cup {Global}
  BY DEF TypeOK, Row
<1> QED
  BY <1>1, NodesAssumption DEF ClientsOf, ProbeClients, TypeOK

\* What the loop copies of a row is a task.
LEMMA CopyType ==
  ASSUME TypeOK, NEW i \in Ids, Exists(i)
  PROVE  CopyOf(i) \in Task
<1>1. rows[i] \in Row
  BY DEF TypeOK, Exists
<1> QED
  BY <1>1 DEF CopyOf, Task, Row

\* An edit whose new tables have their types keeps the types of the rest.
LEMMA EditType ==
  ASSUME TypeInv, NEW rs \in [Ids -> Row \cup {NoRow}], NEW reg \in SUBSET Nodes,
         Edit(rs, reg), nextId' \in 1..(MaxId + 1)
  PROVE  TypeInv'
<1>1. flip' \in [Keys -> Time] /\ misses' \in [Keys -> Nat] /\ paced' \in [Keys -> Nat]
  BY DEF Edit, TypeInv, TypeOK
<1> QED
  BY <1>1 DEF Edit, TypeInv, TypeOK, Visiting

\* A phase changes the phase of a probe and nothing else of it.
LEMMA MoveType ==
  ASSUME TypeOK, NEW p \in running,
         NEW phase \in {"probing", "inserting", "returning"}
  PROVE  MoveTo(p, phase) \subseteq Probe
<1>1. p \in Probe
  BY DEF TypeOK
<1>2. [p EXCEPT !.phase = phase] \in Probe
  BY <1>1 DEF Probe
<1> QED
  BY <1>2 DEF MoveTo, TypeOK

\* The admin's commands leave the goroutines and the loop alone.
LEMMA AdminFrame ==
  ASSUME Admin
  PROVE  UNCHANGED <<slots, running, starts, records, todo, client>>
<1>1. ASSUME NEW rs, NEW reg, Edit(rs, reg)
      PROVE  UNCHANGED <<slots, running, starts, records, todo, client>>
  BY <1>1 DEF Edit
<1>2. CASE \E c \in Nodes \cup {Global}, m \in Names, i \in Intervals, e \in BOOLEAN :
             UpsertTask(c, m, i, e)
  BY <1>1, <1>2 DEF UpsertTask
<1>3. CASE \E i \in Ids : DeleteTask(i)
  BY <1>1, <1>3 DEF DeleteTask
<1>4. CASE \E n \in Nodes : RegisterNode(n) \/ DeleteNode(n)
  BY <1>1, <1>4 DEF RegisterNode, DeleteNode
<1> QED
  BY <1>2, <1>3, <1>4 DEF Admin

LEMMA AdminType == TypeInv /\ Admin => TypeInv'
<1> SUFFICES ASSUME TypeInv, Admin
             PROVE  TypeInv'
  OBVIOUS
<1> USE DEF TypeInv
<1>1. ASSUME NEW c \in Nodes \cup {Global}, NEW m \in Names, NEW i \in Intervals,
             NEW e \in BOOLEAN, UpsertTask(c, m, i, e)
      PROVE  TypeInv'
  <2> DEFINE row == [client |-> c, name |-> m, interval |-> EffectiveInterval(i), enabled |-> e]
             new == RowOf(c, m) = {}
  <2>1. row \in Row
    BY IntervalAssumption DEF Row, EffectiveInterval
  <2>2. PICK id \in Ids : /\ id \in (IF new THEN {NewId} ELSE RowOf(c, m))
                          /\ Edit([rows EXCEPT ![id] = row], registered)
                          /\ nextId' = IF new THEN NewId + 1 ELSE nextId
    BY <1>1 DEF UpsertTask
  <2>3. [rows EXCEPT ![id] = row] \in [Ids -> Row \cup {NoRow}]
    BY <2>1 DEF TypeOK
  <2>4. nextId' \in 1..(MaxId + 1)
    <3>1. MaxId \in Nat
      BY BoundsAssumption
    <3>2. CASE new
      BY <2>2, <3>1, <3>2 DEF NewId, Ids
    <3>3. CASE ~new
      BY <2>2, <3>3 DEF TypeOK
    <3> QED
      BY <3>2, <3>3
  <2> QED
    BY <2>2, <2>3, <2>4, EditType DEF TypeOK
<1>2. ASSUME NEW i \in Ids, DeleteTask(i)
      PROVE  TypeInv'
  <2>1. [rows EXCEPT ![i] = NoRow] \in [Ids -> Row \cup {NoRow}]
    BY DEF TypeOK
  <2> QED
    BY <1>2, <2>1, EditType DEF DeleteTask, TypeOK
<1>3. ASSUME NEW n \in Nodes, RegisterNode(n)
      PROVE  TypeInv'
  BY <1>3, EditType DEF RegisterNode, TypeOK
<1>4. ASSUME NEW n \in Nodes, DeleteNode(n)
      PROVE  TypeInv'
  BY <1>4, EditType DEF DeleteNode, TypeOK
<1> QED
  BY <1>1, <1>2, <1>3, <1>4 DEF Admin

LEMMA LoopType == TypeInv /\ Loop => TypeInv'
<1> SUFFICES ASSUME TypeInv, Loop
             PROVE  TypeInv'
  OBVIOUS
<1> USE DEF TypeInv, Visiting
<1>1. CASE TakeTick \/ TakeTickBlind
  <2>1. CASE TakeTick
    BY <2>1, ClientsAreNodes DEF TakeTick, TypeOK
  <2>2. CASE TakeTickBlind
    <3>1. clients' \subseteq Nodes /\ misses' \in [Keys -> Nat]
      BY <2>2, NodesAssumption DEF TakeTickBlind, TypeOK
    <3> QED
      BY <2>2, <3>1 DEF TakeTickBlind, TypeOK
  <2> QED
    BY <1>1, <2>1, <2>2
<1>2. CASE TickDone
  BY <1>2 DEF TickDone, TypeOK
<1>3. CASE ClientDone
  BY <1>3 DEF ClientDone, TypeOK
<1>4. ASSUME NEW c \in clients, LoadTasks(c)
      PROVE  TypeInv'
  <2>1. {CopyOf(i) : i \in {j \in Ids : Exists(j) /\ rows[j].client \in {Global, c}}} \subseteq Task
    BY CopyType
  <2> QED
    BY <1>4, <2>1 DEF LoadTasks, TypeOK
<1>5. ASSUME NEW c \in clients, LoadFails(c)
      PROVE  TypeInv'
  BY <1>5 DEF LoadFails, TypeOK
<1>6. ASSUME NEW t \in todo, SkipTask(t)
      PROVE  TypeInv'
  BY <1>6 DEF SkipTask, TypeOK
<1>7. ASSUME NEW t \in todo, PickTask(t)
      PROVE  TypeInv'
  BY <1>7 DEF PickTask, TypeOK
<1>8. ASSUME NEW t \in todo, StartProbe(t)
      PROVE  TypeInv'
  <2> DEFINE k == <<client, t.id>>
             p == [client |-> client, id |-> t.id, name |-> t.name, start |-> now,
                   no |-> starts[k] + 1, phase |-> "probing"]
  <2>1. t \in Task /\ client \in Nodes
    BY <1>8 DEF StartProbe, TypeOK
  <2>2. k \in Keys /\ starts[k] \in Nat
    BY <2>1 DEF Keys, Task, TypeOK
  <2>3. p \in Probe
    BY <2>1, <2>2 DEF Probe, Task, TypeOK
  <2>4. running' \subseteq Probe
    BY <1>8, <2>3 DEF StartProbe, TypeOK
  <2>5. starts' \in [Keys -> Nat] /\ paced' \in [Keys -> Nat] /\ slots' \in Nat
    BY <1>8, <2>2 DEF StartProbe, TypeOK
  <2> QED
    BY <1>8, <2>4, <2>5 DEF StartProbe, TypeOK
<1> QED
  BY <1>1, <1>2, <1>3, <1>4, <1>5, <1>6, <1>7, <1>8 DEF Loop

LEMMA GoroutineType ==
  ASSUME TypeInv, NEW p \in running, Goroutine(p)
  PROVE  TypeInv'
<1> USE DEF TypeInv, Visiting
<1>1. CASE EndProbe(p)
  BY <1>1, MoveType DEF EndProbe, TypeOK
<1>2. CASE InsertProbe(p)
  <2>1. [client |-> p.client, id |-> p.id, name |-> p.name] \in Record
    BY DEF Record, Probe, TypeOK
  <2>2. records' \subseteq Record
    BY <1>2, <2>1 DEF InsertProbe, TypeOK
  <2> QED
    BY <1>2, <2>2, MoveType DEF InsertProbe, TypeOK
<1>3. CASE InsertFails(p)
  BY <1>3, MoveType DEF InsertFails, TypeOK
<1>4. CASE ReleaseSlot(p)
  BY <1>4 DEF ReleaseSlot, TypeOK
<1> QED
  BY <1>1, <1>2, <1>3, <1>4 DEF Goroutine

LEMMA TypeStep == TypeInv /\ [Next]_vars => TypeInv'
<1> SUFFICES ASSUME TypeInv, [Next]_vars
             PROVE  TypeInv'
  OBVIOUS
<1>1. CASE Admin
  BY <1>1, AdminType
<1>2. CASE Loop
  BY <1>2, LoopType
<1>3. CASE \E p \in running : Goroutine(p)
  BY <1>3, GoroutineType
<1>4. CASE AdvanceTime
  <2>1. now' \in Time
    BY <1>4, BoundsAssumption DEF AdvanceTime, TypeInv, TypeOK, Time
  <2> QED
    BY <1>4, <2>1 DEF AdvanceTime, TypeInv, TypeOK, Visiting
<1>5. CASE Restart
  BY <1>5 DEF Restart, TypeInv, TypeOK, Visiting
<1>6. CASE UNCHANGED vars
  BY <1>6 DEF TypeInv, TypeOK, Visiting
<1> QED
  BY <1>1, <1>2, <1>3, <1>4, <1>5, <1>6 DEF Next

\* Every variable of the scheduler keeps its type: in particular a probe always
\* runs for a node and an id of the table, and lastRun holds times of ticks.
THEOREM TypeCorrect == Spec => []TypeOK
<1>1. Spec => []TypeInv
  BY TypeInit, TypeStep, PTL DEF Spec
<1> QED
  BY <1>1, PTL DEF TypeInv

(***************************************************************************)
(* Slots.  The semaphore holds one element for every goroutine, from its   *)
(* start until run returns.  The goroutines are told apart by the number   *)
(* of their start, which a step of one of them does not change.            *)
(***************************************************************************)

SlotsCount ==
  /\ IsFiniteSet(running)
  /\ slots = Cardinality(running)
  /\ slots <= Cap

StartsNumbered ==
  /\ \A p \in running : p.no <= starts[<<p.client, p.id>>]
  /\ \A p, q \in running :
       p.client = q.client /\ p.id = q.id /\ p.no = q.no => p = q

SlotInv == SlotsCount /\ StartsNumbered

LEMMA SlotInit == Init => SlotInv
BY FS_EmptySet, CapAssumption DEF Init, SlotInv, SlotsCount, StartsNumbered

\* A goroutine that goes on to its next phase is still one goroutine.
LEMMA MoveKeepsSlots ==
  ASSUME TypeOK, SlotInv, NEW p \in running,
         NEW phase \in {"probing", "inserting", "returning"},
         running' = MoveTo(p, phase), UNCHANGED <<slots, starts>>
  PROVE  SlotInv'
<1> DEFINE q == [p EXCEPT !.phase = phase]
<1>1. p \in Probe
  BY DEF TypeOK
<1>2. q.client = p.client /\ q.id = p.id /\ q.no = p.no
  BY <1>1 DEF Probe
<1>3. q \notin running \ {p}
  BY <1>2 DEF SlotInv, StartsNumbered
<1>4. running' = (running \ {p}) \cup {q}
  BY DEF MoveTo
<1>5. SlotsCount'
  <2> DEFINE rest == running \ {p}
  <2>1. IsFiniteSet(rest) /\ Cardinality(rest) = Cardinality(running) - 1
    BY FS_RemoveElement DEF SlotInv, SlotsCount
  <2>2. IsFiniteSet(rest \cup {q}) /\ Cardinality(rest \cup {q}) = Cardinality(rest) + 1
    BY <1>3, <2>1, FS_AddElement
  <2>3. Cardinality(running) \in Nat
    BY FS_CardinalityType DEF SlotInv, SlotsCount
  <2> QED
    BY <1>4, <2>1, <2>2, <2>3 DEF SlotInv, SlotsCount
<1>6. StartsNumbered'
  <2> HIDE DEF q
  <2>1. \A o \in running' : o.no <= starts[<<o.client, o.id>>]
    BY <1>2, <1>4 DEF SlotInv, StartsNumbered
  <2>2. \A o, u \in running' :
          o.client = u.client /\ o.id = u.id /\ o.no = u.no => o = u
    BY <1>2, <1>4 DEF SlotInv, StartsNumbered
  <2> QED
    BY <2>1, <2>2 DEF StartsNumbered
<1> QED
  BY <1>5, <1>6 DEF SlotInv

LEMMA StartKeepsSlots ==
  ASSUME TypeInv, SlotInv, NEW t \in todo, StartProbe(t)
  PROVE  SlotInv'
<1> DEFINE k == <<client, t.id>>
           p == [client |-> client, id |-> t.id, name |-> t.name, start |-> now,
                 no |-> starts[k] + 1, phase |-> "probing"]
<1>1. k \in Keys /\ starts[k] \in Nat
  BY DEF StartProbe, TypeInv, TypeOK, Visiting, Keys, Task
<1>2. running' = running \cup {p} /\ starts' = [starts EXCEPT ![k] = @ + 1]
  BY DEF StartProbe
<1>3. \A q \in running : q.client = client /\ q.id = t.id => q.no < p.no
  <2> SUFFICES ASSUME NEW q \in running, q.client = client, q.id = t.id
               PROVE  q.no < p.no
    OBVIOUS
  <2>1. q.no \in Nat /\ q.no <= starts[k]
    BY DEF SlotInv, StartsNumbered, TypeInv, TypeOK, Probe
  <2> QED
    BY <1>1, <2>1
<1>4. p \notin running
  BY <1>1, <1>3
<1>5. SlotsCount'
  <2>1. IsFiniteSet(running') /\ Cardinality(running') = Cardinality(running) + 1
    BY <1>2, <1>4, FS_AddElement DEF SlotInv, SlotsCount
  <2>2. slots < Cap /\ slots' = slots + 1 /\ slots \in Nat
    BY DEF StartProbe, TypeInv, TypeOK
  <2> QED
    BY <2>1, <2>2, CapAssumption DEF SlotInv, SlotsCount
<1>6. StartsNumbered'
  <2>1. \A q \in running' : q.no <= starts'[<<q.client, q.id>>]
    <3> SUFFICES ASSUME NEW q \in running'
                 PROVE  q.no <= starts'[<<q.client, q.id>>]
      OBVIOUS
    <3>1. CASE q = p
      BY <1>1, <1>2, <3>1 DEF TypeInv, TypeOK
    <3>2. CASE q \in running
      <4>1. q \in Probe /\ q.no <= starts[<<q.client, q.id>>]
        BY <3>2 DEF SlotInv, StartsNumbered, TypeInv, TypeOK
      <4>2. <<q.client, q.id>> \in Keys /\ q.no \in Nat
        BY <4>1 DEF Probe, Keys
      <4>3. CASE <<q.client, q.id>> = k
        BY <1>1, <1>2, <4>1, <4>2, <4>3 DEF TypeInv, TypeOK
      <4>4. CASE <<q.client, q.id>> # k
        BY <1>2, <4>1, <4>2, <4>4 DEF TypeInv, TypeOK
      <4> QED
        BY <4>3, <4>4
    <3> QED
      BY <1>2, <3>1, <3>2
  <2>2. \A q, r \in running' :
          q.client = r.client /\ q.id = r.id /\ q.no = r.no => q = r
    <3>1. p.client = client /\ p.id = t.id
      OBVIOUS
    <3>2. \A q \in running : q.client = client /\ q.id = t.id => q.no # p.no
      <4>1. \A q \in running : q.no \in Nat
        BY DEF TypeInv, TypeOK, Probe
      <4>2. p.no \in Nat
        BY <1>1
      <4> QED
        BY <1>3, <4>1, <4>2
    <3> HIDE DEF p
    <3> QED
      BY <1>2, <3>1, <3>2 DEF SlotInv, StartsNumbered
  <2> QED
    BY <2>1, <2>2 DEF StartsNumbered
<1> QED
  BY <1>5, <1>6 DEF SlotInv

LEMMA ReleaseKeepsSlots ==
  ASSUME SlotInv, NEW p \in running, ReleaseSlot(p)
  PROVE  SlotInv'
<1>1. IsFiniteSet(running) /\ Cardinality(running) \in Nat
  BY FS_CardinalityType DEF SlotInv, SlotsCount
<1>2. running' = running \ {p} /\ slots' = slots - 1 /\ starts' = starts
  BY DEF ReleaseSlot
<1>3. IsFiniteSet(running') /\ Cardinality(running') = Cardinality(running) - 1
  BY <1>1, <1>2, FS_RemoveElement
<1>4. SlotsCount'
  BY <1>1, <1>2, <1>3, CapAssumption DEF SlotInv, SlotsCount
<1>5. StartsNumbered'
  BY <1>2 DEF SlotInv, StartsNumbered
<1> QED
  BY <1>4, <1>5 DEF SlotInv

LEMMA SlotStep == TypeInv /\ SlotInv /\ [Next]_vars => SlotInv'
<1> SUFFICES ASSUME TypeInv, SlotInv, [Next]_vars
             PROVE  SlotInv'
  OBVIOUS
<1>1. ASSUME UNCHANGED <<slots, running, starts>>
      PROVE  SlotInv'
  BY <1>1 DEF SlotInv, SlotsCount, StartsNumbered
<1>2. CASE Admin
  BY <1>1, <1>2, AdminFrame
<1>3. CASE Loop
  <2>1. ASSUME NEW t \in todo, StartProbe(t)
        PROVE  SlotInv'
    BY <2>1, StartKeepsSlots
  <2> QED
    BY <1>1, <1>3, <2>1 DEF Loop, TakeTick, TakeTickBlind, TickDone, ClientDone, LoadTasks, LoadFails,
                            SkipTask, PickTask
<1>4. ASSUME NEW p \in running, Goroutine(p)
      PROVE  SlotInv'
  <2>1. CASE EndProbe(p)
    BY <2>1, MoveKeepsSlots DEF EndProbe, TypeInv
  <2>2. CASE InsertProbe(p)
    BY <2>2, MoveKeepsSlots DEF InsertProbe, TypeInv
  <2>3. CASE InsertFails(p)
    BY <2>3, MoveKeepsSlots DEF InsertFails, TypeInv
  <2>4. CASE ReleaseSlot(p)
    BY <2>4, ReleaseKeepsSlots
  <2> QED
    BY <1>4, <2>1, <2>2, <2>3, <2>4 DEF Goroutine
<1>5. CASE AdvanceTime
  BY <1>1, <1>5 DEF AdvanceTime
<1>6. CASE Restart
  BY <1>6, FS_EmptySet, CapAssumption DEF Restart, SlotInv, SlotsCount, StartsNumbered
<1>7. CASE UNCHANGED vars
  BY <1>1, <1>7
<1> QED
  BY <1>2, <1>3, <1>4, <1>5, <1>6, <1>7 DEF Next

\* However probes end, inserts fail and the loop is blocked, there are never
\* more goroutines than the semaphore has slots.
THEOREM CapCorrect == Spec => []AtMostCapAtWork
<1>1. TypeInv /\ SlotInv => AtMostCapAtWork
  BY DEF SlotInv, SlotsCount, AtMostCapAtWork
<1> QED
  BY <1>1, TypeInit, TypeStep, SlotInit, SlotStep, PTL DEF Spec

(***************************************************************************)
(* Records.  An id that was given out once belongs to one client and name  *)
(* for good: only the row's other columns are ever edited, and AUTOINCRE-  *)
(* MENT does not give the id of a deleted row to another one.              *)
(***************************************************************************)

\* i was given out, and only ever to the task m of c (or of every node).
Belongs(c, i, m) ==
  /\ i < nextId
  /\ Exists(i) => rows[i].name = m /\ rows[i].client \in {Global, c}

IdsGivenOut == \A i \in Ids : Exists(i) => i < nextId

RecordInv ==
  /\ IdsGivenOut
  /\ \A r \in records : Belongs(r.client, r.id, r.name)
  /\ \A p \in running : Belongs(p.client, p.id, p.name)
  /\ \A t \in todo : Belongs(client, t.id, t.name)

LEMMA RecordInit == Init => RecordInv
<1> SUFFICES ASSUME Init
             PROVE  RecordInv
  OBVIOUS
<1>1. IdsGivenOut
  BY InitialIds DEF Init, IdsGivenOut, Exists
<1> QED
  BY <1>1 DEF Init, RecordInv

\* An id that belongs to a task still does after an edit of the tables.
LEMMA UpsertKeepsIds ==
  ASSUME TypeInv, NEW c \in Nodes \cup {Global}, NEW m \in Names, NEW v \in Intervals,
         NEW e \in BOOLEAN, UpsertTask(c, m, v, e)
  PROVE  /\ IdsGivenOut => IdsGivenOut'
         /\ \A n, i, w : i \in Ids /\ Belongs(n, i, w) => Belongs(n, i, w)'
<1> DEFINE row == [client |-> c, name |-> m, interval |-> EffectiveInterval(v), enabled |-> e]
           new == RowOf(c, m) = {}
<1>1. PICK id \in Ids : /\ id \in (IF new THEN {NewId} ELSE RowOf(c, m))
                        /\ Edit([rows EXCEPT ![id] = row], registered)
                        /\ nextId' = IF new THEN NewId + 1 ELSE nextId
  BY DEF UpsertTask
<1>2. rows' = [rows EXCEPT ![id] = row] /\ rows \in [Ids -> Row \cup {NoRow}]
  BY <1>1 DEF Edit, TypeInv, TypeOK
<1>3. nextId \in Nat /\ Ids \subseteq Nat
  BY BoundsAssumption DEF TypeInv, TypeOK, Ids
<1>4. row.client = c /\ row.name = m
  OBVIOUS
<1>5. \A i \in Ids : i # id => rows'[i] = rows[i]
  BY <1>2
<1>6. rows'[id] = row
  BY <1>2
<1> HIDE DEF row
<1>7. CASE new
  <2>1. id = nextId /\ nextId' = nextId + 1
    BY <1>1, <1>7 DEF NewId
  <2>2. IdsGivenOut => IdsGivenOut'
    <3> SUFFICES ASSUME IdsGivenOut, NEW i \in Ids, Exists(i)'
                 PROVE  i < nextId'
      BY DEF IdsGivenOut
    <3>1. CASE i = id
      BY <1>3, <2>1, <3>1
    <3>2. CASE i # id
      BY <1>3, <1>5, <2>1, <3>2 DEF IdsGivenOut, Exists
    <3> QED
      BY <3>1, <3>2
  <2>3. ASSUME NEW n, NEW i \in Ids, NEW w, Belongs(n, i, w)
        PROVE  Belongs(n, i, w)'
    <3>1. i < nextId /\ i # id /\ i < nextId'
      BY <1>3, <2>1, <2>3 DEF Belongs
    <3> QED
      BY <1>5, <2>3, <3>1 DEF Belongs, Exists
  <2> QED
    BY <2>2, <2>3
<1>8. CASE ~new
  <2>1. Exists(id) /\ rows[id].client = c /\ rows[id].name = m /\ nextId' = nextId
    BY <1>1, <1>8 DEF RowOf
  <2> QED
    BY <1>3, <1>4, <1>5, <1>6, <2>1 DEF IdsGivenOut, Belongs, Exists
<1> QED
  BY <1>7, <1>8

LEMMA AdminKeepsIds ==
  ASSUME TypeInv, Admin
  PROVE  /\ IdsGivenOut => IdsGivenOut'
         /\ \A n, i, w : i \in Ids /\ Belongs(n, i, w) => Belongs(n, i, w)'
<1>1. ASSUME NEW c \in Nodes \cup {Global}, NEW m \in Names, NEW i \in Intervals,
             NEW e \in BOOLEAN, UpsertTask(c, m, i, e)
      PROVE  /\ IdsGivenOut => IdsGivenOut'
             /\ \A n, j, w : j \in Ids /\ Belongs(n, j, w) => Belongs(n, j, w)'
  BY <1>1, UpsertKeepsIds
<1>2. ASSUME NEW d \in Ids, DeleteTask(d)
      PROVE  /\ IdsGivenOut => IdsGivenOut'
             /\ \A n, j, w : j \in Ids /\ Belongs(n, j, w) => Belongs(n, j, w)'
  BY <1>2 DEF DeleteTask, Edit, IdsGivenOut, Belongs, Exists, TypeInv, TypeOK
<1>3. ASSUME UNCHANGED <<rows, nextId>>
      PROVE  /\ IdsGivenOut => IdsGivenOut'
             /\ \A n, j, w : j \in Ids /\ Belongs(n, j, w) => Belongs(n, j, w)'
  BY <1>3 DEF IdsGivenOut, Belongs, Exists
<1> QED
  BY <1>1, <1>2, <1>3 DEF Admin, RegisterNode, DeleteNode, Edit

LEMMA AdminKeepsRecords == TypeInv /\ RecordInv /\ Admin => RecordInv'
<1> SUFFICES ASSUME TypeInv, RecordInv, Admin
             PROVE  RecordInv'
  OBVIOUS
<1>1. UNCHANGED <<records, running, todo, client>>
  BY AdminFrame
<1>2. \A r \in records : r.id \in Ids
  BY DEF TypeInv, TypeOK, Record
<1>3. \A p \in running : p.id \in Ids
  BY DEF TypeInv, TypeOK, Probe
<1>4. \A t \in todo : t.id \in Ids
  BY DEF TypeInv, TypeOK, Task
<1>5. IdsGivenOut'
  BY AdminKeepsIds DEF RecordInv
<1>6. ASSUME NEW n, NEW i \in Ids, NEW w, Belongs(n, i, w)
      PROVE  Belongs(n, i, w)'
  BY <1>6, AdminKeepsIds
<1>7. (\A r \in records : Belongs(r.client, r.id, r.name))'
  <2> SUFFICES ASSUME NEW r \in records
               PROVE  Belongs(r.client, r.id, r.name)'
    BY <1>1
  <2> QED
    BY <1>2, <1>6 DEF RecordInv
<1>8. (\A p \in running : Belongs(p.client, p.id, p.name))'
  <2> SUFFICES ASSUME NEW p \in running
               PROVE  Belongs(p.client, p.id, p.name)'
    BY <1>1
  <2> QED
    BY <1>3, <1>6 DEF RecordInv
<1>9. (\A t \in todo : Belongs(client, t.id, t.name))'
  <2> SUFFICES ASSUME NEW t \in todo
               PROVE  Belongs(client, t.id, t.name)'
    BY <1>1
  <2>1. PICK n : n = client
    OBVIOUS
  <2>2. Belongs(n, t.id, t.name)
    BY <2>1 DEF RecordInv
  <2>3. Belongs(n, t.id, t.name)'
    BY <1>4, <1>6, <2>2
  <2> QED
    BY <1>1, <2>1, <2>3 DEF Belongs, Exists
<1> QED
  BY <1>5, <1>7, <1>8, <1>9 DEF RecordInv

\* What is loaded for a client belongs to it.
LEMMA LoadKeepsRecords ==
  ASSUME TypeInv, RecordInv, NEW c \in clients, LoadTasks(c)
  PROVE  RecordInv'
<1>1. UNCHANGED <<rows, nextId, records, running>> /\ client' = c
  BY DEF LoadTasks
<1>2. ASSUME NEW t \in todo'
      PROVE  Belongs(c, t.id, t.name)
  <2>1. PICK i \in Ids : Exists(i) /\ rows[i].client \in {Global, c} /\ t = CopyOf(i)
    BY <1>2 DEF LoadTasks
  <2>2. t.id = i /\ t.name = rows[i].name
    BY <2>1 DEF CopyOf
  <2> QED
    BY <2>1, <2>2 DEF RecordInv, IdsGivenOut, Belongs
<1> QED
  BY <1>1, <1>2 DEF RecordInv, IdsGivenOut, Belongs, Exists

LEMMA LoopKeepsRecords == TypeInv /\ RecordInv /\ Loop => RecordInv'
<1> SUFFICES ASSUME TypeInv, RecordInv, Loop
             PROVE  RecordInv'
  OBVIOUS
<1>1. ASSUME UNCHANGED <<rows, nextId, records, running, client>>, todo' \subseteq todo
      PROVE  RecordInv'
  BY <1>1 DEF RecordInv, IdsGivenOut, Belongs, Exists
<1>2. ASSUME NEW c \in clients, LoadTasks(c)
      PROVE  RecordInv'
  BY <1>2, LoadKeepsRecords
<1>3. ASSUME NEW t \in todo, StartProbe(t)
      PROVE  RecordInv'
  <2> DEFINE k == <<client, t.id>>
             p == [client |-> client, id |-> t.id, name |-> t.name, start |-> now,
                   no |-> starts[k] + 1, phase |-> "probing"]
  <2>1. running' = running \cup {p}
    BY <1>3 DEF StartProbe
  <2>2. p.client = client /\ p.id = t.id /\ p.name = t.name
    OBVIOUS
  <2>3. UNCHANGED <<rows, nextId, records, client>> /\ todo' \subseteq todo
    BY <1>3 DEF StartProbe
  <2> HIDE DEF p
  <2> QED
    BY <2>1, <2>2, <2>3 DEF RecordInv, IdsGivenOut, Belongs, Exists
<1> QED
  BY <1>1, <1>2, <1>3 DEF Loop, TakeTick, TakeTickBlind, TickDone, ClientDone, LoadFails, SkipTask, PickTask

LEMMA GoroutineKeepsRecords ==
  ASSUME TypeInv, RecordInv, NEW p \in running, Goroutine(p)
  PROVE  RecordInv'
<1> DEFINE r == [client |-> p.client, id |-> p.id, name |-> p.name]
<1>1. UNCHANGED <<rows, nextId, client, todo>>
  BY DEF Goroutine, EndProbe, InsertProbe, InsertFails, ReleaseSlot
<1>2. records' \subseteq records \cup {r}
  BY DEF Goroutine, EndProbe, InsertProbe, InsertFails, ReleaseSlot
<1>3. r.client = p.client /\ r.id = p.id /\ r.name = p.name
  OBVIOUS
<1>4. ASSUME NEW q \in running'
      PROVE  \E o \in running : q.client = o.client /\ q.id = o.id /\ q.name = o.name
  <2>1. CASE q \in running
    BY <2>1
  <2>2. CASE q \notin running
    <3>1. PICK phase : q = [p EXCEPT !.phase = phase]
      BY <1>4, <2>2 DEF Goroutine, EndProbe, InsertProbe, InsertFails, ReleaseSlot, MoveTo
    <3>2. p \in Probe
      BY DEF TypeInv, TypeOK
    <3> QED
      BY <3>1, <3>2 DEF Probe
  <2> QED
    BY <2>1, <2>2
<1> HIDE DEF r
<1>5. \A o \in records' : Belongs(o.client, o.id, o.name)
  BY <1>2, <1>3 DEF RecordInv
<1>6. \A q \in running' : Belongs(q.client, q.id, q.name)
  BY <1>4 DEF RecordInv
<1> QED
  BY <1>1, <1>5, <1>6 DEF RecordInv, IdsGivenOut, Belongs, Exists

LEMMA RecordStep == TypeInv /\ RecordInv /\ [Next]_vars => RecordInv'
<1> SUFFICES ASSUME TypeInv, RecordInv, [Next]_vars
             PROVE  RecordInv'
  OBVIOUS
<1>1. CASE Admin
  BY <1>1, AdminKeepsRecords
<1>2. CASE Loop
  BY <1>2, LoopKeepsRecords
<1>3. CASE \E p \in running : Goroutine(p)
  BY <1>3, GoroutineKeepsRecords
<1>4. CASE AdvanceTime
  BY <1>4 DEF AdvanceTime, RecordInv, IdsGivenOut, Belongs, Exists
<1>5. CASE Restart
  BY <1>5 DEF Restart, RecordInv, IdsGivenOut, Belongs, Exists
<1>6. CASE UNCHANGED vars
  BY <1>6 DEF RecordInv, IdsGivenOut, Belongs, Exists
<1> QED
  BY <1>1, <1>2, <1>3, <1>4, <1>5, <1>6 DEF Next

\* No edit, restart or late answer makes a record of one task appear under
\* another one, however long the probe takes and whatever is made meanwhile.
THEOREM RecordsCorrect == Spec => []RecordsBelongToTask
<1>1. TypeInv /\ RecordInv => RecordsBelongToTask
  BY DEF RecordInv, Belongs, RecordsBelongToTask
<1> QED
  BY <1>1, TypeInit, TypeStep, RecordInit, RecordStep, PTL DEF Spec

(***************************************************************************)
(* The clock.  Ticks, and with them the stamps of walks and picks, are of  *)
(* the past, and since the server came up.                                 *)
(***************************************************************************)

StampsArePast ==
  /\ up <= now /\ stamp <= now
  /\ pc # "tick" => up <= stamp
  /\ tick # NoTick => up <= tick /\ tick <= now
  /\ \A k \in Keys : lastRun[k] # Never => lastRun[k] <= now

LEMMA StampsInit == Init => StampsArePast
BY DEF Init, StampsArePast

LEMMA StampsStep == TypeInv /\ StampsArePast /\ [Next]_vars => StampsArePast'
<1> SUFFICES ASSUME TypeInv, StampsArePast, [Next]_vars
             PROVE  StampsArePast'
  OBVIOUS
<1> USE DEF StampsArePast
<1>1. CASE UNCHANGED <<now, up, pc, stamp, tick, lastRun>>
  BY <1>1
<1>2. CASE Admin
  <2>1. ASSUME NEW rs, NEW reg, Edit(rs, reg)
        PROVE  StampsArePast'
    BY <1>1, <2>1 DEF Edit
  <2> QED
    BY <1>2, <2>1 DEF Admin, UpsertTask, DeleteTask, RegisterNode, DeleteNode
<1>3. CASE TakeTick \/ TakeTickBlind
  BY <1>3 DEF TakeTick, TakeTickBlind
<1>4. ASSUME NEW t \in todo, PickTask(t)
      PROVE  StampsArePast'
  BY <1>4 DEF PickTask, TypeInv, TypeOK
<1>5. CASE \/ TickDone \/ ClientDone
           \/ \E c \in clients : LoadTasks(c) \/ LoadFails(c)
           \/ \E t \in todo : SkipTask(t) \/ StartProbe(t)
  BY <1>5 DEF TickDone, ClientDone, LoadTasks, LoadFails, SkipTask, StartProbe
<1>6. CASE \E p \in running : Goroutine(p)
  BY <1>1, <1>6 DEF Goroutine, EndProbe, InsertProbe, InsertFails, ReleaseSlot
<1>7. CASE AdvanceTime
  <2>1. /\ now' = now + 1 /\ tick' \in {tick, now'}
        /\ UNCHANGED <<up, pc, stamp, lastRun>>
    BY <1>7 DEF AdvanceTime
  <2>2. /\ now \in Int /\ stamp \in Int /\ up \in Int /\ (tick # NoTick => tick \in Int)
        /\ \A k \in Keys : lastRun[k] # Never => lastRun[k] \in Int
    BY BoundsAssumption DEF TypeInv, TypeOK, Time
  <2> QED
    BY <2>1, <2>2
<1>8. CASE Restart
  BY <1>8, BoundsAssumption DEF Restart, TypeInv, TypeOK, Time
<1>9. CASE UNCHANGED vars
  BY <1>1, <1>9
<1> QED
  BY <1>2, <1>3, <1>4, <1>5, <1>6, <1>7, <1>8, <1>9 DEF Next, Loop

\* Two tasks that are both next have one id.
LEMMA NextTaskIsOne ==
  ASSUME TypeOK, NEW t, NEW u, IsNextTask(t), IsNextTask(u)
  PROVE  t.id = u.id
<1>1. t.id <= u.id /\ u.id <= t.id /\ t.id \in Int /\ u.id \in Int
  BY BoundsAssumption DEF IsNextTask, TypeOK, Task, Ids
<1> QED
  BY <1>1

(***************************************************************************)
(* The walk.  A task that is no longer asked for may still be started as   *)
(* long as the loop has its client or its copy in hand.  Time passes in a  *)
(* walk only while the loop waits for a slot, for each start not longer    *)
(* than a probe takes; WalkTime is what this allows for the starts that    *)
(* may still come, and the invariant gives every stale key that much time. *)
(***************************************************************************)

WalkTime == Timeout * (Cardinality(clients) * MaxId + Cardinality(todo))

OneWalk ==
  /\ pc = "tick" => clients = {}
  /\ pc \in {"tick", "client"} => todo = {}
  /\ IsFiniteSet(todo)
  /\ \A t, u \in todo : t.id = u.id => t = u
  /\ pc = "slot" => \A t \in todo : IsNextTask(t) => t.enabled
  /\ WalkTime <= ScanBound

\* The history and the goroutines are not ahead of the clock.
Past ==
  /\ \A k \in Keys : flip[k] <= now
  /\ \A p \in running : p.start <= now

\* The walk may start k, though the tables do not ask for it any more.
Stale(k) ==
  \/ k[1] \in clients /\ k[1] \notin ClientsOf(rows, registered)
  \/ /\ k[1] = client
     /\ \E t \in todo : t.id = k[2] /\ t.enabled
     /\ Asked(rows, registered, k) = Never

\* From s on the walk ends in time for every stale key.
EndsInTime(s) == \A k \in Keys : Stale(k) => s + WalkTime <= flip[k] + ScanBound

\* While the loop waits for a slot: s is when it began to.
Waiting(s) ==
  /\ s <= now /\ now <= s + Timeout
  /\ \A p \in running : p.start <= s

WalkEnds ==
  /\ pc # "slot" => EndsInTime(now)
  /\ pc = "slot" => \E s \in Time : Waiting(s) /\ EndsInTime(s)

ScanInv == OneWalk /\ Past /\ WalkEnds /\ DisabledIsLeftAlone

LEMMA ClientsFinite ==
  ASSUME TypeOK
  PROVE  IsFiniteSet(clients) /\ Cardinality(clients) \in Nat
BY ScanAssumption, FS_Subset, FS_CardinalityType DEF TypeOK

LEMMA Products ==
  ASSUME NEW t \in Nat, NEW a \in Nat, NEW b \in Nat, a <= b
  PROVE  t * a \in Nat /\ t * b \in Nat /\ t * a <= t * b
OBVIOUS

LEMMA WalkTimeType ==
  ASSUME TypeOK, IsFiniteSet(todo)
  PROVE  WalkTime \in Nat
<1> DEFINE c == Cardinality(clients)
           n == Cardinality(todo)
<1>1. c \in Nat /\ n \in Nat /\ MaxId \in Nat /\ Timeout \in Nat
  BY ClientsFinite, FS_CardinalityType, BoundsAssumption, CapAssumption
<1> HIDE DEF c, n
<1>2. c * MaxId \in Nat
  BY <1>1
<1>3. Timeout * (c * MaxId + n) \in Nat
  BY <1>1, <1>2
<1> QED
  BY <1>3 DEF WalkTime, c, n

\* A walk that has less to do needs less time.
LEMMA WalkTimeShrinks ==
  ASSUME TypeOK, TypeOK', IsFiniteSet(todo), IsFiniteSet(todo'),
         \/ clients' \subseteq clients /\ todo' \subseteq todo
         \/ \E c \in clients : clients' = clients \ {c} /\ Cardinality(todo') <= MaxId
  PROVE  WalkTime' <= WalkTime /\ WalkTime' \in Nat
<1> DEFINE c == Cardinality(clients)
           d == Cardinality(clients')
           n == Cardinality(todo)
           m == Cardinality(todo')
<1>1. /\ IsFiniteSet(clients) /\ c \in Nat /\ n \in Nat /\ m \in Nat
      /\ MaxId \in Nat /\ Timeout \in Nat
  BY ClientsFinite, FS_CardinalityType, BoundsAssumption, CapAssumption
<1>2. \/ d \in Nat /\ d <= c /\ m <= n
      \/ d \in Nat /\ d = c - 1 /\ m <= MaxId
  <2>1. CASE clients' \subseteq clients /\ todo' \subseteq todo
    BY <1>1, <2>1, FS_Subset, FS_CardinalityType
  <2>2. CASE \E e \in clients : clients' = clients \ {e} /\ Cardinality(todo') <= MaxId
    <3>1. PICK e \in clients : clients' = clients \ {e} /\ Cardinality(todo') <= MaxId
      BY <2>2
    <3>2. IsFiniteSet(clients \ {e}) /\ Cardinality(clients \ {e}) = Cardinality(clients) - 1
      BY <1>1, FS_RemoveElement
    <3>3. Cardinality(clients \ {e}) \in Nat
      BY <3>2, FS_CardinalityType
    <3> QED
      BY <3>1, <3>2, <3>3
  <2> QED
    BY <2>1, <2>2
<1> HIDE DEF c, d, n, m
<1>3. c * MaxId \in Nat /\ d * MaxId \in Nat
  BY <1>1, <1>2
<1>4. d * MaxId + m <= c * MaxId + n
  <2>1. CASE d <= c /\ m <= n
    <3>1. d * MaxId <= c * MaxId
      BY <1>1, <1>2, <2>1
    <3> QED
      BY <1>1, <1>3, <2>1, <3>1
  <2>2. CASE d = c - 1 /\ m <= MaxId
    <3>1. d * MaxId = c * MaxId - MaxId
      BY <1>1, <2>2
    <3> QED
      BY <1>1, <1>3, <2>2, <3>1
  <2> QED
    BY <1>2, <2>1, <2>2
<1>5. Timeout * (d * MaxId + m) <= Timeout * (c * MaxId + n)
  <2>1. d * MaxId + m \in Nat /\ c * MaxId + n \in Nat
    BY <1>1, <1>3
  <2> QED
    BY <1>1, <1>4, <2>1, Products
<1>6. Timeout * (d * MaxId + m) \in Nat
  BY <1>1, <1>2, <1>3
<1> QED
  BY <1>5, <1>6 DEF WalkTime, c, d, n, m

\* Every start takes the time of one probe off it.
LEMMA StartTakesTime ==
  ASSUME TypeOK, IsFiniteSet(todo), NEW t \in todo, todo' = todo \ {t}, clients' = clients
  PROVE  WalkTime' = WalkTime - Timeout
<1> DEFINE c == Cardinality(clients)
           n == Cardinality(todo)
<1>1. c \in Nat /\ n \in Nat /\ MaxId \in Nat /\ Timeout \in Nat
  BY ClientsFinite, FS_CardinalityType, BoundsAssumption, CapAssumption
<1>2. Cardinality(todo') = n - 1
  BY FS_RemoveElement
<1> HIDE DEF c, n
<1>3. c * MaxId \in Nat
  BY <1>1
<1>4. Timeout * (c * MaxId + (n - 1)) = Timeout * (c * MaxId + n) - Timeout
  <2>1. PICK x \in Nat : x = c * MaxId + n
    BY <1>1, <1>3
  <2>2. c * MaxId + (n - 1) = x - 1
    BY <1>1, <1>3, <2>1
  <2>3. Timeout * (x - 1) = Timeout * x - Timeout
    BY <1>1
  <2> QED
    BY <2>1, <2>2, <2>3
<1> QED
  BY <1>2, <1>4 DEF WalkTime, c, n

LEMMA NoWalk ==
  ASSUME clients = {}, todo = {}
  PROVE  WalkTime = 0
<1>1. Cardinality(clients) = 0 /\ Cardinality(todo) = 0
  BY FS_EmptySet
<1> QED
  BY <1>1, BoundsAssumption, CapAssumption DEF WalkTime

LEMMA ScanInit == Init => ScanInv
<1> SUFFICES ASSUME Init
             PROVE  ScanInv
  OBVIOUS
<1>1. TypeOK
  BY TypeInit DEF TypeInv
<1>2. OneWalk
  <2>1. WalkTime = 0
    BY NoWalk DEF Init
  <2> QED
    BY <2>1, BoundsAssumption, FS_EmptySet DEF Init, OneWalk
<1>3. Past
  BY DEF Init, Past
<1>4. WalkEnds
  BY DEF Init, WalkEnds, EndsInTime, Stale
<1> QED
  BY <1>2, <1>3, <1>4 DEF Init, ScanInv, DisabledIsLeftAlone

\* A key whose row and client an edit leaves alone is asked for as before.
LEMMA UnchangedIsAskedAlike ==
  ASSUME NEW k \in Keys, ~Changes(rows', registered', k)
  PROVE  /\ Asked(rows', registered', k) = Asked(rows, registered, k)
         /\ (k[1] \in ClientsOf(rows', registered')) = (k[1] \in ClientsOf(rows, registered))
BY DEF Changes, Asked

LEMMA EditKeepsScan ==
  ASSUME TypeOK, ScanInv, NEW rs, NEW reg, Edit(rs, reg)
  PROVE  ScanInv'
<1>1. /\ rows' = rs /\ registered' = reg
      /\ flip' = [k \in Keys |-> IF Changes(rs, reg, k) THEN now ELSE flip[k]]
      /\ UNCHANGED <<now, pc, clients, client, todo, running>>
  BY DEF Edit
<1>2. now \in Nat /\ ScanBound \in Nat /\ \A k \in Keys : flip[k] \in Nat
  BY BoundsAssumption DEF TypeOK, Time
<1>3. WalkTime' = WalkTime /\ WalkTime \in Nat /\ WalkTime <= ScanBound
  BY <1>1, WalkTimeType DEF WalkTime, ScanInv, OneWalk
<1>4. OneWalk'
  BY <1>1, <1>3 DEF ScanInv, OneWalk, IsNextTask
<1>5. Past'
  BY <1>1, <1>2 DEF ScanInv, Past
<1>6. ASSUME NEW s \in Nat, s <= now, EndsInTime(s)
      PROVE  EndsInTime(s)'
  <2> SUFFICES ASSUME NEW k \in Keys, Stale(k)'
               PROVE  s + WalkTime' <= flip'[k] + ScanBound
    BY DEF EndsInTime
  <2>1. CASE Changes(rs, reg, k)
    BY <1>1, <1>2, <1>3, <1>6, <2>1
  <2>2. CASE ~Changes(rs, reg, k)
    <3>1. Stale(k)
      BY <1>1, <2>2, UnchangedIsAskedAlike DEF Stale
    <3> QED
      BY <1>1, <1>3, <1>6, <2>2, <3>1 DEF EndsInTime
  <2> QED
    BY <2>1, <2>2
<1>7. WalkEnds'
  <2>1. CASE pc # "slot"
    BY <1>1, <1>2, <1>6, <2>1 DEF ScanInv, WalkEnds
  <2>2. CASE pc = "slot"
    <3>1. PICK s \in Time : Waiting(s) /\ EndsInTime(s)
      BY <2>2 DEF ScanInv, WalkEnds
    <3>2. s \in Nat /\ Waiting(s)'
      BY <1>1, <3>1 DEF Waiting, Time
    <3>3. EndsInTime(s)'
      BY <1>6, <3>1, <3>2 DEF Waiting
    <3> QED
      BY <1>1, <2>2, <3>1, <3>2, <3>3 DEF WalkEnds
  <2> QED
    BY <2>1, <2>2
<1>8. DisabledIsLeftAlone'
  <2> SUFFICES ASSUME NEW p \in running', Asked(rows', registered', <<p.client, p.id>>) = Never
               PROVE  p.start <= flip'[<<p.client, p.id>>] + ScanBound
    BY DEF DisabledIsLeftAlone
  <2>1. PICK k \in Keys : k = <<p.client, p.id>>
    BY <1>1 DEF TypeOK, Probe, Keys
  <2>2. p \in running /\ p.start \in Nat /\ p.start <= now
    BY <1>1 DEF ScanInv, Past, TypeOK, Probe, Time
  <2>3. CASE Changes(rs, reg, k)
    BY <1>1, <1>2, <2>1, <2>2, <2>3
  <2>4. CASE ~Changes(rs, reg, k)
    <3>1. Asked(rows, registered, k) = Never
      BY <1>1, <2>1, <2>4, UnchangedIsAskedAlike
    <3> QED
      BY <1>1, <2>1, <2>2, <2>4, <3>1 DEF ScanInv, DisabledIsLeftAlone
  <2> QED
    BY <2>3, <2>4
<1> QED
  BY <1>4, <1>5, <1>7, <1>8 DEF ScanInv

LEMMA AdminKeepsScan == TypeOK /\ ScanInv /\ Admin => ScanInv'
<1> SUFFICES ASSUME TypeOK, ScanInv, Admin
             PROVE  ScanInv'
  OBVIOUS
<1>1. ASSUME NEW rs, NEW reg, Edit(rs, reg)
      PROVE  ScanInv'
  BY <1>1, EditKeepsScan
<1>2. CASE \E c \in Nodes \cup {Global}, m \in Names, i \in Intervals, e \in BOOLEAN :
             UpsertTask(c, m, i, e)
  BY <1>1, <1>2 DEF UpsertTask
<1>3. CASE \E i \in Ids : DeleteTask(i)
  BY <1>1, <1>3 DEF DeleteTask
<1>4. CASE \E n \in Nodes : RegisterNode(n) \/ DeleteNode(n)
  BY <1>1, <1>4 DEF RegisterNode, DeleteNode
<1> QED
  BY <1>2, <1>3, <1>4 DEF Admin

\* At a tick the loop takes clients that should be visited, so that nothing is stale
\* and the whole walk is before it.
LEMMA TickKeepsScan ==
  ASSUME TypeOK, ScanInv, TakeTick \/ TakeTickBlind
  PROVE  ScanInv'
<1>1. /\ pc = "tick" /\ pc' = "client" /\ todo' = {} /\ todo = {}
      /\ clients' \subseteq ClientsOf(rows, registered)
      /\ UNCHANGED <<now, rows, registered, flip, running, client>>
  BY DEF TakeTick, TakeTickBlind, ClientsOf, ScanInv, OneWalk
<1>2. WalkTime' <= ScanBound
  <2> DEFINE c == Cardinality(clients')
             n == Cardinality(Nodes)
  <2>1. c \in Nat /\ n \in Nat /\ c <= n
    BY <1>1, ClientsAreNodes, ScanAssumption, FS_Subset, FS_CardinalityType
  <2>2. Cardinality(todo') = 0
    BY <1>1, FS_EmptySet
  <2>3. MaxId \in Nat /\ Timeout \in Nat /\ ScanBound \in Nat
    BY BoundsAssumption, CapAssumption
  <2>4. WalkTime' = Timeout * (c * MaxId + 0)
    BY <2>2 DEF WalkTime
  <2>5. Timeout * (n * MaxId) <= ScanBound
    BY ScanAssumption
  <2> HIDE DEF c, n
  <2>6. c * MaxId \in Nat /\ n * MaxId \in Nat /\ c * MaxId <= n * MaxId
    <3>1. MaxId * c \in Nat /\ MaxId * n \in Nat /\ MaxId * c <= MaxId * n
      BY <2>1, <2>3, Products
    <3>2. MaxId * c = c * MaxId /\ MaxId * n = n * MaxId
      BY <2>1, <2>3
    <3> QED
      BY <3>1, <3>2
  <2>7. /\ Timeout * (c * MaxId) <= Timeout * (n * MaxId)
        /\ Timeout * (c * MaxId) \in Nat /\ Timeout * (n * MaxId) \in Nat
    BY <2>3, <2>6, Products
  <2>8. c * MaxId + 0 = c * MaxId
    BY <2>6
  <2> QED
    BY <2>3, <2>4, <2>5, <2>7, <2>8
<1>3. OneWalk'
  BY <1>1, <1>2, FS_EmptySet DEF OneWalk
<1>4. \A k \in Keys : ~Stale(k)'
  BY <1>1 DEF Stale
<1> QED
  BY <1>1, <1>3, <1>4 DEF ScanInv, Past, WalkEnds, EndsInTime, DisabledIsLeftAlone

\* A step that only takes something off the walk.
LEMMA LessKeepsScan ==
  ASSUME TypeOK, TypeOK', ScanInv, pc # "slot", pc' \in {"tick", "client", "task"},
         clients' \subseteq clients, todo' \subseteq todo,
         pc' = "tick" => clients' = {}, pc' # "task" => todo' = {},
         UNCHANGED <<now, client, rows, registered, flip, running>>
  PROVE  ScanInv'
<1>1. IsFiniteSet(todo) /\ IsFiniteSet(todo')
  BY FS_Subset DEF ScanInv, OneWalk
<1>2. WalkTime' <= WalkTime /\ WalkTime' \in Nat /\ WalkTime \in Nat
  BY <1>1, WalkTimeShrinks, WalkTimeType
<1>3. ScanBound \in Nat /\ now \in Nat /\ \A k \in Keys : flip[k] \in Nat
  BY BoundsAssumption DEF TypeOK, Time
<1>4. OneWalk'
  BY <1>1, <1>2, <1>3 DEF ScanInv, OneWalk
<1>5. \A k \in Keys : Stale(k)' => Stale(k)
  BY DEF Stale
<1>6. EndsInTime(now)'
  BY <1>2, <1>3, <1>5 DEF ScanInv, WalkEnds, EndsInTime
<1> QED
  BY <1>4, <1>6 DEF ScanInv, Past, WalkEnds, DisabledIsLeftAlone

\* The copies of a client's tasks are at most MaxId: they take no more time than
\* the walk has kept for the client.
LEMMA LoadTakesNoMore ==
  ASSUME TypeOK, TypeOK', ScanInv, NEW c \in clients, LoadTasks(c)
  PROVE  IsFiniteSet(todo') /\ WalkTime' <= WalkTime /\ WalkTime' \in Nat /\ WalkTime \in Nat
<1> DEFINE J == {j \in Ids : Exists(j) /\ rows[j].client \in {Global, c}}
<1>1. clients' = clients \ {c} /\ todo' = {CopyOf(i) : i \in J}
  BY DEF LoadTasks
<1>2. IsFiniteSet(J) /\ Cardinality(J) <= MaxId /\ Cardinality(J) \in Nat
  <2>1. IsFiniteSet(Ids) /\ Cardinality(Ids) = MaxId
    BY BoundsAssumption, FS_Interval DEF Ids
  <2> QED
    BY <2>1, FS_Subset, FS_CardinalityType
<1>3. IsFiniteSet(todo') /\ Cardinality(todo') <= MaxId
  <2> DEFINE f == [i \in J |-> CopyOf(i)]
  <2>1. f \in Surjection(J, todo')
    BY <1>1 DEF Surjection
  <2>2. IsFiniteSet(todo') /\ Cardinality(todo') <= Cardinality(J)
    BY <1>2, <2>1, FS_Surjection
  <2> QED
    BY <1>2, <2>2, FS_CardinalityType, BoundsAssumption
<1>4. WalkTime' <= WalkTime /\ WalkTime' \in Nat /\ WalkTime \in Nat
  BY <1>1, <1>3, WalkTimeShrinks, WalkTimeType DEF ScanInv, OneWalk
<1> QED
  BY <1>3, <1>4

\* The copies of a task that is not asked for are there only because the client is
\* stale.
LEMMA LoadKeepsScan ==
  ASSUME TypeOK, TypeOK', ScanInv, NEW c \in clients, LoadTasks(c)
  PROVE  ScanInv'
<1> DEFINE J == {j \in Ids : Exists(j) /\ rows[j].client \in {Global, c}}
<1>1. /\ pc = "client" /\ pc' = "task" /\ clients' = clients \ {c} /\ client' = c
      /\ todo' = {CopyOf(i) : i \in J}
      /\ UNCHANGED <<now, rows, registered, flip, running>>
  BY DEF LoadTasks
<1>2. \A i \in J : CopyOf(i).id = i /\ CopyOf(i).enabled = rows[i].enabled
  BY DEF CopyOf
<1>3. IsFiniteSet(todo') /\ WalkTime' <= WalkTime /\ WalkTime' \in Nat /\ WalkTime \in Nat
  BY LoadTakesNoMore
<1>4. ScanBound \in Nat /\ now \in Nat /\ \A k \in Keys : flip[k] \in Nat
  BY BoundsAssumption DEF TypeOK, Time
<1>5. OneWalk'
  <2>1. \A t, u \in todo' : t.id = u.id => t = u
    BY <1>1, <1>2
  <2> QED
    BY <1>1, <1>3, <1>4, <2>1 DEF ScanInv, OneWalk
<1>6. ASSUME NEW k \in Keys, Stale(k)'
      PROVE  Stale(k)
  <2>1. CASE k[1] \in clients' /\ k[1] \notin ClientsOf(rows, registered)
    BY <1>1, <2>1 DEF Stale
  <2>2. CASE /\ k[1] = c
             /\ \E t \in todo' : t.id = k[2] /\ t.enabled
             /\ Asked(rows, registered, k) = Never
    <3>1. PICK i \in J : i = k[2] /\ rows[i].enabled
      BY <1>1, <1>2, <2>2
    <3>2. EffectiveInterval(rows[i].interval) # Never
      <4>1. rows[i].interval \in Int
        BY <3>1 DEF TypeOK, Row, Exists
      <4> QED
        BY <4>1, IntervalAssumption, AbsentAssumption DEF EffectiveInterval
    <3>3. k[1] \notin ClientsOf(rows, registered)
      BY <2>2, <3>1, <3>2 DEF Asked, Exists
    <3> QED
      BY <2>2, <3>3 DEF Stale
  <2> QED
    BY <1>1, <1>6, <2>1, <2>2 DEF Stale
<1>7. EndsInTime(now)'
  BY <1>1, <1>3, <1>4, <1>6 DEF ScanInv, WalkEnds, EndsInTime
<1> QED
  BY <1>1, <1>5, <1>7 DEF ScanInv, Past, WalkEnds, DisabledIsLeftAlone

LEMMA PickKeepsScan ==
  ASSUME TypeOK, ScanInv, NEW t \in todo, PickTask(t)
  PROVE  ScanInv'
<1>1. /\ pc = "task" /\ pc' = "slot" /\ IsNextTask(t) /\ t.enabled
      /\ UNCHANGED <<now, clients, client, todo, rows, registered, flip, running>>
  BY DEF PickTask, Due
<1>2. WalkTime' = WalkTime
  BY <1>1 DEF WalkTime
<1>3. now \in Time /\ now \in Nat /\ Timeout \in Nat
  BY CapAssumption DEF TypeOK, Time
<1>4. \A u \in todo : IsNextTask(u) => u = t
  BY <1>1, NextTaskIsOne DEF ScanInv, OneWalk
<1>5. OneWalk'
  BY <1>1, <1>2, <1>4 DEF ScanInv, OneWalk, IsNextTask
<1>6. EndsInTime(now)
  BY <1>1 DEF ScanInv, WalkEnds
<1>7. Waiting(now)' /\ EndsInTime(now)'
  BY <1>1, <1>2, <1>3, <1>6 DEF ScanInv, Past, Waiting, EndsInTime, Stale
<1>8. WalkEnds'
  BY <1>1, <1>3, <1>7 DEF WalkEnds
<1> QED
  BY <1>1, <1>5, <1>8 DEF ScanInv, Past, DisabledIsLeftAlone

LEMMA StartKeepsScan ==
  ASSUME TypeInv, TypeOK', ScanInv, NEW t \in todo, StartProbe(t)
  PROVE  ScanInv'
<1> USE DEF TypeInv
<1>1. PICK p : /\ running' = running \cup {p} /\ p.client = client /\ p.id = t.id
               /\ p.start = now
  <2> DEFINE q == [client |-> client, id |-> t.id, name |-> t.name, start |-> now,
                   no |-> starts[<<client, t.id>>] + 1, phase |-> "probing"]
  <2>1. running' = running \cup {q}
    BY DEF StartProbe
  <2>2. q.client = client /\ q.id = t.id /\ q.start = now
    OBVIOUS
  <2> HIDE DEF q
  <2> QED
    BY <2>1, <2>2
<1>2. /\ pc = "slot" /\ pc' = "task" /\ IsNextTask(t) /\ todo' = todo \ {t}
      /\ UNCHANGED <<now, clients, client, rows, registered, flip>>
  BY DEF StartProbe
<1>3. IsFiniteSet(todo) /\ IsFiniteSet(todo')
  BY <1>2, FS_Subset DEF ScanInv, OneWalk
<1>4. WalkTime' = WalkTime - Timeout /\ WalkTime' \in Nat /\ WalkTime \in Nat
  BY <1>2, <1>3, StartTakesTime, WalkTimeShrinks, WalkTimeType
<1>5. /\ ScanBound \in Nat /\ now \in Nat /\ Timeout \in Nat
      /\ \A k \in Keys : flip[k] \in Nat
  BY BoundsAssumption, CapAssumption DEF TypeOK, Time
<1>6. PICK s \in Nat : Waiting(s) /\ EndsInTime(s)
  BY <1>2 DEF ScanInv, WalkEnds, Time
<1>7. ASSUME NEW k \in Keys, Stale(k)
      PROVE  now + WalkTime' <= flip[k] + ScanBound
  <2>1. s + WalkTime <= flip[k] + ScanBound /\ now <= s + Timeout
    BY <1>6, <1>7 DEF EndsInTime, Waiting
  <2> QED
    BY <1>4, <1>5, <2>1
<1>8. OneWalk'
  BY <1>2, <1>3, <1>4, <1>5 DEF ScanInv, OneWalk
<1>9. \A k \in Keys : Stale(k)' => Stale(k)
  BY <1>2 DEF Stale
<1>10. WalkEnds'
  BY <1>2, <1>7, <1>9 DEF WalkEnds, EndsInTime
<1>11. Past'
  BY <1>1, <1>2, <1>5 DEF ScanInv, Past
<1>12. DisabledIsLeftAlone'
  <2> SUFFICES ASSUME NEW q \in running', Asked(rows, registered, <<q.client, q.id>>) = Never
               PROVE  q.start <= flip[<<q.client, q.id>>] + ScanBound
    BY <1>2 DEF DisabledIsLeftAlone
  <2>1. CASE q \in running
    BY <2>1 DEF ScanInv, DisabledIsLeftAlone
  <2>2. CASE q = p
    <3>1. PICK k \in Keys : k = <<client, t.id>>
      BY <1>2 DEF TypeOK, Visiting, Keys, Task
    <3>2. k[1] = client /\ k[2] = t.id /\ t.enabled
      BY <1>2, <3>1 DEF ScanInv, OneWalk
    <3>3. Stale(k)
      BY <1>1, <2>2, <3>1, <3>2 DEF Stale
    <3>4. now + WalkTime' <= flip[k] + ScanBound
      BY <1>7, <3>3
    <3> QED
      BY <1>1, <1>4, <1>5, <2>2, <3>1, <3>4
  <2> QED
    BY <1>1, <2>1, <2>2
<1> QED
  BY <1>8, <1>10, <1>11, <1>12 DEF ScanInv

LEMMA LoopKeepsScan == TypeInv /\ TypeInv' /\ ScanInv /\ Loop => ScanInv'
<1> SUFFICES ASSUME TypeInv, TypeInv', ScanInv, Loop
             PROVE  ScanInv'
  OBVIOUS
<1> USE DEF TypeInv
<1>1. CASE TakeTick \/ TakeTickBlind
  BY <1>1, TickKeepsScan
<1>2. CASE TickDone
  BY <1>2, LessKeepsScan DEF TickDone, ScanInv, OneWalk
<1>3. CASE ClientDone
  BY <1>3, LessKeepsScan DEF ClientDone
<1>4. ASSUME NEW c \in clients, LoadTasks(c)
      PROVE  ScanInv'
  BY <1>4, LoadKeepsScan
<1>5. ASSUME NEW c \in clients, LoadFails(c)
      PROVE  ScanInv'
  BY <1>5, LessKeepsScan DEF LoadFails, ScanInv, OneWalk
<1>6. ASSUME NEW t \in todo, SkipTask(t)
      PROVE  ScanInv'
  BY <1>6, LessKeepsScan DEF SkipTask
<1>7. ASSUME NEW t \in todo, PickTask(t)
      PROVE  ScanInv'
  BY <1>7, PickKeepsScan
<1>8. ASSUME NEW t \in todo, StartProbe(t)
      PROVE  ScanInv'
  BY <1>8, StartKeepsScan
<1> QED
  BY <1>1, <1>2, <1>3, <1>4, <1>5, <1>6, <1>7, <1>8 DEF Loop

\* A goroutine that goes on keeps its client, its task and its start.
LEMMA GoroutineGoesOn ==
  ASSUME TypeInv, NEW p \in running, Goroutine(p)
  PROVE  /\ UNCHANGED <<now, tick, loopVars, tableVars>>
         /\ \A q \in running' : \E o \in running :
              q.client = o.client /\ q.id = o.id /\ q.start = o.start
<1> DEFINE Alike(q, o) == q.client = o.client /\ q.id = o.id /\ q.start = o.start
<1>1. UNCHANGED <<now, tick, loopVars, tableVars>>
  BY DEF Goroutine, EndProbe, InsertProbe, InsertFails, ReleaseSlot
<1>2. ASSUME NEW phase, running' = MoveTo(p, phase)
      PROVE  \A q \in running' : \E o \in running : Alike(q, o)
  <2>1. p \in Probe
    BY DEF TypeInv, TypeOK
  <2>2. Alike([p EXCEPT !.phase = phase], p)
    BY <2>1 DEF Probe
  <2> QED
    BY <1>2, <2>2 DEF MoveTo
<1>3. \A q \in running' : \E o \in running : Alike(q, o)
  BY <1>2 DEF Goroutine, EndProbe, InsertProbe, InsertFails, ReleaseSlot
<1> QED
  BY <1>1, <1>3

LEMMA GoroutineKeepsScan ==
  ASSUME TypeInv, ScanInv, NEW p \in running, Goroutine(p)
  PROVE  ScanInv'
<1>1. UNCHANGED <<now, loopVars, rows, registered, flip>>
  BY GoroutineGoesOn
<1>2. \A q \in running' : \E o \in running :
        q.client = o.client /\ q.id = o.id /\ q.start = o.start
  BY GoroutineGoesOn
<1>3. OneWalk'
  BY <1>1 DEF ScanInv, OneWalk, WalkTime, IsNextTask
<1>4. Past'
  BY <1>1, <1>2 DEF ScanInv, Past
<1>5. \A s : Waiting(s) => Waiting(s)'
  BY <1>1, <1>2 DEF Waiting
<1>6. \A s : EndsInTime(s) => EndsInTime(s)'
  BY <1>1 DEF EndsInTime, Stale, WalkTime
<1>7. WalkEnds'
  BY <1>1, <1>5, <1>6 DEF ScanInv, WalkEnds
<1>8. DisabledIsLeftAlone'
  BY <1>1, <1>2 DEF ScanInv, DisabledIsLeftAlone
<1> QED
  BY <1>3, <1>4, <1>7, <1>8 DEF ScanInv

\* A loop that waits for a slot waits for a probe in every slot, and none of them
\* runs longer than Timeout.
LEMMA TimeKeepsScan ==
  ASSUME TypeOK, ScanInv, SlotInv, AdvanceTime
  PROVE  ScanInv'
<1>1. /\ now' = now + 1 /\ now \in Nat /\ now < MaxTime /\ MaxTime \in Nat /\ Timeout \in Nat
      /\ UNCHANGED <<loopVars, rows, registered, flip, running>>
  BY BoundsAssumption, CapAssumption DEF AdvanceTime, TypeOK, Time
<1>2. OneWalk'
  BY <1>1 DEF ScanInv, OneWalk, WalkTime, IsNextTask
<1>3. Past'
  BY <1>1 DEF ScanInv, Past, TypeOK, Probe, Time
<1>4. DisabledIsLeftAlone'
  BY <1>1 DEF ScanInv, DisabledIsLeftAlone
<1>5. CASE pc = "tick"
  <2>1. clients = {} /\ todo = {}
    BY <1>5 DEF ScanInv, OneWalk
  <2> QED
    BY <1>1, <1>2, <1>3, <1>4, <1>5, <2>1 DEF ScanInv, WalkEnds, EndsInTime, Stale
<1>6. CASE pc = "slot" /\ slots = Cap
  <2>1. PICK s \in Time : Waiting(s) /\ EndsInTime(s)
    BY <1>6 DEF ScanInv, WalkEnds
  <2>2. PICK p \in running : TRUE
    BY <1>6, CapAssumption, FS_EmptySet DEF SlotInv, SlotsCount
  <2>3. p.start \in Nat /\ now < p.start + Timeout /\ p.start <= s /\ s \in Nat
    BY <2>1, <2>2 DEF AdvanceTime, Waiting, TypeOK, Probe, Time
  <2>4. Waiting(s)'
    BY <1>1, <2>1, <2>3 DEF Waiting
  <2>5. EndsInTime(s)'
    BY <1>1, <2>1 DEF EndsInTime, Stale, WalkTime
  <2> QED
    BY <1>1, <1>2, <1>3, <1>4, <1>6, <2>1, <2>4, <2>5 DEF ScanInv, WalkEnds
<1> QED
  BY <1>5, <1>6 DEF AdvanceTime, LoopWaits

LEMMA RestartKeepsScan ==
  ASSUME TypeOK, ScanInv, Restart
  PROVE  ScanInv'
<1>1. /\ pc' = "tick" /\ clients' = {} /\ todo' = {} /\ running' = {} /\ now' = now
      /\ flip' = [k \in Keys |-> now] /\ now \in Nat
  BY DEF Restart, TypeOK, Time
<1>2. WalkTime' <= ScanBound
  <2>1. Cardinality(clients') = 0 /\ Cardinality(todo') = 0
    BY <1>1, FS_EmptySet
  <2>2. WalkTime' = 0
    BY <2>1, BoundsAssumption, CapAssumption DEF WalkTime
  <2> QED
    BY <2>2, BoundsAssumption
<1>3. OneWalk'
  BY <1>1, <1>2, FS_EmptySet DEF OneWalk
<1> QED
  BY <1>1, <1>3 DEF ScanInv, Past, WalkEnds, EndsInTime, Stale, DisabledIsLeftAlone

LEMMA ScanStep ==
  TypeInv /\ TypeInv' /\ SlotInv /\ ScanInv /\ [Next]_vars => ScanInv'
<1> SUFFICES ASSUME TypeInv, TypeInv', SlotInv, ScanInv, [Next]_vars
             PROVE  ScanInv'
  OBVIOUS
<1>1. CASE Admin
  BY <1>1, AdminKeepsScan DEF TypeInv
<1>2. CASE Loop
  BY <1>2, LoopKeepsScan
<1>3. CASE \E p \in running : Goroutine(p)
  BY <1>3, GoroutineKeepsScan
<1>4. CASE AdvanceTime
  BY <1>4, TimeKeepsScan DEF TypeInv
<1>5. CASE Restart
  BY <1>5, RestartKeepsScan DEF TypeInv
<1>6. CASE UNCHANGED vars
  BY <1>6 DEF ScanInv, OneWalk, Past, WalkEnds, EndsInTime, Waiting, Stale, WalkTime,
              IsNextTask, DisabledIsLeftAlone
<1> QED
  BY <1>1, <1>2, <1>3, <1>4, <1>5, <1>6 DEF Next

\* A probe that runs for a task which is disabled, deleted or whose client is gone
\* was started at most ScanBound after that, however many slots there are and
\* wherever in its walk the loop had to wait for one.
THEOREM LeftAloneCorrect == Spec => []DisabledIsLeftAlone
<1>1. ScanInv => DisabledIsLeftAlone
  BY DEF ScanInv
<1> QED
  BY <1>1, TypeInit, TypeStep, SlotInit, SlotStep, ScanInit, ScanStep, PTL DEF Spec

(***************************************************************************)
(* No task is starved.  A task that is asked for is due from a time on,    *)
(* and is picked by a walk whose tick was sent from then on, unless its    *)
(* client's tasks cannot be loaded.  The walk under way may have passed    *)
(* it, and a tick sent during that walk may be too old as well; the tick   *)
(* after it is not, so that three walks are enough.  The invariant keeps,  *)
(* for every key, how many of them the end of the walk under way has left, *)
(* and a tick never waits longer than a walk.                              *)
(***************************************************************************)

Wish(k) == Asked(rows, registered, k)

\* From when on k is due.
DueFrom(k) == Later(lastRun[k], flip[k]) + Wish(k)

\* What failed loads allow k in addition.
More(k) == misses[k] * ScanBound

\* The walk under way has k before it, and will find it due.
WillPick(k) ==
  /\ DueFrom(k) <= stamp
  /\ \/ k[1] \in clients
     \/ /\ k[1] = client
        /\ \E t \in todo :
             t.id = k[2] /\ t.enabled /\ EffectiveInterval(t.interval) = Wish(k)

\* By e the walk under way is over, wherever it has to wait.
End(e) ==
  IF pc = "slot" THEN \E s \in Time : Waiting(s) /\ e = s + WalkTime ELSE e = now + WalkTime

\* A tick is taken up within a walk, and the next one is sent during it.
TickPace(e) ==
  /\ pc = "tick" /\ tick # NoTick => now <= tick + ScanBound
  /\ pc # "tick" /\ tick = NoTick => now <= stamp + ScanBound
  /\ pc # "tick" /\ tick # NoTick =>
       stamp < tick /\ tick <= stamp + ScanBound + 1 /\ e + 1 <= tick + ScanBound

\* Is the end e of the walk in time at now n and with q in the ticker's channel, for
\* a key that is due from f on and may be late by m, if p: the walk will pick it?
InTime(p, n, q, f, m, e) ==
  IF p
  THEN /\ e <= f + 3 * ScanBound + m
       /\ q = NoTick => n <= f + 2 * ScanBound + m
  ELSE /\ e <= f + 2 * ScanBound + m
       /\ q # NoTick /\ q < f => e <= f + ScanBound + m
       /\ q = NoTick => n <= f + ScanBound + m

OnTime(k, e) == InTime(WillPick(k), now, tick, DueFrom(k), More(k), e)

Prompt(e) == TickPace(e) /\ \A k \in Keys : Wish(k) # Never => OnTime(k, e)

\* While the loop waits for a slot, the task it waits for is the next one, and
\* has been picked in this walk.
Picked ==
  pc = "slot" => \E t \in todo : IsNextTask(t) /\ lastRun[<<client, t.id>>] = stamp

OverdueInv == Picked /\ \E e \in Int : End(e) /\ Prompt(e)

\* What the earlier invariants say.
Known == TypeInv /\ SlotInv /\ StampsArePast /\ ScanInv

\* A task is asked for at a positive interval, and due one interval after its last
\* pick, or after the edit that asked for it.
DueTyped ==
  \A k \in Keys : Wish(k) # Never =>
    /\ Wish(k) \in Nat \ {0} /\ DueFrom(k) \in Nat /\ More(k) \in Nat
    /\ flip[k] \in Nat /\ DueFrom(k) >= flip[k] + Wish(k)
    /\ lastRun[k] # Never => lastRun[k] \in Nat /\ DueFrom(k) >= lastRun[k] + Wish(k)

LEMMA DueType == TypeOK => DueTyped
<1> SUFFICES ASSUME TypeOK, NEW k \in Keys, Wish(k) # Never
             PROVE  /\ Wish(k) \in Nat \ {0} /\ DueFrom(k) \in Nat /\ More(k) \in Nat
                    /\ flip[k] \in Nat /\ DueFrom(k) >= flip[k] + Wish(k)
                    /\ lastRun[k] # Never => /\ lastRun[k] \in Nat
                                             /\ DueFrom(k) >= lastRun[k] + Wish(k)
  BY DEF DueTyped
<1>1. Wish(k) \in Nat \ {0}
  <2>1. rows[k[2]] # NoRow /\ Wish(k) = EffectiveInterval(rows[k[2]].interval) /\ k[2] \in Ids
    BY DEF Wish, Asked, Keys
  <2>2. rows[k[2]].interval \in Int
    BY <2>1 DEF TypeOK, Row
  <2> QED
    BY <2>1, <2>2, IntervalAssumption DEF EffectiveInterval
<1>2. /\ flip[k] \in Nat /\ misses[k] \in Nat /\ ScanBound \in Nat
      /\ lastRun[k] # Never => lastRun[k] \in Nat
  BY BoundsAssumption DEF TypeOK, Time
<1>3. More(k) \in Nat
  BY <1>2 DEF More
<1> QED
  BY <1>1, <1>2, <1>3 DEF DueFrom, Later

\* The clock, the ticks and the walk.
ClockTyped ==
  /\ now \in Nat /\ stamp \in Nat /\ stamp <= now
  /\ tick # NoTick => tick \in Nat /\ tick <= now
  /\ ScanBound \in Nat /\ WalkTime \in Nat /\ WalkTime <= ScanBound

LEMMA ClockType == Known => ClockTyped
BY WalkTimeType, BoundsAssumption
   DEF Known, TypeInv, TypeOK, Time, StampsArePast, ScanInv, OneWalk, ClockTyped

\* Both hold after a step as well.
LEMMA TypesNext == Known' => DueTyped' /\ ClockTyped'
<1>1. Known => TypeOK
  BY DEF Known, TypeInv
<1> QED
  BY <1>1, DueType, ClockType, PTL

\* There is time for a walk when there is something to walk.
LEMMA ScanTakesTime ==
  ASSUME NEW k \in Keys
  PROVE  ScanBound >= 1
<1> DEFINE n == Cardinality(Nodes)
<1>1. n \in Nat /\ n # 0
  BY ScanAssumption, FS_CardinalityType, FS_EmptySet DEF Keys
<1>2. MaxId \in Nat /\ MaxId >= 1
  BY BoundsAssumption DEF Keys, Ids
<1>3. Timeout \in Nat /\ Timeout >= 1
  BY CapAssumption
<1>4. ScanBound >= Timeout * (n * MaxId) /\ ScanBound \in Nat
  BY ScanAssumption, BoundsAssumption
<1> HIDE DEF n
<1>5. n * MaxId \in Nat /\ n * MaxId >= 1
  <2>1. n * 1 <= n * MaxId /\ n * MaxId \in Nat
    BY <1>1, <1>2, Products
  <2> QED
    BY <1>1, <2>1
<1>6. Timeout * 1 <= Timeout * (n * MaxId) /\ Timeout * (n * MaxId) \in Nat
  BY <1>3, <1>5, Products
<1> QED
  BY <1>3, <1>4, <1>6

\* The end of the walk under way lies ahead, at most a walk.
LEMMA EndType ==
  ASSUME Known, Picked, NEW e, End(e)
  PROVE  e \in Nat /\ now <= e /\ e <= now + ScanBound
<1>1. CASE pc # "slot"
  BY <1>1, ClockType DEF End, ClockTyped
<1>2. CASE pc = "slot"
  <2>1. PICK s \in Time : Waiting(s) /\ e = s + WalkTime
    BY <1>2 DEF End
  <2>2. WalkTime >= Timeout
    <3> DEFINE a == Cardinality(clients) * MaxId
               n == Cardinality(todo)
    <3>1. todo # {} /\ IsFiniteSet(todo)
      BY <1>2 DEF Picked, Known, ScanInv, OneWalk
    <3>2. n \in Nat /\ n >= 1 /\ MaxId \in Nat /\ Timeout \in Nat
      BY <3>1, FS_CardinalityType, FS_EmptySet, BoundsAssumption, CapAssumption
    <3>3. a \in Nat
      BY <3>2, ClientsFinite DEF Known, TypeInv
    <3>4. WalkTime = Timeout * (a + n)
      BY DEF WalkTime
    <3> HIDE DEF a, n
    <3>5. a + n \in Nat /\ 1 <= a + n
      BY <3>2, <3>3
    <3>6. Timeout * 1 <= Timeout * (a + n)
      BY <3>2, <3>5, Products
    <3> QED
      BY <3>2, <3>4, <3>6
  <2>3. s \in Nat /\ Timeout \in Nat
    BY <2>1, BoundsAssumption, CapAssumption DEF Time
  <2> QED
    BY <2>1, <2>2, <2>3, ClockType DEF Waiting, ClockTyped
<1> QED
  BY <1>1, <1>2

\* What is due from now on, or later, is in time.
LEMMA FreshInTime ==
  ASSUME NEW n \in Nat, NEW q, NEW f \in Nat, NEW m \in Nat, NEW e \in Int, NEW p,
         n <= f, e <= n + ScanBound
  PROVE  InTime(p, n, q, f, m, e)
<1>1. ScanBound \in Nat
  BY BoundsAssumption
<1> QED
  BY <1>1 DEF InTime

LEMMA FreshIsOnTime ==
  ASSUME Known, Known', now' = now, NEW k \in Keys, Wish(k)' # Never, now <= DueFrom(k)',
         NEW d \in Int, d <= now + ScanBound
  PROVE  OnTime(k, d)'
<1>1. PICK f \in Nat, m \in Nat : f = DueFrom(k)' /\ m = More(k)'
  BY TypesNext DEF DueTyped
<1>2. now \in Nat /\ ScanBound \in Nat /\ now <= f
  BY <1>1, ClockType DEF ClockTyped
<1>3. InTime(WillPick(k)', now, tick', f, m, d)
  BY <1>2, FreshInTime
<1> QED
  BY <1>1, <1>3 DEF OnTime

\* What is in time stays so while the walk comes nearer to its end and passes
\* nothing that it would have picked.
LEMMA InTimeSooner ==
  ASSUME NEW n \in Nat, NEW q, NEW f \in Nat, NEW m \in Nat, NEW e \in Int, NEW d \in Int,
         NEW p, NEW r, p => r, d <= e, InTime(p, n, q, f, m, e)
  PROVE  InTime(r, n, q, f, m, d)
<1>1. ScanBound \in Nat
  BY BoundsAssumption
<1> QED
  BY <1>1 DEF InTime

LEMMA LessKeepsOnTime ==
  ASSUME Known, NEW k \in Keys, Wish(k) # Never, NEW e \in Int, NEW d \in Int, d <= e,
         OnTime(k, e), WillPick(k) => WillPick(k)',
         UNCHANGED <<now, tick, DueFrom(k), More(k)>>
  PROVE  OnTime(k, d)'
<1>1. DueFrom(k) \in Nat /\ More(k) \in Nat /\ now \in Nat
  BY DueType, ClockType DEF DueTyped, ClockTyped, Known, TypeInv
<1>2. InTime(WillPick(k)', now, tick, DueFrom(k), More(k), d)
  BY <1>1, InTimeSooner DEF OnTime
<1> QED
  BY <1>2 DEF OnTime

\* A walk that comes nearer to its end keeps the pace of the ticks.
LEMMA LessKeepsPace ==
  ASSUME Known, NEW e \in Int, NEW d \in Int, d <= e, TickPace(e),
         pc # "tick", pc' # "tick", UNCHANGED <<now, tick, stamp>>
  PROVE  TickPace(d)'
<1>1. ScanBound \in Nat /\ (tick # NoTick => tick \in Nat)
  BY ClockType DEF ClockTyped
<1> QED
  BY <1>1 DEF TickPace

\* What is asked for depends on the tables, when it is due on the histories too.
LEMMA SameDue ==
  ASSUME NEW k, UNCHANGED <<rows, registered, lastRun[k], flip[k], misses[k]>>
  PROVE  UNCHANGED <<Wish(k), DueFrom(k), More(k)>>
BY DEF Wish, DueFrom, More, Asked

\* An edit makes what it asks for due from now on, and leaves the rest alone.
LEMMA EditKeepsPrompt ==
  ASSUME Known, Known', OverdueInv, NEW rs, NEW reg, Edit(rs, reg)
  PROVE  OverdueInv'
<1>1. /\ rows' = rs /\ registered' = reg
      /\ flip' = [k \in Keys |-> IF Changes(rs, reg, k) THEN now ELSE flip[k]]
      /\ misses' = [k \in Keys |-> IF Changes(rs, reg, k) THEN 0 ELSE misses[k]]
      /\ UNCHANGED <<now, tick, loopVars, running>>
  BY DEF Edit
<1>2. PICK e \in Int : End(e) /\ Prompt(e)
  BY DEF OverdueInv
<1>3. End(e)' /\ Picked' /\ TickPace(e)'
  BY <1>1, <1>2 DEF End, Waiting, WalkTime, OverdueInv, Picked, IsNextTask, Prompt, TickPace
<1>4. e <= now + ScanBound /\ now' = now
  BY <1>1, <1>2, EndType DEF OverdueInv
<1>5. ASSUME NEW k \in Keys, Wish(k)' # Never
      PROVE  OnTime(k, e)'
  <2>1. CASE Changes(rs, reg, k)
    <3>1. flip'[k] = now
      BY <1>1, <2>1
    <3>2. now <= DueFrom(k)'
      BY <1>1, <1>5, <3>1, TypesNext, ClockType DEF DueTyped, ClockTyped
    <3> QED
      BY <1>2, <1>4, <1>5, <3>2, FreshIsOnTime
  <2>2. CASE ~Changes(rs, reg, k)
    <3>1. flip'[k] = flip[k] /\ misses'[k] = misses[k]
      BY <1>1, <2>2
    <3>2. Wish(k)' = Wish(k)
      BY <1>1, <2>2, UnchangedIsAskedAlike DEF Wish
    <3>3. DueFrom(k)' = DueFrom(k) /\ More(k)' = More(k)
      BY <1>1, <3>1, <3>2 DEF DueFrom, More
    <3>4. WillPick(k)' <=> WillPick(k)
      BY <1>1, <3>2, <3>3 DEF WillPick
    <3> QED
      BY <1>1, <1>2, <1>5, <3>2, <3>3, <3>4, LessKeepsOnTime DEF Prompt
  <2> QED
    BY <2>1, <2>2
<1> QED
  BY <1>3, <1>5 DEF OverdueInv, Prompt

LEMMA AdminKeepsPrompt == Known /\ Known' /\ OverdueInv /\ Admin => OverdueInv'
<1> SUFFICES ASSUME Known, Known', OverdueInv, Admin
             PROVE  OverdueInv'
  OBVIOUS
<1>1. ASSUME NEW rs, NEW reg, Edit(rs, reg)
      PROVE  OverdueInv'
  BY <1>1, EditKeepsPrompt
<1>2. CASE \E c \in Nodes \cup {Global}, m \in Names, i \in Intervals, e \in BOOLEAN :
             UpsertTask(c, m, i, e)
  BY <1>1, <1>2 DEF UpsertTask
<1>3. CASE \E i \in Ids : DeleteTask(i)
  BY <1>1, <1>3 DEF DeleteTask
<1>4. CASE \E n \in Nodes : RegisterNode(n) \/ DeleteNode(n)
  BY <1>1, <1>4 DEF RegisterNode, DeleteNode
<1> QED
  BY <1>2, <1>3, <1>4 DEF Admin

\* A walk begins with every client before it, or with the extra one alone, and then
\* it counts as a miss for the others.  The one before it is over, and its tick has
\* been waiting for at most a walk.
LEMMA InTimeAtWalk ==
  ASSUME NEW n \in Nat, NEW q \in Nat, NEW f \in Nat, NEW m \in Nat, NEW e \in Int,
         NEW d \in Int, NEW p, q # NoTick, n <= e, n <= q + ScanBound, d <= n + ScanBound,
         InTime(FALSE, n, q, f, m, e), p <=> f <= q
  PROVE  /\ InTime(p, n, NoTick, f, m, d)
         /\ InTime(FALSE, n, NoTick, f, m + ScanBound, d)
<1>1. ScanBound \in Nat
  BY BoundsAssumption
<1>2. CASE f <= q
  BY <1>1, <1>2 DEF InTime
<1>3. CASE ~(f <= q)
  BY <1>1, <1>3 DEF InTime
<1> QED
  BY <1>2, <1>3

LEMMA TickKeepsPrompt ==
  ASSUME Known, Known', OverdueInv, TakeTick \/ TakeTickBlind
  PROVE  OverdueInv'
<1>1. /\ pc = "tick" /\ pc' = "client" /\ tick # NoTick /\ tick' = NoTick /\ stamp' = tick
      /\ clients = {} /\ todo = {} /\ todo' = {}
      /\ UNCHANGED <<now, rows, registered, lastRun, flip>>
  BY DEF TakeTick, TakeTickBlind, Known, ScanInv, OneWalk
<1>2. now \in Nat /\ tick \in Nat /\ ScanBound \in Nat /\ WalkTime \in Nat
  BY <1>1, ClockType DEF ClockTyped
<1>3. PICK w \in 0..ScanBound : w = WalkTime'
  BY TypesNext DEF ClockTyped
<1>4. PICK e \in Int : End(e) /\ Prompt(e)
  BY DEF OverdueInv
<1>5. PICK d \in Int : d = now + w
  BY <1>2
<1>6. d <= now + ScanBound
  BY <1>2, <1>5
<1>7. End(d)' /\ Picked'
  BY <1>1, <1>3, <1>5 DEF End, Picked
<1>8. now <= e /\ now <= tick + ScanBound
  BY <1>1, <1>2, <1>4 DEF End, Prompt, TickPace
<1>9. TickPace(d)'
  BY <1>1, <1>8 DEF TickPace
<1>10. ASSUME NEW k \in Keys, Wish(k)' # Never
      PROVE  OnTime(k, d)'
  <2>1. Wish(k)' = Wish(k) /\ DueFrom(k)' = DueFrom(k)
    BY <1>1 DEF Wish, DueFrom, Asked
  <2>2. DueFrom(k) \in Nat /\ More(k) \in Nat
    BY <1>10, <2>1, DueType DEF DueTyped, Known, TypeInv
  <2>3. InTime(FALSE, now, tick, DueFrom(k), More(k), e)
    BY <1>1, <1>4, <1>10, <2>1 DEF Prompt, OnTime, WillPick, InTime
  <2>4. CASE k[1] \in clients'
    <3>1. misses'[k] = misses[k]
      BY <2>4 DEF TakeTick, TakeTickBlind
    <3>2. More(k)' = More(k)
      BY <3>1 DEF More
    <3>3. WillPick(k)' <=> DueFrom(k) <= tick
      BY <1>1, <2>1, <2>4 DEF WillPick
    <3>4. InTime(WillPick(k)', now, NoTick, DueFrom(k), More(k), d)
      BY <1>1, <1>2, <1>6, <1>8, <2>2, <2>3, <3>3, InTimeAtWalk
    <3> QED
      BY <1>1, <2>1, <3>2, <3>4 DEF OnTime
  <2>5. CASE k[1] \notin clients'
    <3>1. misses'[k] = misses[k] + 1
      <4>1. k[1] \in ClientsOf(rows, registered)
        BY <1>10, <2>1 DEF Wish, Asked
      <4>2. TakeTickBlind /\ k[1] \notin Extra
        BY <2>5, <4>1 DEF TakeTick, TakeTickBlind
      <4> QED
        BY <4>2 DEF TakeTickBlind
    <3>2. More(k)' = More(k) + ScanBound
      <4>1. PICK m \in Nat : m = misses[k]
        BY DEF Known, TypeInv, TypeOK
      <4>2. (m + 1) * ScanBound = m * ScanBound + ScanBound
        BY BoundsAssumption
      <4> QED
        BY <3>1, <4>1, <4>2 DEF More
    <3>3. ~WillPick(k)'
      BY <1>1, <2>5 DEF WillPick
    <3>4. InTime(FALSE, now, NoTick, DueFrom(k), More(k) + ScanBound, d)
      <4>1. PICK p \in BOOLEAN : p <=> DueFrom(k) <= tick
        OBVIOUS
      <4> QED
        BY <1>1, <1>2, <1>6, <1>8, <2>2, <2>3, <4>1, InTimeAtWalk
    <3>5. InTime(WillPick(k)', now, NoTick, DueFrom(k), More(k) + ScanBound, d)
      BY <3>3, <3>4 DEF InTime
    <3> QED
      BY <1>1, <2>1, <3>2, <3>5 DEF OnTime
  <2> QED
    BY <2>4, <2>5
<1> QED
  BY <1>7, <1>9, <1>10 DEF OverdueInv, Prompt

\* A step that brings the end of the walk nearer, and passes nothing that the walk
\* would pick.
LEMMA NearerKeepsPrompt ==
  ASSUME Known, NEW e \in Int, Prompt(e), NEW d \in Int, d <= e,
         End(d)', TickPace(d)', Picked',
         UNCHANGED <<now, tick, rows, registered, lastRun, flip, misses>>,
         \A k \in Keys : Wish(k) # Never /\ WillPick(k) => WillPick(k)'
  PROVE  OverdueInv'
<1>1. ASSUME NEW k \in Keys, Wish(k)' # Never
      PROVE  OnTime(k, d)'
  <2>1. Wish(k)' = Wish(k) /\ DueFrom(k)' = DueFrom(k) /\ More(k)' = More(k)
    BY SameDue
  <2> QED
    BY <1>1, <2>1, LessKeepsOnTime DEF Prompt
<1> QED
  BY <1>1 DEF OverdueInv, Prompt

\* In particular one that takes something off the walk.
LEMMA LessKeepsPrompt ==
  ASSUME Known, Known', OverdueInv, WalkTime' <= WalkTime,
         pc \in {"client", "task"}, pc' \in {"client", "task"},
         UNCHANGED <<now, tick, stamp, rows, registered, lastRun, flip, misses>>,
         \A k \in Keys : Wish(k) # Never /\ WillPick(k) => WillPick(k)'
  PROVE  OverdueInv'
<1>1. PICK e \in Int : End(e) /\ Prompt(e)
  BY DEF OverdueInv
<1>2. PICK w \in 0..ScanBound : w = WalkTime'
  BY TypesNext DEF ClockTyped
<1>3. w <= WalkTime /\ WalkTime \in Nat /\ now \in Nat
  BY <1>2, ClockType DEF ClockTyped
<1>4. PICK d \in Int : d = now + w
  BY <1>3
<1>5. d <= e
  <2>1. e = now + WalkTime
    BY <1>1 DEF End
  <2> QED
    BY <1>3, <1>4, <2>1
<1>6. End(d)' /\ Picked'
  BY <1>2, <1>4 DEF End, Picked
<1>7. TickPace(d)'
  BY <1>1, <1>5, LessKeepsPace DEF Prompt
<1> QED
  BY <1>1, <1>5, <1>6, <1>7, NearerKeepsPrompt

\* The rows are loaded when the client's turn has come: what is asked for then has
\* a copy.
LEMMA LoadKeepsPrompt ==
  ASSUME Known, Known', OverdueInv, NEW c \in clients, LoadTasks(c)
  PROVE  OverdueInv'
<1>1. /\ pc = "client" /\ pc' = "task" /\ clients' = clients \ {c} /\ client' = c
      /\ todo = {}
      /\ todo' = {CopyOf(i) : i \in {j \in Ids : Exists(j) /\ rows[j].client \in {Global, c}}}
      /\ UNCHANGED <<now, tick, stamp, rows, registered, lastRun, flip, misses>>
  BY DEF LoadTasks, Known, ScanInv, OneWalk
<1>2. WalkTime' <= WalkTime
  BY LoadTakesNoMore DEF Known, TypeInv
<1>3. ASSUME NEW k \in Keys, Wish(k) # Never, WillPick(k)
      PROVE  WillPick(k)'
  <2>1. DueFrom(k)' = DueFrom(k) /\ Wish(k)' = Wish(k)
    BY <1>1, SameDue
  <2>2. DueFrom(k) <= stamp /\ k[1] \in clients
    BY <1>1, <1>3 DEF WillPick
  <2>3. CASE k[1] = c
    <3>1. /\ k[2] \in Ids /\ Exists(k[2]) /\ rows[k[2]].client \in {Global, c}
          /\ rows[k[2]].enabled /\ Wish(k) = EffectiveInterval(rows[k[2]].interval)
      BY <1>3, <2>3 DEF Wish, Asked, Exists, Keys
    <3>2. CopyOf(k[2]) \in todo'
      BY <1>1, <3>1
    <3>3. /\ CopyOf(k[2]).id = k[2] /\ CopyOf(k[2]).enabled
          /\ EffectiveInterval(CopyOf(k[2]).interval) = Wish(k)
      BY <3>1 DEF CopyOf
    <3> QED
      BY <1>1, <2>1, <2>2, <2>3, <3>2, <3>3 DEF WillPick
  <2>4. CASE k[1] # c
    BY <1>1, <2>1, <2>2, <2>4 DEF WillPick
  <2> QED
    BY <2>3, <2>4
<1> QED
  BY <1>1, <1>2, <1>3, LessKeepsPrompt

\* A task that is skipped is not due.
LEMMA SkipKeepsPrompt ==
  ASSUME Known, Known', OverdueInv, NEW t \in todo, SkipTask(t)
  PROVE  OverdueInv'
<1>1. /\ pc = "task" /\ pc' = "task" /\ ~Due(t) /\ todo' = todo \ {t}
      /\ UNCHANGED <<now, tick, stamp, clients, client, rows, registered, lastRun, flip, misses>>
  BY DEF SkipTask
<1>2. WalkTime' <= WalkTime
  BY <1>1, FS_Subset, WalkTimeShrinks DEF Known, TypeInv, ScanInv, OneWalk
<1>3. ASSUME NEW k \in Keys, Wish(k) # Never, WillPick(k)
      PROVE  WillPick(k)'
  <2>1. DueFrom(k)' = DueFrom(k) /\ Wish(k)' = Wish(k)
    BY <1>1, SameDue
  <2>2. CASE k[1] \in clients
    BY <1>1, <1>3, <2>1, <2>2 DEF WillPick
  <2>3. CASE k[1] \notin clients
    <3>1. PICK u \in todo : /\ k[1] = client /\ u.id = k[2] /\ u.enabled
                            /\ EffectiveInterval(u.interval) = Wish(k)
      BY <1>3, <2>3 DEF WillPick
    <3>2. u # t
      <4>1. SUFFICES ASSUME u = t
                     PROVE  Due(t)
        BY <1>1
      <4>2. k = <<client, t.id>>
        BY <3>1, <4>1 DEF Keys
      <4>3. /\ Wish(k) \in Nat /\ DueFrom(k) \in Nat /\ DueFrom(k) <= stamp /\ stamp \in Nat
            /\ lastRun[k] # Never => lastRun[k] \in Nat /\ DueFrom(k) >= lastRun[k] + Wish(k)
        BY <1>3, DueType, ClockType DEF DueTyped, ClockTyped, WillPick, Known, TypeInv
      <4>4. lastRun[k] # Never => stamp - lastRun[k] >= Wish(k)
        BY <4>3
      <4> QED
        BY <3>1, <4>1, <4>2, <4>4 DEF Due
    <3> QED
      BY <1>1, <1>3, <2>1, <3>1, <3>2 DEF WillPick
  <2> QED
    BY <2>2, <2>3
<1> QED
  BY <1>1, <1>2, <1>3, LessKeepsPrompt

LEMMA ClientDoneKeepsPrompt ==
  ASSUME Known, Known', OverdueInv, ClientDone
  PROVE  OverdueInv'
<1>1. /\ pc = "task" /\ pc' = "client"
      /\ UNCHANGED <<now, tick, stamp, clients, client, todo, rows, registered, lastRun, flip,
                     misses>>
  BY DEF ClientDone
<1>2. WalkTime' = WalkTime /\ WalkTime \in Nat
  BY <1>1, ClockType DEF WalkTime, ClockTyped
<1>3. \A k \in Keys : Wish(k) # Never /\ WillPick(k) => WillPick(k)'
  BY <1>1, SameDue DEF WillPick
<1> QED
  BY <1>1, <1>2, <1>3, LessKeepsPrompt

\* The walk is over, and with it the time that the tick in the channel had to wait.
LEMMA TickDoneKeepsPrompt ==
  ASSUME Known, Known', OverdueInv, TickDone
  PROVE  OverdueInv'
<1>1. /\ pc = "client" /\ pc' = "tick" /\ clients = {} /\ todo = {}
      /\ UNCHANGED <<now, tick, stamp, clients, client, todo, rows, registered, lastRun, flip,
                     misses>>
  BY DEF TickDone, Known, ScanInv, OneWalk
<1>2. PICK e \in Int : End(e) /\ Prompt(e)
  BY DEF OverdueInv
<1>3. End(e)' /\ Picked'
  BY <1>1, <1>2 DEF End, WalkTime, Picked
<1>4. TickPace(e)'
  <2>1. now <= e /\ now \in Nat /\ ScanBound \in Nat
    BY <1>1, <1>2, ClockType DEF End, ClockTyped
  <2>2. tick # NoTick => tick \in Nat /\ e + 1 <= tick + ScanBound
    BY <1>1, <1>2, ClockType DEF Prompt, TickPace, ClockTyped
  <2>3. tick # NoTick => now <= tick + ScanBound
    BY <2>1, <2>2
  <2> QED
    BY <1>1, <2>3 DEF TickPace
<1>5. \A k \in Keys : ~WillPick(k)
  BY <1>1 DEF WillPick
<1> QED
  BY <1>1, <1>2, <1>3, <1>4, <1>5, NearerKeepsPrompt

\* A client whose tasks cannot be loaded is passed by; its tasks may be a walk later
\* for it.
LEMMA InTimeAfterMiss ==
  ASSUME NEW n \in Nat, NEW q, NEW f \in Nat, NEW m \in Nat, NEW e \in Int, NEW d \in Int,
         NEW p, NEW r, ~r, d <= e, InTime(p, n, q, f, m, e), p /\ q # NoTick => ~(q < f)
  PROVE  InTime(r, n, q, f, m + ScanBound, d)
<1>1. ScanBound \in Nat
  BY BoundsAssumption
<1> QED
  BY <1>1 DEF InTime

LEMMA FailKeepsPrompt ==
  ASSUME Known, Known', OverdueInv, NEW c \in clients, LoadFails(c)
  PROVE  OverdueInv'
<1>1. /\ pc = "client" /\ pc' = "client" /\ clients' = clients \ {c} /\ todo = {} /\ todo' = {}
      /\ misses' = [k \in Keys |-> IF k[1] = c THEN misses[k] + 1 ELSE misses[k]]
      /\ UNCHANGED <<now, tick, stamp, client, rows, registered, lastRun, flip>>
  BY DEF LoadFails, Known, ScanInv, OneWalk
<1>2. PICK e \in Int : End(e) /\ Prompt(e)
  BY DEF OverdueInv
<1>3. PICK w \in 0..ScanBound : w = WalkTime'
  BY TypesNext DEF ClockTyped
<1>4. WalkTime' <= WalkTime
  BY <1>1, FS_EmptySet, WalkTimeShrinks DEF Known, TypeInv
<1>5. w <= WalkTime /\ WalkTime \in Nat /\ now \in Nat
  BY <1>3, <1>4, ClockType DEF ClockTyped
<1>6. PICK d \in Int : d = now + w
  BY <1>5
<1>7. d <= e
  <2>1. e = now + WalkTime
    BY <1>1, <1>2 DEF End
  <2> QED
    BY <1>5, <1>6, <2>1
<1>8. End(d)' /\ Picked'
  BY <1>1, <1>3, <1>6 DEF End, Picked
<1>9. TickPace(d)'
  BY <1>1, <1>2, <1>7, LessKeepsPace DEF Prompt
<1>10. ASSUME NEW k \in Keys, Wish(k)' # Never
       PROVE  OnTime(k, d)'
  <2>1. Wish(k)' = Wish(k) /\ DueFrom(k)' = DueFrom(k)
    BY <1>1 DEF Wish, DueFrom, Asked
  <2>2. OnTime(k, e) /\ DueFrom(k) \in Nat /\ More(k) \in Nat
    BY <1>2, <1>10, <2>1, DueType DEF Prompt, DueTyped, Known, TypeInv
  <2>3. CASE k[1] # c
    <3>1. More(k)' = More(k)
      BY <1>1, <2>3 DEF More
    <3>2. WillPick(k) => WillPick(k)'
      BY <1>1, <2>1, <2>3 DEF WillPick
    <3> QED
      BY <1>1, <1>7, <1>10, <2>1, <2>2, <3>1, <3>2, LessKeepsOnTime
  <2>4. CASE k[1] = c
    <3>1. ~WillPick(k)'
      BY <1>1, <2>4 DEF WillPick
    <3>2. More(k)' = More(k) + ScanBound
      <4>1. PICK m \in Nat : m = misses[k]
        BY DEF Known, TypeInv, TypeOK
      <4>2. misses'[k] = m + 1
        BY <1>1, <2>4, <4>1
      <4>3. (m + 1) * ScanBound = m * ScanBound + ScanBound
        BY BoundsAssumption
      <4> QED
        BY <4>1, <4>2, <4>3 DEF More
    <3>3. WillPick(k) /\ tick # NoTick => ~(tick < DueFrom(k))
      BY <1>1, <1>2, <2>2, ClockType DEF WillPick, Prompt, TickPace, ClockTyped
    <3>4. InTime(WillPick(k)', now, tick, DueFrom(k), More(k) + ScanBound, d)
      BY <1>5, <1>7, <2>2, <3>1, <3>3, InTimeAfterMiss DEF OnTime
    <3> QED
      BY <1>1, <2>1, <3>2, <3>4 DEF OnTime
  <2> QED
    BY <2>3, <2>4
<1> QED
  BY <1>8, <1>9, <1>10 DEF OverdueInv, Prompt

\* A task that is picked is due again after the next tick at the earliest, and no
\* failed load is counted for it any more.
LEMMA PickedInTime ==
  ASSUME NEW n \in Nat, NEW q, NEW s \in Nat, NEW f \in Nat, NEW e \in Int, NEW p, ~p,
         s < f, e <= n + ScanBound, q = NoTick => n <= s + ScanBound,
         q # NoTick => q \in Nat /\ q <= s + ScanBound + 1 /\ e + 1 <= q + ScanBound
  PROVE  InTime(p, n, q, f, 0, e)
<1>1. ScanBound \in Nat
  BY BoundsAssumption
<1>2. CASE q = NoTick
  BY <1>1, <1>2 DEF InTime
<1>3. CASE q # NoTick
  BY <1>1, <1>3 DEF InTime
<1> QED
  BY <1>2, <1>3

LEMMA PickKeepsPrompt ==
  ASSUME Known, Known', OverdueInv, NEW t \in todo, PickTask(t)
  PROVE  OverdueInv'
<1> DEFINE j == <<client, t.id>>
<1>1. /\ pc = "task" /\ pc' = "slot" /\ IsNextTask(t)
      /\ lastRun' = [lastRun EXCEPT ![j] = stamp] /\ misses' = [misses EXCEPT ![j] = 0]
      /\ UNCHANGED <<now, tick, stamp, clients, client, todo, rows, registered, flip, running>>
  BY DEF PickTask
<1>2. j \in Keys
  BY <1>1 DEF Known, TypeInv, TypeOK, Visiting, Keys, Task
<1>3. PICK e \in Int : End(e) /\ Prompt(e)
  BY DEF OverdueInv
<1>4. e <= now + ScanBound
  BY <1>3, EndType DEF OverdueInv
<1>5. End(e)'
  <2>1. now \in Time /\ now \in Nat /\ Timeout \in Nat /\ \A p \in running : p.start <= now
    BY CapAssumption DEF Known, TypeInv, TypeOK, Time, ScanInv, Past
  <2>2. Waiting(now)'
    BY <1>1, <2>1 DEF Waiting
  <2>3. e = now + WalkTime /\ WalkTime' = WalkTime
    BY <1>1, <1>3 DEF End, WalkTime
  <2> QED
    BY <1>1, <2>1, <2>2, <2>3 DEF End
<1>6. Picked'
  <2>1. lastRun'[j] = stamp
    BY <1>1, <1>2 DEF Known, TypeInv, TypeOK
  <2>2. IsNextTask(t)'
    BY <1>1 DEF IsNextTask
  <2> QED
    BY <1>1, <2>1, <2>2 DEF Picked
<1>7. TickPace(e)'
  BY <1>1, <1>3 DEF Prompt, TickPace
<1>8. ASSUME NEW k \in Keys, Wish(k)' # Never
      PROVE  OnTime(k, e)'
  <2>1. CASE k # j
    <3>1. lastRun'[k] = lastRun[k] /\ misses'[k] = misses[k]
      BY <1>1, <2>1 DEF Known, TypeInv, TypeOK
    <3>2. Wish(k)' = Wish(k) /\ DueFrom(k)' = DueFrom(k) /\ More(k)' = More(k)
      BY <1>1, <3>1, SameDue
    <3>3. WillPick(k) => WillPick(k)'
      BY <1>1, <3>2 DEF WillPick
    <3> QED
      BY <1>1, <1>3, <1>8, <3>2, <3>3, LessKeepsOnTime DEF Prompt
  <2>2. CASE k = j
    <3>1. lastRun'[k] = stamp /\ misses'[k] = 0
      BY <1>1, <1>2, <2>2 DEF Known, TypeInv, TypeOK
    <3>2. now \in Nat /\ stamp \in Nat /\ (tick # NoTick => tick \in Nat)
      BY ClockType DEF ClockTyped
    <3>3. PICK f \in Nat : f = DueFrom(k)' /\ stamp < f
      <4>1. lastRun'[k] # Never
        BY <3>1, <3>2, AbsentAssumption
      <4>2. PICK f \in Nat, w \in Nat \ {0} : f = DueFrom(k)' /\ w = Wish(k)' /\ f >= stamp + w
        BY <1>8, <3>1, <4>1, TypesNext DEF DueTyped
      <4>3. stamp < f
        BY <3>2, <4>2
      <4> QED
        BY <4>2, <4>3
    <3>4. More(k)' = 0
      BY <3>1, BoundsAssumption DEF More
    <3>5. ~WillPick(k)'
      BY <1>1, <3>2, <3>3 DEF WillPick
    <3>6. /\ tick = NoTick => now <= stamp + ScanBound
          /\ tick # NoTick => tick <= stamp + ScanBound + 1 /\ e + 1 <= tick + ScanBound
      BY <1>1, <1>3 DEF Prompt, TickPace
    <3>7. InTime(WillPick(k)', now, tick, f, 0, e)
      BY <1>4, <3>2, <3>3, <3>5, <3>6, PickedInTime
    <3> QED
      BY <1>1, <3>3, <3>4, <3>7 DEF OnTime
  <2> QED
    BY <2>1, <2>2
<1> QED
  BY <1>5, <1>6, <1>7, <1>8 DEF OverdueInv, Prompt

\* A loop that has waited for a slot has waited no longer than a probe takes, and
\* goes on with one task less.
LEMMA StartKeepsPrompt ==
  ASSUME Known, Known', OverdueInv, NEW t \in todo, StartProbe(t)
  PROVE  OverdueInv'
<1>1. /\ pc = "slot" /\ pc' = "task" /\ IsNextTask(t) /\ todo' = todo \ {t}
      /\ UNCHANGED <<now, tick, stamp, clients, client, rows, registered, lastRun, flip, misses>>
  BY DEF StartProbe
<1>2. PICK e \in Int : End(e) /\ Prompt(e)
  BY DEF OverdueInv
<1>3. PICK s \in Nat : Waiting(s) /\ e = s + WalkTime
  BY <1>1, <1>2 DEF End, Time
<1>4. PICK w \in 0..ScanBound : w = WalkTime'
  BY TypesNext DEF ClockTyped
<1>5. WalkTime' = WalkTime - Timeout
  BY <1>1, StartTakesTime DEF Known, TypeInv, ScanInv, OneWalk
<1>6. w = WalkTime - Timeout /\ WalkTime \in Nat /\ now \in Nat /\ Timeout \in Nat
  BY <1>4, <1>5, ClockType, CapAssumption DEF ClockTyped
<1>7. PICK d \in Int : d = now + w
  BY <1>6
<1>8. d <= e
  BY <1>3, <1>6, <1>7 DEF Waiting
<1>9. End(d)' /\ Picked'
  BY <1>1, <1>4, <1>7 DEF End, Picked
<1>10. TickPace(d)'
  BY <1>1, <1>2, <1>8, LessKeepsPace DEF Prompt
<1>11. ASSUME NEW k \in Keys, Wish(k) # Never, WillPick(k)
       PROVE  WillPick(k)'
  <2>1. DueFrom(k)' = DueFrom(k) /\ Wish(k)' = Wish(k)
    BY <1>1, SameDue
  <2>2. CASE k[1] \in clients
    BY <1>1, <1>11, <2>1, <2>2 DEF WillPick
  <2>3. CASE k[1] \notin clients
    <3>1. PICK u \in todo : /\ k[1] = client /\ u.id = k[2] /\ u.enabled
                            /\ EffectiveInterval(u.interval) = Wish(k)
      BY <1>11, <2>3 DEF WillPick
    <3>2. u # t
      <4>1. SUFFICES ASSUME u = t
                     PROVE  FALSE
        OBVIOUS
      <4>2. k = <<client, t.id>>
        BY <3>1, <4>1 DEF Keys
      <4>3. lastRun[k] = stamp
        BY <1>1, <4>2, NextTaskIsOne DEF OverdueInv, Picked, Known, TypeInv
      <4>4. /\ Wish(k) \in Nat \ {0} /\ DueFrom(k) \in Nat /\ DueFrom(k) <= stamp
            /\ lastRun[k] # Never => DueFrom(k) >= lastRun[k] + Wish(k)
        BY <1>11, DueType DEF DueTyped, WillPick, Known, TypeInv
      <4> QED
        BY <4>3, <4>4, ClockType, AbsentAssumption DEF ClockTyped
    <3> QED
      BY <1>1, <1>11, <2>1, <3>1, <3>2 DEF WillPick
  <2> QED
    BY <2>2, <2>3
<1> QED
  BY <1>1, <1>2, <1>8, <1>9, <1>10, <1>11, NearerKeepsPrompt

LEMMA LoopKeepsPrompt == Known /\ Known' /\ OverdueInv /\ Loop => OverdueInv'
<1> SUFFICES ASSUME Known, Known', OverdueInv, Loop
             PROVE  OverdueInv'
  OBVIOUS
<1>1. CASE TakeTick \/ TakeTickBlind \/ TickDone \/ ClientDone
  BY <1>1, TickKeepsPrompt, TickDoneKeepsPrompt, ClientDoneKeepsPrompt
<1>2. ASSUME NEW c \in clients, LoadTasks(c) \/ LoadFails(c)
      PROVE  OverdueInv'
  BY <1>2, LoadKeepsPrompt, FailKeepsPrompt
<1>3. ASSUME NEW t \in todo, SkipTask(t) \/ PickTask(t) \/ StartProbe(t)
      PROVE  OverdueInv'
  BY <1>3, SkipKeepsPrompt, PickKeepsPrompt, StartKeepsPrompt
<1> QED
  BY <1>1, <1>2, <1>3 DEF Loop

\* The goroutines only come to their end.
LEMMA GoroutineKeepsPrompt ==
  ASSUME Known, OverdueInv, NEW p \in running, Goroutine(p)
  PROVE  OverdueInv'
<1>1. /\ UNCHANGED <<now, tick, loopVars, tableVars>>
      /\ \A q \in running' : \E o \in running :
           q.client = o.client /\ q.id = o.id /\ q.start = o.start
  BY GoroutineGoesOn DEF Known
<1>2. PICK e \in Int : End(e) /\ Prompt(e)
  BY DEF OverdueInv
<1>3. \A s : Waiting(s) => Waiting(s)'
  BY <1>1 DEF Waiting
<1>4. End(e)'
  BY <1>1, <1>2, <1>3 DEF End, WalkTime
<1>5. Picked'
  BY <1>1 DEF OverdueInv, Picked, IsNextTask
<1>6. TickPace(e)'
  BY <1>1, <1>2 DEF Prompt, TickPace
<1>7. \A k \in Keys : Wish(k) # Never /\ WillPick(k) => WillPick(k)'
  BY <1>1, SameDue DEF WillPick
<1> QED
  BY <1>1, <1>2, <1>4, <1>5, <1>6, <1>7, NearerKeepsPrompt

\* A tick that is sent during a walk is younger than the walk's own; a key that is due
\* after it has a walk from now on.
LEMMA InTimeAfterTick ==
  ASSUME NEW n \in Nat, NEW q, NEW f \in Nat, NEW m \in Nat, NEW e \in Int, NEW p,
         e <= n + ScanBound, InTime(p, n, q, f, m, e)
  PROVE  InTime(p, n + 1, IF q = NoTick THEN n + 1 ELSE q, f, m, e)
<1>1. ScanBound \in Nat /\ n + 1 # NoTick
  BY BoundsAssumption, AbsentAssumption
<1>2. CASE q = NoTick
  BY <1>1, <1>2 DEF InTime
<1>3. CASE q # NoTick
  BY <1>1, <1>3 DEF InTime
<1> QED
  BY <1>2, <1>3

\* A tick that the loop has been waiting for finds no walk under way.
LEMMA InTimeAtTick ==
  ASSUME NEW n \in Nat, NEW f \in Nat, NEW m \in Nat, NEW e \in Int, NEW p, ~p,
         ScanBound >= 1, InTime(p, n, NoTick, f, m, e)
  PROVE  InTime(p, n + 1, n + 1, f, m, n + 1)
<1>1. ScanBound \in Nat /\ n + 1 # NoTick
  BY BoundsAssumption, AbsentAssumption
<1>2. n <= f + ScanBound + m
  BY DEF InTime
<1> QED
  BY <1>1, <1>2 DEF InTime

LEMMA TimeKeepsPrompt ==
  ASSUME Known, Known', OverdueInv, AdvanceTime
  PROVE  OverdueInv'
<1>1. PICK n \in Nat : n = now + 1
  BY ClockType DEF ClockTyped
<1>2. /\ now' = n /\ tick' = IF tick = NoTick THEN n ELSE tick
      /\ UNCHANGED <<loopVars, tableVars, running>>
      /\ \A p \in running : p.phase = "probing" /\ now < p.start + Timeout
  BY <1>1 DEF AdvanceTime
<1>3. /\ now \in Nat /\ stamp \in Nat /\ stamp <= now /\ ScanBound \in Nat /\ n # NoTick
      /\ tick # NoTick => tick \in Nat
  BY ClockType, AbsentAssumption DEF ClockTyped
<1>4. PICK e \in Int : End(e) /\ Prompt(e)
  BY DEF OverdueInv
<1>5. e <= now + ScanBound
  BY <1>4, EndType DEF OverdueInv
<1>6. ASSUME NEW k \in Keys
      PROVE  /\ Wish(k)' = Wish(k) /\ DueFrom(k)' = DueFrom(k) /\ More(k)' = More(k)
             /\ WillPick(k)' <=> WillPick(k)
  BY <1>2, SameDue DEF WillPick
<1>7. ASSUME NEW k \in Keys, Wish(k)' # Never
      PROVE  OnTime(k, e) /\ DueFrom(k) \in Nat /\ More(k) \in Nat
  BY <1>4, <1>6, <1>7, DueType DEF Prompt, DueTyped, Known, TypeInv
<1>8. CASE pc = "tick" /\ tick = NoTick
  <2>1. clients = {} /\ todo = {} /\ pc' = "tick" /\ tick' = n
    BY <1>2, <1>8 DEF Known, ScanInv, OneWalk
  <2>2. WalkTime' = 0
    BY <1>2, <2>1, NoWalk DEF WalkTime
  <2>3. End(n)' /\ Picked'
    BY <1>2, <2>1, <2>2 DEF End, Picked
  <2>4. TickPace(n)'
    BY <1>2, <1>3, <2>1 DEF TickPace
  <2>5. ASSUME NEW k \in Keys, Wish(k)' # Never
        PROVE  OnTime(k, n)'
    <3>1. ~WillPick(k)
      BY <2>1 DEF WillPick
    <3>2. InTime(WillPick(k), now, NoTick, DueFrom(k), More(k), e)
      BY <1>7, <1>8, <2>5 DEF OnTime
    <3>3. InTime(WillPick(k), n, n, DueFrom(k), More(k), n)
      BY <1>1, <1>3, <1>7, <2>5, <3>1, <3>2, ScanTakesTime, InTimeAtTick
    <3>4. InTime(WillPick(k)', n, n, DueFrom(k), More(k), n)
      BY <1>1, <1>6, <1>7, <2>5, <3>3, InTimeSooner
    <3> QED
      BY <1>2, <1>6, <2>1, <3>4 DEF OnTime
  <2> QED
    BY <2>3, <2>4, <2>5 DEF OverdueInv, Prompt
<1>9. CASE pc = "slot" /\ slots = Cap
  <2>1. PICK s \in Time : Waiting(s) /\ e = s + WalkTime
    BY <1>4, <1>9 DEF End
  <2>2. PICK p \in running : TRUE
    BY <1>9, CapAssumption, FS_EmptySet DEF Known, SlotInv, SlotsCount
  <2>3. /\ p.start \in Nat /\ now < p.start + Timeout /\ p.start <= s /\ s \in Nat
        /\ Timeout \in Nat
    BY <1>2, <2>1, <2>2, CapAssumption DEF Waiting, Known, TypeInv, TypeOK, Probe, Time
  <2>4. s <= n /\ n <= s + Timeout
    BY <1>1, <1>3, <2>1, <2>3 DEF Waiting
  <2>5. Waiting(s)' /\ WalkTime' = WalkTime
    BY <1>2, <2>1, <2>4 DEF Waiting, WalkTime
  <2>6. End(e)' /\ Picked'
    BY <1>2, <1>9, <2>1, <2>5 DEF End, OverdueInv, Picked, IsNextTask
  <2>7. TickPace(e)'
    <3>1. CASE tick = NoTick
      <4>1. now <= stamp + ScanBound
        BY <1>4, <1>9, <3>1 DEF Prompt, TickPace
      <4>2. stamp < n /\ n <= stamp + ScanBound + 1 /\ e + 1 <= n + ScanBound
        BY <1>1, <1>3, <1>5, <4>1
      <4> QED
        BY <1>2, <1>3, <1>9, <3>1, <4>2 DEF TickPace
    <3>2. CASE tick # NoTick
      BY <1>2, <1>4, <1>9, <3>2 DEF Prompt, TickPace
    <3> QED
      BY <3>1, <3>2
  <2>8. ASSUME NEW k \in Keys, Wish(k)' # Never
        PROVE  OnTime(k, e)'
    <3>1. PICK q : q = IF tick = NoTick THEN n ELSE tick
      OBVIOUS
    <3>2. InTime(WillPick(k), n, q, DueFrom(k), More(k), e)
      BY <1>1, <1>3, <1>5, <1>7, <2>8, <3>1, InTimeAfterTick DEF OnTime
    <3>3. tick' = q
      BY <1>2, <3>1
    <3>4. InTime(WillPick(k)', n, q, DueFrom(k), More(k), e)
      BY <1>1, <1>6, <1>7, <2>8, <3>2, InTimeSooner
    <3> QED
      BY <1>2, <1>6, <3>3, <3>4 DEF OnTime
  <2> QED
    BY <2>6, <2>7, <2>8 DEF OverdueInv, Prompt
<1> QED
  BY <1>8, <1>9 DEF AdvanceTime, LoopWaits

\* After a restart everything is due from then on.
LEMMA RestartKeepsPrompt ==
  ASSUME Known, Known', Restart
  PROVE  OverdueInv'
<1>1. /\ pc' = "tick" /\ tick' = NoTick /\ clients' = {} /\ todo' = {} /\ now' = now
      /\ flip' = [k \in Keys |-> now]
  BY DEF Restart
<1>2. now \in Nat /\ ScanBound \in Nat
  BY ClockType DEF ClockTyped
<1>3. WalkTime' = 0
  BY <1>1, FS_EmptySet, BoundsAssumption, CapAssumption DEF WalkTime
<1>4. End(now)' /\ Picked'
  BY <1>1, <1>2, <1>3 DEF End, Picked
<1>5. TickPace(now)'
  BY <1>1 DEF TickPace
<1>6. ASSUME NEW k \in Keys, Wish(k)' # Never
      PROVE  OnTime(k, now)'
  <2>1. flip'[k] = now
    BY <1>1
  <2>2. now <= DueFrom(k)'
    BY <1>2, <1>6, <2>1, TypesNext DEF DueTyped
  <2>3. PICK n \in Nat : n = now
    BY <1>2
  <2>4. OnTime(k, n)'
    BY <1>1, <1>2, <1>6, <2>2, <2>3, FreshIsOnTime
  <2>5. now' = n
    BY <1>1, <2>3
  <2> QED
    BY <2>4, <2>5
<1> QED
  BY <1>1, <1>2, <1>4, <1>5, <1>6 DEF OverdueInv, Prompt

LEMMA OverdueInit == Init => OverdueInv
<1> SUFFICES ASSUME Init
             PROVE  OverdueInv
  OBVIOUS
<1>1. pc = "tick" /\ tick = NoTick /\ clients = {} /\ todo = {} /\ now = 0
  BY DEF Init
<1>2. End(0) /\ Picked
  BY <1>1, NoWalk DEF End, Picked
<1>3. TickPace(0)
  BY <1>1 DEF TickPace
<1>4. ASSUME NEW k \in Keys, Wish(k) # Never
      PROVE  OnTime(k, 0)
  <2>1. DueFrom(k) \in Nat /\ More(k) \in Nat /\ ScanBound \in Nat
    BY <1>4, TypeInit, DueType, BoundsAssumption DEF DueTyped, TypeInv
  <2> QED
    BY <1>1, <2>1, FreshInTime DEF OnTime
<1> QED
  BY <1>2, <1>3, <1>4 DEF OverdueInv, Prompt

LEMMA OverdueStep == Known /\ Known' /\ OverdueInv /\ [Next]_vars => OverdueInv'
<1> SUFFICES ASSUME Known, Known', OverdueInv, [Next]_vars
             PROVE  OverdueInv'
  OBVIOUS
<1>1. CASE Admin
  BY <1>1, AdminKeepsPrompt
<1>2. CASE Loop
  BY <1>2, LoopKeepsPrompt
<1>3. CASE \E p \in running : Goroutine(p)
  BY <1>3, GoroutineKeepsPrompt
<1>4. CASE AdvanceTime
  BY <1>4, TimeKeepsPrompt
<1>5. CASE Restart
  BY <1>5, RestartKeepsPrompt
<1>6. CASE UNCHANGED vars
  <2>1. \A e : End(e)' <=> End(e)
    BY <1>6 DEF End, Waiting, WalkTime
  <2>2. \A e : Prompt(e) => Prompt(e)'
    BY <1>6 DEF Prompt, TickPace, OnTime, WillPick, DueFrom, More, Wish
  <2> QED
    BY <1>6, <2>1, <2>2 DEF OverdueInv, Picked, IsNextTask
<1> QED
  BY <1>1, <1>2, <1>3, <1>4, <1>5, <1>6 DEF Next

\* No task is starved: while it is asked for it is picked within its interval and
\* three walks, and one walk more for every time its client's tasks could not be
\* loaded, however the ticks, the edits, the restarts and the probes of the other
\* tasks fall.
THEOREM OverdueCorrect == Spec => []NotOverdue
<1>1. Known /\ OverdueInv => NotOverdue
  <2> SUFFICES ASSUME Known, OverdueInv, NEW k \in Keys, Wish(k) # Never
               PROVE  now - Later(lastRun[k], flip[k]) <= Wish(k) + (3 + misses[k]) * ScanBound
    BY DEF NotOverdue, Wish
  <2>1. PICK e \in Int : End(e) /\ Prompt(e)
    BY DEF OverdueInv
  <2>2. now <= e /\ now \in Nat /\ ScanBound \in Nat
    BY <2>1, EndType, ClockType DEF OverdueInv, ClockTyped
  <2>3. DueFrom(k) \in Nat /\ More(k) \in Nat
    BY DueType DEF DueTyped, Known, TypeInv
  <2>4. e <= DueFrom(k) + 3 * ScanBound + More(k)
    <3>1. InTime(WillPick(k), now, tick, DueFrom(k), More(k), e)
      BY <2>1 DEF Prompt, OnTime
    <3> QED
      BY <2>2, <2>3, <3>1 DEF InTime
  <2>5. (3 + misses[k]) * ScanBound = 3 * ScanBound + More(k)
    <3>1. misses[k] \in Nat
      BY DEF Known, TypeInv, TypeOK
    <3> QED
      BY <2>2, <3>1 DEF More
  <2>6. /\ DueFrom(k) = Later(lastRun[k], flip[k]) + Wish(k)
        /\ Later(lastRun[k], flip[k]) \in Nat /\ Wish(k) \in Nat
    <3>1. /\ flip[k] \in Nat /\ (lastRun[k] # Never => lastRun[k] \in Nat) /\ Wish(k) \in Nat
      BY DueType DEF DueTyped, Known, TypeInv
    <3> QED
      BY <3>1 DEF DueFrom, Later
  <2> QED
    BY <2>2, <2>3, <2>4, <2>5, <2>6
<1> QED
  BY <1>1, TypeInit, TypeStep, SlotInit, SlotStep, StampsInit, StampsStep, ScanInit, ScanStep,
     OverdueInit, OverdueStep, PTL DEF Spec, Known

(***************************************************************************)
(* The pace.  A task is picked only when its interval has passed since its *)
(* last stamp, so that from the first start since it was last edited on    *)
(* the stamp it was last picked for has grown by its interval with every   *)
(* start.  The stamp of that first start may be older than the edit, by    *)
(* the two walks that TickPace allows, but not than the server.            *)
(***************************************************************************)

\* No stamp that k was picked for since it was edited is older.
From(k) == IF flip[k] - 2 * ScanBound <= up THEN up ELSE flip[k] - 2 * ScanBound

\* The stamp k was last picked for leaves room for n intervals.
RoomFor(k, n) == lastRun[k] # Never /\ n * Wish(k) <= lastRun[k] - From(k)

\* A copy of a task that has been started since its last edit is no older than that
\* edit.
CopiesAreFresh ==
  \A k \in Keys, t \in todo :
    k[1] = client /\ k[2] = t.id /\ Wish(k) # Never /\ paced[k] > 0
      => EffectiveInterval(t.interval) = Wish(k)

OnPace ==
  \A k \in Keys : Wish(k) # Never =>
    /\ paced[k] > 0 => RoomFor(k, paced[k] - 1)
    /\ \A t \in todo : pc = "slot" /\ k[1] = client /\ k[2] = t.id /\ IsNextTask(t)
                         => RoomFor(k, paced[k])

PaceInv == CopiesAreFresh /\ OnPace

\* What the earlier invariants say, and that the walk under way has a stamp that is
\* at most two walks old.
Timed == Known /\ OverdueInv

LEMMA StampIsRecent ==
  ASSUME Timed, pc # "tick"
  PROVE  /\ now \in Nat /\ stamp \in Nat /\ ScanBound \in Nat
         /\ up <= stamp /\ stamp <= now /\ now <= stamp + 2 * ScanBound
<1>1. PICK e \in Int : End(e) /\ TickPace(e)
  BY DEF Timed, OverdueInv, Prompt
<1>2. now <= e
  BY <1>1, EndType DEF Timed, OverdueInv
<1>3. /\ now \in Nat /\ stamp \in Nat /\ ScanBound \in Nat /\ stamp <= now
      /\ tick # NoTick => tick \in Nat
  BY ClockType DEF Timed, ClockTyped
<1>4. up <= stamp
  BY DEF Timed, Known, StampsArePast
<1> QED
  BY <1>1, <1>2, <1>3, <1>4 DEF TickPace

\* Numbers, for the arithmetic below.
LEMMA PaceType ==
  ASSUME Timed, NEW k \in Keys
  PROVE  /\ From(k) \in Int /\ up <= From(k) /\ flip[k] - 2 * ScanBound <= From(k)
         /\ up \in Nat /\ flip[k] \in Nat /\ flip[k] <= now /\ paced[k] \in Nat
         /\ lastRun[k] # Never => lastRun[k] \in Nat /\ lastRun[k] <= now
         /\ Wish(k) # Never => Wish(k) \in Nat \ {0}
<1>1. /\ up \in Nat /\ flip[k] \in Nat /\ ScanBound \in Nat /\ paced[k] \in Nat
      /\ lastRun[k] # Never => lastRun[k] \in Nat
  BY BoundsAssumption DEF Timed, Known, TypeInv, TypeOK, Time
<1>2. flip[k] <= now /\ (lastRun[k] # Never => lastRun[k] <= now)
  BY DEF Timed, Known, ScanInv, Past, StampsArePast
<1>3. Wish(k) # Never => Wish(k) \in Nat \ {0}
  BY DueType DEF Timed, Known, TypeInv, DueTyped
<1> QED
  BY <1>1, <1>2, <1>3 DEF From

\* A walk's stamp leaves room for a first start, of any task.
LEMMA StampLeavesRoom ==
  ASSUME Timed, pc # "tick", NEW k \in Keys
  PROVE  From(k) <= stamp
<1>1. PICK n \in Nat, s \in Nat, b \in Nat, u \in Nat, f \in Nat :
        /\ n = now /\ s = stamp /\ b = ScanBound /\ u = up /\ f = flip[k]
  BY StampIsRecent, PaceType
<1>2. u <= s /\ f <= n /\ n <= s + 2 * b
  BY <1>1, StampIsRecent, PaceType
<1>3. u <= s /\ f - 2 * b <= s
  BY <1>2
<1> QED
  BY <1>1, <1>3 DEF From

\* Both hold after a step as well.
LEMMA PaceTypesNext ==
  /\ (Timed /\ pc # "tick" => \A k \in Keys : From(k) <= stamp)'
  /\ (Timed => \A k \in Keys : From(k) \in Int /\ (Wish(k) # Never => Wish(k) \in Nat))'
<1>1. Timed /\ pc # "tick" => \A k \in Keys : From(k) <= stamp
  BY StampLeavesRoom
<1>2. Timed => \A k \in Keys : From(k) \in Int /\ (Wish(k) # Never => Wish(k) \in Nat)
  BY PaceType
<1> QED
  BY <1>1, <1>2, PTL

LEMMA PaceInit == Init => PaceInv
BY DEF Init, PaceInv, CopiesAreFresh, OnPace

\* A step that leaves the key, the copies and the stamps alone.
LEMMA SameRoom ==
  ASSUME NEW k, UNCHANGED <<rows, registered, lastRun[k], flip[k], up>>
  PROVE  Wish(k)' = Wish(k) /\ From(k)' = From(k) /\ \A n : RoomFor(k, n)' <=> RoomFor(k, n)
BY DEF Wish, Asked, From, RoomFor

LEMMA QuietKeepsPace ==
  ASSUME PaceInv, UNCHANGED <<rows, registered, lastRun, flip, up, paced>>,
         \/ client' = client /\ todo' \subseteq todo /\ pc' # "slot"
         \/ UNCHANGED <<client, todo, pc>>
  PROVE  PaceInv'
<1>1. \A k \in Keys : Wish(k)' = Wish(k) /\ \A n : RoomFor(k, n)' <=> RoomFor(k, n)
  BY SameRoom
<1>2. CopiesAreFresh'
  BY <1>1 DEF PaceInv, CopiesAreFresh
<1>3. OnPace'
  <2>1. CASE pc' # "slot"
    BY <1>1, <2>1 DEF PaceInv, OnPace
  <2>2. CASE UNCHANGED <<client, todo, pc>>
    BY <1>1, <2>2 DEF PaceInv, OnPace, IsNextTask
  <2> QED
    BY <2>1, <2>2
<1> QED
  BY <1>2, <1>3 DEF PaceInv

\* An edit starts the count of what it changes anew.  A task that waits for a slot
\* meanwhile has been picked for the stamp of this walk.
LEMMA EditKeepsPace ==
  ASSUME Timed, Timed', PaceInv, NEW rs, NEW reg, Edit(rs, reg)
  PROVE  PaceInv'
<1>1. /\ rows' = rs /\ registered' = reg
      /\ flip' = [k \in Keys |-> IF Changes(rs, reg, k) THEN now ELSE flip[k]]
      /\ paced' = [k \in Keys |-> IF Changes(rs, reg, k) THEN 0 ELSE paced[k]]
      /\ UNCHANGED <<now, tick, loopVars, up>>
  BY DEF Edit
<1>2. ASSUME NEW k \in Keys, ~Changes(rs, reg, k)
      PROVE  /\ Wish(k)' = Wish(k) /\ paced'[k] = paced[k]
             /\ \A n : RoomFor(k, n)' <=> RoomFor(k, n)
  <2>1. flip'[k] = flip[k] /\ paced'[k] = paced[k]
    BY <1>1, <1>2
  <2>2. Wish(k)' = Wish(k)
    BY <1>1, <1>2, UnchangedIsAskedAlike DEF Wish
  <2> QED
    BY <1>1, <2>1, <2>2 DEF RoomFor, From
<1>3. ASSUME NEW k \in Keys, Changes(rs, reg, k)
      PROVE  paced'[k] = 0
  BY <1>1, <1>3
<1>4. CopiesAreFresh'
  BY <1>1, <1>2, <1>3 DEF PaceInv, CopiesAreFresh
<1>5. ASSUME NEW k \in Keys, Wish(k)' # Never
      PROVE  /\ paced'[k] > 0 => RoomFor(k, paced[k] - 1)'
             /\ \A t \in todo : pc = "slot" /\ k[1] = client /\ k[2] = t.id /\ IsNextTask(t)
                                  => RoomFor(k, paced[k])'
  <2>1. CASE ~Changes(rs, reg, k)
    BY <1>2, <1>5, <2>1 DEF PaceInv, OnPace
  <2>2. CASE Changes(rs, reg, k)
    <3>1. paced'[k] = 0
      BY <1>3, <2>2
    <3>2. ASSUME NEW t \in todo, pc = "slot", k[1] = client, k[2] = t.id, IsNextTask(t)
          PROVE  RoomFor(k, 0)'
      <4>1. PICK u \in todo : IsNextTask(u) /\ lastRun[<<client, u.id>>] = stamp
        BY <3>2 DEF Timed, OverdueInv, Picked
      <4>2. k = <<client, u.id>>
        BY <3>2, <4>1, NextTaskIsOne DEF Timed, Known, TypeInv, Keys
      <4>3. lastRun'[k] = stamp' /\ stamp' \in Nat /\ pc' # "tick"
        BY <1>1, <3>2, <4>1, <4>2, StampIsRecent
      <4>4. From(k)' <= stamp' /\ From(k)' \in Int /\ Wish(k)' \in Nat
        BY <1>5, <4>3, PaceTypesNext
      <4>5. lastRun'[k] # Never
        BY <4>3, AbsentAssumption
      <4>6. 0 * Wish(k)' <= lastRun'[k] - From(k)'
        BY <4>3, <4>4
      <4> QED
        BY <4>5, <4>6 DEF RoomFor
    <3> QED
      BY <3>1, <3>2
  <2> QED
    BY <2>1, <2>2
<1>6. OnPace'
  BY <1>1, <1>5 DEF OnPace, IsNextTask
<1> QED
  BY <1>4, <1>6 DEF PaceInv

\* The copies of a client's tasks are the rows, as they are.
LEMMA LoadKeepsPace ==
  ASSUME Timed, PaceInv, NEW c \in clients, LoadTasks(c)
  PROVE  PaceInv'
<1>1. /\ pc' = "task" /\ client' = c
      /\ todo' = {CopyOf(i) : i \in {j \in Ids : Exists(j) /\ rows[j].client \in {Global, c}}}
      /\ UNCHANGED <<rows, registered, lastRun, flip, up, paced>>
  BY DEF LoadTasks
<1>2. \A k \in Keys : Wish(k)' = Wish(k) /\ \A n : RoomFor(k, n)' <=> RoomFor(k, n)
  BY <1>1, SameRoom
<1>3. ASSUME NEW k \in Keys, NEW t \in todo', k[2] = t.id, Wish(k) # Never
      PROVE  EffectiveInterval(t.interval) = Wish(k)
  <2>1. PICK i \in Ids : t = CopyOf(i)
    BY <1>1
  <2>2. t.id = i /\ t.interval = rows[i].interval
    BY <2>1 DEF CopyOf
  <2> QED
    BY <1>3, <2>2 DEF Wish, Asked
<1>4. CopiesAreFresh'
  BY <1>2, <1>3 DEF CopiesAreFresh
<1>5. OnPace'
  BY <1>1, <1>2 DEF PaceInv, OnPace
<1> QED
  BY <1>4, <1>5 DEF PaceInv

\* A task is picked when its interval has passed, or for the first time since it was
\* edited.
LEMMA PickKeepsPace ==
  ASSUME Timed, PaceInv, NEW t \in todo, PickTask(t)
  PROVE  PaceInv'
<1>1. PICK j \in Keys : j = <<client, t.id>>
  BY DEF PickTask, Timed, Known, TypeInv, TypeOK, Visiting, Keys, Task
<1>2. /\ pc = "task" /\ IsNextTask(t) /\ Due(t)
      /\ lastRun' = [lastRun EXCEPT ![j] = stamp]
      /\ lastRun'[j] = stamp /\ \A k \in Keys : k # j => lastRun'[k] = lastRun[k]
      /\ UNCHANGED <<now, stamp, client, todo, rows, registered, flip, up, paced>>
  BY <1>1 DEF PickTask, Timed, Known, TypeInv, TypeOK
<1>3. ASSUME NEW k \in Keys
      PROVE  Wish(k)' = Wish(k) /\ From(k)' = From(k)
  BY <1>2 DEF Wish, Asked, From
<1>4. CopiesAreFresh'
  BY <1>2, <1>3 DEF PaceInv, CopiesAreFresh
<1>5. ASSUME Wish(j) # Never
      PROVE  /\ RoomFor(j, paced[j])'
             /\ paced[j] > 0 => RoomFor(j, paced[j] - 1)'
  <2>1. PICK n \in Nat, w \in Nat \ {0}, f \in Int, s \in Nat :
          n = paced[j] /\ w = Wish(j) /\ f = From(j) /\ s = stamp
    BY <1>2, <1>5, PaceType, StampIsRecent
  <2>2. f <= s /\ s # Never
    BY <1>2, <2>1, StampLeavesRoom, AbsentAssumption
  <2>3. n * w <= s - f /\ (n > 0 => (n - 1) * w <= s - f)
    <3>1. CASE n = 0
      BY <2>1, <2>2, <3>1
    <3>2. CASE n > 0
      <4>1. lastRun[j] # Never /\ (n - 1) * w <= lastRun[j] - f
        BY <1>5, <2>1, <3>2 DEF PaceInv, OnPace, RoomFor
      <4>2. PICK l \in Nat : l = lastRun[j]
        BY <4>1, PaceType
      <4>3. EffectiveInterval(t.interval) = w
        BY <1>1, <1>5, <2>1, <3>2 DEF PaceInv, CopiesAreFresh
      <4>4. s - l >= w
        BY <1>1, <1>2, <2>1, <4>1, <4>2, <4>3 DEF Due
      <4>5. (n - 1) * w = n * w - w /\ n * w \in Nat
        BY <2>1
      <4> QED
        BY <2>1, <4>1, <4>2, <4>4, <4>5
    <3> QED
      BY <2>1, <3>1, <3>2
  <2>4. Wish(j)' = w /\ From(j)' = f /\ lastRun'[j] = s
    BY <1>2, <1>3, <2>1
  <2>5. \A m \in Nat : m * w <= s - f => RoomFor(j, m)'
    BY <2>2, <2>4 DEF RoomFor
  <2>6. n > 0 => n - 1 \in Nat
    BY <2>1
  <2> QED
    BY <1>2, <2>1, <2>3, <2>5, <2>6
<1>6. ASSUME NEW k \in Keys, k # j
      PROVE  \A n : RoomFor(k, n)' <=> RoomFor(k, n)
  BY <1>2, <1>3, <1>6 DEF RoomFor
<1>7. ASSUME NEW k \in Keys, NEW u \in todo, k[1] = client, k[2] = u.id, IsNextTask(u)
      PROVE  k = j
  BY <1>1, <1>2, <1>7, NextTaskIsOne DEF Timed, Known, TypeInv, Keys
<1>8. OnPace'
  <2> SUFFICES ASSUME NEW k \in Keys, Wish(k) # Never
               PROVE  /\ paced[k] > 0 => RoomFor(k, paced[k] - 1)'
                      /\ \A u \in todo : k[1] = client /\ k[2] = u.id /\ IsNextTask(u)
                                           => RoomFor(k, paced[k])'
    BY <1>2, <1>3 DEF OnPace, IsNextTask
  <2>1. CASE k = j
    BY <1>5, <2>1
  <2>2. CASE k # j
    <3>1. paced[k] > 0 => RoomFor(k, paced[k] - 1)'
      BY <1>2, <1>6, <2>2 DEF PaceInv, OnPace
    <3> QED
      BY <1>7, <2>2, <3>1
  <2> QED
    BY <2>1, <2>2
<1> QED
  BY <1>4, <1>8 DEF PaceInv

\* A task that is started has been picked, with room for one start more, and its copy
\* is dropped.
LEMMA StartKeepsPace ==
  ASSUME Timed, PaceInv, NEW t \in todo, StartProbe(t)
  PROVE  PaceInv'
<1>1. PICK j \in Keys : j = <<client, t.id>>
  BY DEF StartProbe, Timed, Known, TypeInv, TypeOK, Visiting, Keys, Task
<1>2. /\ pc = "slot" /\ pc' = "task" /\ IsNextTask(t) /\ todo' = todo \ {t}
      /\ paced'[j] = paced[j] + 1 /\ \A k \in Keys : k # j => paced'[k] = paced[k]
      /\ UNCHANGED <<client, rows, registered, lastRun, flip, up>>
  BY <1>1 DEF StartProbe, Timed, Known, TypeInv, TypeOK
<1>3. \A k \in Keys : Wish(k)' = Wish(k) /\ \A n : RoomFor(k, n)' <=> RoomFor(k, n)
  BY <1>2, SameRoom
<1>4. \A u \in todo' : u.id # t.id
  BY <1>2 DEF Timed, Known, ScanInv, OneWalk
<1>5. CopiesAreFresh'
  <2> SUFFICES ASSUME NEW k \in Keys, NEW u \in todo', k[1] = client, k[2] = u.id,
                      Wish(k) # Never, paced'[k] > 0
               PROVE  EffectiveInterval(u.interval) = Wish(k)
    BY <1>2, <1>3 DEF CopiesAreFresh
  <2>1. k # j /\ u \in todo
    BY <1>1, <1>2, <1>4
  <2> QED
    BY <1>2, <2>1 DEF PaceInv, CopiesAreFresh
<1>6. ASSUME NEW k \in Keys, Wish(k) # Never, paced'[k] > 0
      PROVE  RoomFor(k, paced'[k] - 1)
  <2>1. CASE k = j
    <3>1. paced'[k] - 1 = paced[k]
      BY <1>2, <2>1 DEF Timed, Known, TypeInv, TypeOK
    <3>2. RoomFor(k, paced[k])
      BY <1>1, <1>2, <1>6, <2>1 DEF PaceInv, OnPace
    <3> QED
      BY <3>1, <3>2
  <2>2. CASE k # j
    BY <1>2, <1>6, <2>2 DEF PaceInv, OnPace
  <2> QED
    BY <2>1, <2>2
<1>7. OnPace'
  BY <1>2, <1>3, <1>6 DEF OnPace
<1> QED
  BY <1>5, <1>7 DEF PaceInv

LEMMA PaceStep == Timed /\ Timed' /\ PaceInv /\ [Next]_vars => PaceInv'
<1> SUFFICES ASSUME Timed, Timed', PaceInv, [Next]_vars
             PROVE  PaceInv'
  OBVIOUS
<1>1. CASE Admin
  <2>1. ASSUME NEW rs, NEW reg, Edit(rs, reg)
        PROVE  PaceInv'
    BY <2>1, EditKeepsPace
  <2> QED
    BY <1>1, <2>1 DEF Admin, UpsertTask, DeleteTask, RegisterNode, DeleteNode
<1>2. CASE Loop
  <2>1. CASE TakeTick \/ TakeTickBlind \/ TickDone \/ ClientDone
    BY <2>1, QuietKeepsPace DEF TakeTick, TakeTickBlind, TickDone, ClientDone
  <2>2. ASSUME NEW c \in clients, LoadTasks(c) \/ LoadFails(c)
        PROVE  PaceInv'
    BY <2>2, LoadKeepsPace, QuietKeepsPace DEF LoadFails
  <2>3. ASSUME NEW t \in todo, SkipTask(t) \/ PickTask(t) \/ StartProbe(t)
        PROVE  PaceInv'
    <3>1. CASE SkipTask(t)
      BY <3>1, QuietKeepsPace DEF SkipTask
    <3> QED
      BY <2>3, <3>1, PickKeepsPace, StartKeepsPace
  <2> QED
    BY <1>2, <2>1, <2>2, <2>3 DEF Loop
<1>3. CASE \E p \in running : Goroutine(p)
  BY <1>3, QuietKeepsPace DEF Goroutine, EndProbe, InsertProbe, InsertFails, ReleaseSlot
<1>4. CASE AdvanceTime
  BY <1>4, QuietKeepsPace DEF AdvanceTime
<1>5. CASE Restart
  BY <1>5 DEF Restart, PaceInv, CopiesAreFresh, OnPace
<1>6. CASE UNCHANGED vars
  BY <1>6, QuietKeepsPace
<1> QED
  BY <1>1, <1>2, <1>3, <1>4, <1>5, <1>6 DEF Next

\* Late ticks, stalls of the loop, edits and restarts never add up to extra probes:
\* the starts of a task since its last edit leave room for its own interval between
\* them in the time since the server came up, and since the edit but for two walks.
THEOREM PaceCorrect == Spec => []NotTooOften
<1>1. Timed /\ PaceInv => NotTooOften
  <2> SUFFICES ASSUME Timed, PaceInv, NEW k \in Keys, Wish(k) # Never, paced[k] > 0
               PROVE  /\ (paced[k] - 1) * Wish(k) <= now - up
                      /\ (paced[k] - 1) * Wish(k) <= now - flip[k] + 2 * ScanBound
    BY DEF NotTooOften, Wish
  <2>1. lastRun[k] # Never /\ (paced[k] - 1) * Wish(k) <= lastRun[k] - From(k)
    BY DEF PaceInv, OnPace, RoomFor
  <2>2. PICK n \in Nat, w \in Nat, l \in Nat, f \in Int, u \in Nat, g \in Nat :
          /\ n = paced[k] - 1 /\ w = Wish(k) /\ l = lastRun[k] /\ f = From(k) /\ u = up
          /\ g = flip[k]
    <3>1. paced[k] \in Nat /\ paced[k] - 1 \in Nat
      BY PaceType
    <3> QED
      BY <2>1, <3>1, PaceType
  <2>3. /\ now \in Nat /\ ScanBound \in Nat
        /\ l <= now /\ u <= f /\ g - 2 * ScanBound <= f /\ n * w <= l - f
    BY <2>1, <2>2, PaceType, ClockType DEF Timed, ClockTyped
  <2>4. n * w \in Nat
    BY <2>2
  <2>5. n * w <= now - u /\ n * w <= now - g + 2 * ScanBound
    BY <2>2, <2>3, <2>4
  <2> QED
    BY <2>2, <2>5
<1>2. Timed /\ Timed' /\ PaceInv /\ [Next]_vars => PaceInv'
  BY PaceStep
<1> QED
  BY <1>1, <1>2, TypeInit, TypeStep, SlotInit, SlotStep, StampsInit, StampsStep,
     ScanInit, ScanStep, OverdueInit, OverdueStep, PaceInit, PTL DEF Spec, Known, Timed

(***************************************************************************)
(* The pool of workers.  A goroutine is the pool's job whatever phase it   *)
(* is in, since its work and its number stay: only a start, the insert,    *)
(* the release and a restart are seen from outside.                        *)
(***************************************************************************)

Jobs == {JobOf(p) : p \in running}

LEMMA PoolInit == Init => Pool!Init
BY CapAssumption DEF Init, Pool!Init

LEMMA MoveKeepsJobs ==
  ASSUME TypeOK, NEW p \in running, NEW phase, running' = MoveTo(p, phase)
  PROVE  Jobs' = Jobs
<1> DEFINE q == [p EXCEPT !.phase = phase]
<1>1. p \in Probe
  BY DEF TypeOK
<1>2. JobOf(q) = JobOf(p)
  BY <1>1 DEF JobOf, Probe
<1>3. running' = (running \ {p}) \cup {q}
  BY DEF MoveTo
<1> HIDE DEF q
<1> QED
  BY <1>2, <1>3 DEF Jobs

LEMMA StartIsPoolStart ==
  ASSUME TypeInv, SlotInv, NEW t \in todo, StartProbe(t)
  PROVE  \E job \in Jobs' : Pool!Start(job)
<1> DEFINE k == <<client, t.id>>
           p == [client |-> client, id |-> t.id, name |-> t.name, start |-> now,
                 no |-> starts[k] + 1, phase |-> "probing"]
<1>1. running' = running \cup {p} /\ slots' = slots + 1 /\ slots < Cap /\ records' = records
  BY DEF StartProbe
<1>2. k \in Keys /\ starts[k] \in Nat
  BY DEF StartProbe, TypeInv, TypeOK, Visiting, Keys, Task
<1>3. JobOf(p) \notin Jobs
  <2> SUFFICES ASSUME NEW q \in running, JobOf(q) = JobOf(p)
               PROVE  FALSE
    BY DEF Jobs
  <2>1. q.client = client /\ q.id = t.id /\ q.no = starts[k] + 1
    BY DEF JobOf
  <2>2. q.no \in Nat /\ q.no <= starts[k]
    BY <2>1 DEF SlotInv, StartsNumbered, TypeInv, TypeOK, Probe
  <2> QED
    BY <1>2, <2>1, <2>2
<1> HIDE DEF p
<1>4. Jobs' = Jobs \cup {JobOf(p)} /\ JobOf(p) \in Jobs'
  BY <1>1 DEF Jobs
<1>5. Cap - slots > 0 /\ Cap - slots' = (Cap - slots) - 1
  BY <1>1, CapAssumption DEF TypeInv, TypeOK
<1>6. Pool!Start(JobOf(p))
  BY <1>1, <1>3, <1>4, <1>5 DEF Pool!Start, Jobs
<1> QED
  BY <1>4, <1>6

LEMMA ReleaseIsPoolFinish ==
  ASSUME TypeInv, SlotInv, NEW p \in running, ReleaseSlot(p)
  PROVE  \E job \in Jobs : Pool!Finish(job)
<1>1. running' = running \ {p} /\ slots' = slots - 1 /\ records' = records
  BY DEF ReleaseSlot
<1>2. ASSUME NEW q \in running, JobOf(q) = JobOf(p)
      PROVE  q = p
  BY <1>2 DEF JobOf, SlotInv, StartsNumbered
<1>3. Jobs' = Jobs \ {JobOf(p)} /\ JobOf(p) \in Jobs
  BY <1>1, <1>2 DEF Jobs
<1>4. Cap - slots' = (Cap - slots) + 1
  BY <1>1, CapAssumption DEF TypeInv, TypeOK
<1>5. Pool!Finish(JobOf(p))
  BY <1>1, <1>3, <1>4 DEF Pool!Finish, Jobs
<1> QED
  BY <1>3, <1>5

LEMMA PoolStep == TypeInv /\ SlotInv /\ [Next]_vars => [Pool!Next]_(Pool!vars)
<1> SUFFICES ASSUME TypeInv, SlotInv, [Next]_vars
             PROVE  [Pool!Next]_(Pool!vars)
  OBVIOUS
<1>1. ASSUME Jobs' = Jobs, UNCHANGED <<slots, records>>
      PROVE  UNCHANGED Pool!vars
  BY <1>1 DEF Pool!vars, Jobs
<1>2. ASSUME UNCHANGED <<running, slots, records>>
      PROVE  UNCHANGED Pool!vars
  BY <1>1, <1>2 DEF Jobs
<1>3. CASE Admin
  BY <1>2, <1>3, AdminFrame
<1>4. CASE Loop
  <2>1. ASSUME NEW t \in todo, StartProbe(t)
        PROVE  Pool!Next
    BY <2>1, StartIsPoolStart DEF Pool!Next, Jobs
  <2> QED
    BY <1>2, <1>4, <2>1 DEF Loop, TakeTick, TakeTickBlind, TickDone, ClientDone, LoadTasks, LoadFails,
                            SkipTask, PickTask
<1>5. ASSUME NEW p \in running, Goroutine(p)
      PROVE  [Pool!Next]_(Pool!vars)
  <2>1. CASE EndProbe(p) \/ InsertFails(p)
    BY <1>1, <2>1, MoveKeepsJobs DEF EndProbe, InsertFails, TypeInv
  <2>2. CASE InsertProbe(p)
    <3>1. Jobs' = Jobs /\ slots' = slots /\ records' = records \cup {JobOf(p)[1]}
      BY <2>2, MoveKeepsJobs DEF InsertProbe, TypeInv, JobOf
    <3>2. Pool!Deliver(JobOf(p))
      BY <3>1 DEF Pool!Deliver, Jobs
    <3> QED
      BY <3>2 DEF Pool!Next
  <2>3. CASE ReleaseSlot(p)
    BY <2>3, ReleaseIsPoolFinish DEF Pool!Next, Jobs
  <2> QED
    BY <1>5, <2>1, <2>2, <2>3 DEF Goroutine
<1>6. CASE AdvanceTime
  BY <1>2, <1>6 DEF AdvanceTime
<1>7. CASE Restart
  BY <1>7, CapAssumption DEF Restart, Pool!Next, Pool!Stop
<1>8. CASE UNCHANGED vars
  BY <1>2, <1>8
<1> QED
  BY <1>3, <1>4, <1>5, <1>6, <1>7, <1>8 DEF Next

\* The scheduler implements a bounded pool of workers, for any capacity and any
\* order of ticks, edits, failures and restarts.
THEOREM PoolCorrect == Spec => ImplementsWorkerPool
<1> QED
  BY PoolInit, PoolStep, TypeInit, TypeStep, SlotInit, SlotStep, PTL
     DEF Spec, ImplementsWorkerPool, Pool!Spec
=============================================================================
