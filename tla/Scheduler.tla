------------------------------- MODULE Scheduler -------------------------------
(***************************************************************************)
(* The probe scheduler: a loop that on every tick of a ticker walks the    *)
(* clients and their tasks, and starts one goroutine for every task that   *)
(* is due.  A semaphore bounds the goroutines, and the loop itself blocks  *)
(* when it is full.  Meanwhile the admin edits tasks and nodes.            *)
(*                                                                         *)
(* Time is counted in ticks.  Statements take no time; a probe takes       *)
(* between 0 and Timeout, and only a loop that waits (for a tick or for a  *)
(* slot) lets time pass.  The ticker's channel holds one tick: a tick that *)
(* finds it full is dropped, and the one in it keeps the time it was sent. *)
(***************************************************************************)
EXTENDS Integers, FiniteSets

CONSTANTS
  Nodes,       \* node uuids, as numbers in the order the database sorts them
  Extra,       \* the client given by -probe-client, if any
  Global,      \* the client '*' of a task for every node
  Names, Intervals,
  DefaultInterval,
  NoRow, Never, NoTick,
  Cap,         \* slots of the semaphore (32)
  Timeout,     \* of one probe (5 seconds)
  InitRows,    \* the tasks in the database when the server starts
  InitNodes,   \* and the nodes
  MaxTime,     \* bound: the clock
  MaxId,       \* bound: rows ever inserted
  MaxEvents,   \* bound: admin commands, registrations, failed statements and restarts
  ScanBound    \* how long a loaded task list may be in use

Ids == 1..MaxId

Keys == Nodes \X Ids

Time == 0..MaxTime

Row == [client: Nodes \cup {Global}, name: Names, interval: Int, enabled: BOOLEAN]

ASSUME NodesAssumption ==
  Nodes \subseteq Int /\ Global \notin Nodes /\ Extra \subseteq Nodes /\ InitNodes \subseteq Nodes
ASSUME ExtraAssumption == \A c, d \in Extra : c = d
ASSUME CapAssumption == Cap \in Nat \ {0} /\ Timeout \in Nat \ {0}
ASSUME IntervalAssumption == Intervals \subseteq Int /\ DefaultInterval \in Nat \ {0}
ASSUME BoundsAssumption ==
  {MaxTime, MaxId, MaxEvents, ScanBound} \subseteq Nat
\* Every task of every client may have to wait for a slot, for as long as a
\* probe takes.
ASSUME ScanAssumption ==
  IsFiniteSet(Nodes) /\ ScanBound >= Timeout * (Cardinality(Nodes) * MaxId)
ASSUME AbsentAssumption == NoRow \notin Row /\ {Never, NoTick} \cap Int = {}
ASSUME InitRowsAssumption ==
  /\ InitRows \in [Ids -> Row \cup {NoRow}]
  /\ \A i \in Ids : InitRows[i] # NoRow => \A j \in 1..i : InitRows[j] # NoRow

VARIABLES
  now,         \* the clock
  tick,        \* the tick in the ticker's channel, or NoTick
  rows,        \* probe_tasks by id
  nextId,      \* the next AUTOINCREMENT id
  registered,  \* the uuids in the nodes table
  pc,          \* the loop: "tick", "client", "task" or "slot"
  stamp,       \* the time of the tick the loop is working on
  clients,     \* clients the loop has still to visit
  appended,    \* the extra client, when it is not in the list of this walk
  client,      \* the one it is visiting
  todo,        \* the copies of its rows the loop has still to look at
  lastRun,     \* lastRun[k]: the stamp k was last started for, or Never
  slots,       \* elements in the semaphore's channel
  running,     \* the goroutines
  records,     \* probe_records
  events,
  starts,      \* history: starts[k]: how often k was started since the restart
  flip,        \* history: flip[k]: when k's task or client was last edited
  misses,      \* history: misses[k]: how often k's tasks, or its client, could not
               \* be loaded since then, or since k was picked
  up,          \* history: when the server came up
  paced        \* history: paced[k]: how often k was started since flip[k]

vars == <<now, tick, rows, nextId, registered, pc, stamp, clients, appended, client, todo,
          lastRun, slots, running, records, events, starts, flip, misses, up, paced>>

walkVars == <<clients, appended>>
loopVars == <<pc, stamp, walkVars, client, todo, lastRun>>
tableVars == <<rows, nextId, registered, flip, misses, up, paced>>
probeVars == <<slots, running, records, starts>>

Task == [id: Ids, name: Names, interval: Int, enabled: BOOLEAN]

Probe == [client: Nodes, id: Ids, name: Names, start: Time, no: Nat,
          phase: {"probing", "inserting", "returning"}]

Record == [client: Nodes, id: Ids, name: Names]

TypeOK ==
  /\ now \in Time
  /\ tick \in Time \cup {NoTick}
  /\ rows \in [Ids -> Row \cup {NoRow}]
  /\ nextId \in 1..(MaxId + 1)
  /\ registered \subseteq Nodes
  /\ pc \in {"tick", "client", "task", "slot"}
  /\ stamp \in Time
  /\ clients \subseteq Nodes
  /\ appended \subseteq Extra
  /\ client \in Nodes \cup {Global}
  /\ todo \subseteq Task
  /\ lastRun \in [Keys -> Time \cup {Never}]
  /\ slots \in Nat
  /\ running \subseteq Probe
  /\ records \subseteq Record
  /\ starts \in [Keys -> Nat]
  /\ flip \in [Keys -> Time]
  /\ misses \in [Keys -> Nat]
  /\ up \in Time
  /\ paced \in [Keys -> Nat]

Exists(i) == rows[i] # NoRow

Init ==
  /\ now = 0
  /\ tick = NoTick
  /\ rows = InitRows
  /\ nextId = 1 + Cardinality({i \in Ids : InitRows[i] # NoRow})
  /\ registered = InitNodes
  /\ pc = "tick"
  /\ stamp = 0
  /\ clients = {}
  /\ appended = {}
  /\ client = Global
  /\ todo = {}
  /\ lastRun = [k \in Keys |-> Never]
  /\ slots = 0
  /\ running = {}
  /\ records = {}
  /\ events = 0
  /\ starts = [k \in Keys |-> 0]
  /\ flip = [k \in Keys |-> 0]
  /\ misses = [k \in Keys |-> 0]
  /\ up = 0
  /\ paced = [k \in Keys |-> 0]

(***************************************************************************)
(* The tables, and what they ask of the scheduler.                         *)
(***************************************************************************)

EffectiveInterval(i) == IF i <= 0 THEN DefaultInterval ELSE i

\* ProbeClients: the clients of tasks, and the nodes.
ProbeClients(rs, reg) ==
  ({rs[i].client : i \in {j \in Ids : rs[j] # NoRow}} \ {Global}) \cup reg

\* With the one given on the command line: the clients that should be visited.
ClientsOf(rs, reg) == ProbeClients(rs, reg) \cup Extra

\* What the tables rs and reg ask for under key k: its interval, or Never.
Asked(rs, reg, k) ==
  IF /\ rs[k[2]] # NoRow
     /\ rs[k[2]].client \in {Global, k[1]}
     /\ rs[k[2]].enabled
     /\ k[1] \in ClientsOf(rs, reg)
  THEN EffectiveInterval(rs[k[2]].interval)
  ELSE Never

\* Would rs and reg change the task of k, or whether its client is visited?
Changes(rs, reg, k) ==
  \/ rs[k[2]] # rows[k[2]]
  \/ (k[1] \in ClientsOf(rs, reg)) # (k[1] \in ClientsOf(rows, registered))

RowOf(c, m) == {i \in Ids : Exists(i) /\ rows[i].client = c /\ rows[i].name = m}

\* An edit of the tables, and its entry in the history.
Edit(rs, reg) ==
  /\ events < MaxEvents
  /\ events' = events + 1
  /\ rows' = rs
  /\ registered' = reg
  /\ flip' = [k \in Keys |-> IF Changes(rs, reg, k) THEN now ELSE flip[k]]
  /\ misses' = [k \in Keys |-> IF Changes(rs, reg, k) THEN 0 ELSE misses[k]]
  /\ paced' = [k \in Keys |-> IF Changes(rs, reg, k) THEN 0 ELSE paced[k]]
  /\ UNCHANGED <<now, tick, loopVars, probeVars, up>>

LargestIdPlus1 ==   \* mutant: a rowid without AUTOINCREMENT
  CHOOSE i \in 1..(MaxId + 1) : /\ i > 1 => Exists(i - 1)
                                /\ \A j \in Ids : j >= i => ~Exists(j)

NewId == nextId   \* AUTOINCREMENT

UpsertTask(c, m, i, e) ==
  LET new == RowOf(c, m) = {}
      row == [client |-> c, name |-> m, interval |-> EffectiveInterval(i), enabled |-> e]
  IN \E id \in Ids \cap (IF new THEN {NewId} ELSE RowOf(c, m)) :
       /\ Edit([rows EXCEPT ![id] = row], registered)
       /\ nextId' = IF new THEN NewId + 1 ELSE nextId

DeleteTask(i) ==
  /\ Exists(i)
  /\ Edit([rows EXCEPT ![i] = NoRow], registered)
  /\ UNCHANGED nextId

\* A report of n inserts its row in nodes; AdminDeleteNode removes it.
RegisterNode(n) ==
  /\ n \notin registered
  /\ Edit(rows, registered \cup {n})
  /\ UNCHANGED nextId

DeleteNode(n) ==
  /\ n \in registered
  /\ Edit(rows, registered \ {n})
  /\ UNCHANGED nextId

(***************************************************************************)
(* The loop.                                                               *)
(***************************************************************************)

TakeTickOrNot ==   \* mutant: the loop does not wait for the ticker
  /\ pc = "tick"
  /\ tick' = NoTick
  /\ stamp' = tick
  /\ clients' = ClientsOf(rows, registered)
  /\ appended' = Extra \ ProbeClients(rows, registered)
  /\ pc' = "client"
  /\ UNCHANGED <<now, client, todo, lastRun, tableVars, probeVars, events>>

TakeTick ==
  /\ pc = "tick"
  /\ tick # NoTick
  /\ tick' = NoTick
  /\ stamp' = tick
  /\ clients' = ClientsOf(rows, registered)
  /\ appended' = Extra \ ProbeClients(rows, registered)
  /\ pc' = "client"
  /\ UNCHANGED <<now, client, todo, lastRun, tableVars, probeVars, events>>

\* The list cannot be loaded: the walk is of the extra client alone.
TakeTickBlind ==
  /\ pc = "tick"
  /\ tick # NoTick
  /\ events < MaxEvents
  /\ events' = events + 1
  /\ tick' = NoTick
  /\ stamp' = tick
  /\ clients' = Extra
  /\ appended' = Extra
  /\ misses' = [k \in Keys |-> IF k[1] \in Extra THEN misses[k] ELSE misses[k] + 1]
  /\ pc' = "client"
  /\ UNCHANGED <<now, client, todo, lastRun, rows, nextId, registered, flip, up, paced,
                 probeVars>>

\* The list is sorted; a client that is not in it comes after it.
IsNextClient(c) ==
  /\ c \in clients
  /\ \A d \in clients \ appended : c \notin appended /\ c <= d

CopyOf(i) == [id |-> i, name |-> rows[i].name, interval |-> rows[i].interval,
              enabled |-> rows[i].enabled]

\* ProbeTasks(client): the client's rows and the global ones.
LoadTasks(c) ==
  /\ pc = "client"
  /\ IsNextClient(c)
  /\ clients' = clients \ {c}
  /\ client' = c
  /\ todo' = {CopyOf(i) : i \in {j \in Ids : Exists(j) /\ rows[j].client \in {Global, c}}}
  /\ pc' = "task"
  /\ UNCHANGED <<now, tick, stamp, appended, lastRun, tableVars, probeVars, events>>

LoadFails(c) ==
  /\ pc = "client"
  /\ IsNextClient(c)
  /\ events < MaxEvents
  /\ events' = events + 1
  /\ clients' = clients \ {c}
  /\ misses' = [k \in Keys |-> IF k[1] = c THEN misses[k] + 1 ELSE misses[k]]
  /\ UNCHANGED <<now, tick, pc, stamp, appended, client, todo, lastRun, rows, nextId,
                 registered, flip, up, paced, probeVars>>

TickDone ==
  /\ pc = "client"
  /\ clients = {}
  /\ pc' = "tick"
  /\ UNCHANGED <<now, tick, stamp, walkVars, client, todo, lastRun, tableVars, probeVars, events>>

ClientDone ==
  /\ pc = "task"
  /\ todo = {}
  /\ pc' = "client"
  /\ UNCHANGED <<now, tick, stamp, walkVars, client, todo, lastRun, tableVars, probeVars, events>>

IsNextTask(t) == t \in todo /\ \A u \in todo : t.id <= u.id

IntervalIsOver(t) ==   \* mutant: enabled is not looked at
  LET last == lastRun[<<client, t.id>>]
  IN last # Never => stamp - last >= EffectiveInterval(t.interval)

DueByDefault(t) ==   \* mutant: the task's own interval is not looked at
  LET last == lastRun[<<client, t.id>>]
  IN /\ t.enabled
     /\ last # Never => stamp - last >= DefaultInterval

Due(t) ==
  LET last == lastRun[<<client, t.id>>]
  IN /\ t.enabled
     /\ last # Never => stamp - last >= EffectiveInterval(t.interval)

SkipTask(t) ==
  /\ pc = "task"
  /\ IsNextTask(t)
  /\ ~Due(t)
  /\ todo' = todo \ {t}
  /\ UNCHANGED <<now, tick, pc, stamp, walkVars, client, lastRun, tableVars, probeVars, events>>

\* The task is noted as run before there is a slot for it.
PickTask(t) ==
  /\ pc = "task"
  /\ IsNextTask(t)
  /\ Due(t)
  /\ lastRun' = [lastRun EXCEPT ![<<client, t.id>>] = stamp]
  /\ misses' = [misses EXCEPT ![<<client, t.id>>] = 0]
  /\ pc' = "slot"
  /\ UNCHANGED <<now, tick, stamp, walkVars, client, todo, rows, nextId, registered, flip,
                 up, paced, probeVars, events>>

StartProbe(t) ==
  /\ pc = "slot"
  /\ IsNextTask(t)
  /\ slots < Cap
  /\ slots' = slots + 1
  /\ LET k == <<client, t.id>>
     IN /\ starts' = [starts EXCEPT ![k] = @ + 1]
        /\ paced' = [paced EXCEPT ![k] = @ + 1]
        /\ running' = running \cup
             {[client |-> client, id |-> t.id, name |-> t.name, start |-> now,
               no |-> starts[k] + 1, phase |-> "probing"]}
  /\ todo' = todo \ {t}
  /\ pc' = "task"
  /\ UNCHANGED <<now, tick, stamp, walkVars, client, lastRun, rows, nextId, registered, flip,
                 misses, up, records, events>>

(***************************************************************************)
(* A goroutine: probe, insert the record, give the slot back.              *)
(***************************************************************************)

MoveTo(p, phase) == (running \ {p}) \cup {[p EXCEPT !.phase = phase]}

EndProbeAndSlot(p) ==   \* mutant: the slot is given back before the insert
  /\ p.phase = "probing"
  /\ slots > 0
  /\ slots' = slots - 1
  /\ running' = MoveTo(p, "inserting")
  /\ UNCHANGED <<now, tick, loopVars, tableVars, records, starts, events>>

EndProbe(p) ==
  /\ p.phase = "probing"
  /\ running' = MoveTo(p, "inserting")
  /\ UNCHANGED <<now, tick, loopVars, tableVars, slots, records, starts, events>>

InsertForClient(p) ==   \* mutant: the client is the loop's variable
  /\ p.phase = "inserting"
  /\ records' = records \cup {[client |-> client, id |-> p.id, name |-> p.name]}
  /\ running' = MoveTo(p, "returning")
  /\ UNCHANGED <<now, tick, loopVars, tableVars, slots, starts, events>>

InsertProbe(p) ==
  /\ p.phase = "inserting"
  /\ records' = records \cup {[client |-> p.client, id |-> p.id, name |-> p.name]}
  /\ running' = MoveTo(p, "returning")
  /\ UNCHANGED <<now, tick, loopVars, tableVars, slots, starts, events>>

\* The insert failed; the goroutine only logs it.
InsertFails(p) ==
  /\ p.phase = "inserting"
  /\ events < MaxEvents
  /\ events' = events + 1
  /\ running' = MoveTo(p, "returning")
  /\ UNCHANGED <<now, tick, loopVars, tableVars, slots, records, starts>>

LoseSlot(p) ==   \* mutant: no deferred receive from the semaphore
  /\ p.phase = "returning"
  /\ running' = running \ {p}
  /\ UNCHANGED <<now, tick, loopVars, tableVars, slots, records, starts, events>>

ReleaseSlot(p) ==
  /\ p.phase = "returning"
  /\ slots > 0
  /\ slots' = slots - 1
  /\ running' = running \ {p}
  /\ UNCHANGED <<now, tick, loopVars, tableVars, records, starts, events>>

(***************************************************************************)
(* Time, and the end of the process.                                       *)
(***************************************************************************)

LoopWaits ==
  \/ pc = "tick" /\ tick = NoTick
  \/ pc = "slot" /\ slots = Cap

AdvanceTime ==
  /\ now < MaxTime
  /\ LoopWaits
  /\ \A p \in running : p.phase = "probing" /\ now < p.start + Timeout
  /\ now' = now + 1
  /\ tick' = IF tick = NoTick THEN now' ELSE tick
  /\ UNCHANGED <<loopVars, tableVars, probeVars, events>>

\* The server stops anywhere and starts again: the database stays.
Restart ==
  /\ events < MaxEvents
  /\ events' = events + 1
  /\ tick' = NoTick
  /\ pc' = "tick"
  /\ clients' = {}
  /\ appended' = {}
  /\ todo' = {}
  /\ lastRun' = [k \in Keys |-> Never]
  /\ slots' = 0
  /\ running' = {}
  /\ starts' = [k \in Keys |-> 0]
  /\ flip' = [k \in Keys |-> now]
  /\ misses' = [k \in Keys |-> 0]
  /\ up' = now
  /\ paced' = [k \in Keys |-> 0]
  /\ UNCHANGED <<now, rows, nextId, registered, stamp, client, records>>

Admin ==
  \/ \E c \in Nodes \cup {Global}, m \in Names, i \in Intervals, e \in BOOLEAN :
       UpsertTask(c, m, i, e)
  \/ \E i \in Ids : DeleteTask(i)
  \/ \E n \in Nodes : RegisterNode(n) \/ DeleteNode(n)

Loop ==
  \/ TakeTick \/ TakeTickBlind \/ TickDone \/ ClientDone
  \/ \E c \in clients : LoadTasks(c) \/ LoadFails(c)
  \/ \E t \in todo : SkipTask(t) \/ PickTask(t) \/ StartProbe(t)

Goroutine(p) == EndProbe(p) \/ InsertProbe(p) \/ InsertFails(p) \/ ReleaseSlot(p)

Next ==
  \/ Admin
  \/ Loop
  \/ \E p \in running : Goroutine(p)
  \/ AdvanceTime
  \/ Restart

Spec == Init /\ [][Next]_vars

(***************************************************************************)
(* Properties.                                                             *)
(***************************************************************************)

\* Never more than Cap goroutines at work, the ones included that have probed
\* and wait for the database (the semaphore is held until run returns).
AtMostCapAtWork == Cardinality(running) <= Cap

\* A record of a task is found under the id of that task only: no edit, restart
\* or late answer makes the history of one task appear under another one.
RecordsBelongToTask ==
  \A r \in records : Exists(r.id) =>
    /\ rows[r.id].name = r.name
    /\ rows[r.id].client \in {Global, r.client}

\* Late ticks, stalls, edits and walks that see no client never add up to extra
\* probes: in the time since the server came up there is room for the task's own
\* interval between any two starts since its last edit, and in the time since
\* that edit too, but for the two walks by which the stamp of a start may be older.
NotTooOften ==
  \A k \in Keys :
    LET i == Asked(rows, registered, k)
    IN i # Never /\ paced[k] > 0 =>
         /\ (paced[k] - 1) * i <= now - up
         /\ (paced[k] - 1) * i <= now - flip[k] + 2 * ScanBound

Later(s, t) == IF s = Never \/ s < t THEN t ELSE s

\* A task that should run is picked within its interval and three walks of the
\* pick before (or of the edit or the restart that asked for it): the walk under
\* way, the one whose tick was sent during it and the one after; every time its
\* client's tasks, or the list of the clients, could not be loaded costs a walk
\* more.  No task is starved by the
\* others, and no slot is lost for good.
NotOverdue ==
  \A k \in Keys :
    LET i == Asked(rows, registered, k)
    IN i # Never => now - Later(lastRun[k], flip[k]) <= i + (3 + misses[k]) * ScanBound

\* A probe that runs for a task which is disabled, deleted or whose client is
\* gone was started at most ScanBound after that: the clients and the copies of
\* tasks the loop works on are dropped within one walk.
DisabledIsLeftAlone ==
  \A p \in running :
    LET k == <<p.client, p.id>>
    IN Asked(rows, registered, k) = Never => p.start <= flip[k] + ScanBound

(***************************************************************************)
(* The pool of workers that the semaphore and the goroutines implement.    *)
(***************************************************************************)

JobOf(p) == <<[client |-> p.client, id |-> p.id, name |-> p.name], p.no>>

Pool == INSTANCE WorkerPool WITH
  Capacity <- Cap,
  active   <- {JobOf(p) : p \in running},
  free     <- Cap - slots,
  results  <- records

\* Every step of the scheduler, of its goroutines, of the admin and of the clock
\* is one of a bounded pool of workers, or is none of its business.
ImplementsWorkerPool == Pool!Spec
===============================================================================
