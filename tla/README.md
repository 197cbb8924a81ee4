# Formal verification of sounding

sounding is a server monitor: agents report the state of their nodes, a server
keeps the reports in SQLite, probes targets on behalf of the nodes, raises
alarms, and serves a dashboard and an admin page. This directory holds TLA+
models of its core, the TLC configurations that check them, and proofs for
TLAPS.

Every definition is translated from the code under `src/`; `PROJECT.json` maps
each of them to its lines, and lists the hazards of the code with the
properties that cover them.

    tlc -workers 2 -config MCProbeTasks.cfg MCProbeTasks      # one run
    tlapm ProbeTasks_proofs.tla                               # one proof

Contents: [inventory](#inventory) · [modules](#modules) · [runs](#runs) ·
[abstract specifications](#abstract-specifications) ·
[fairness and time](#fairness-and-time) · [proofs](#proofs) ·
[where code and documentation disagree](#where-code-and-documentation-disagree) ·
[not modelled](#what-is-not-modelled) · [plan](#plan)

## Inventory

| Component | Code | State it keeps | Operations | Correct when |
|---|---|---|---|---|
| Probe tasks | `store/adapters.go`, `api/agent.go`, `api/admin.go`, `cmd/agent/main.go` | table `probe_tasks` (AUTOINCREMENT id, UNIQUE(client, name)); in each agent the probes it fetched | admin upsert and delete; `/agent/config`; the agent's fetch, merge with `agent.yml` and report; the report handler's upserts | the admin's settings survive the echo of the agents; declared probes are registered; nothing moves between nodes or tasks |
| Probe scheduler | `probe/scheduler.go` | `lastRun`, the semaphore, goroutines; table `probe_records` | tick, walk over clients and tasks, start, insert, release | bounded, neither too often nor starved; records under the right task; what is disabled is left alone |
| Node registry and history | `store/adapters.go`, `store/retention.go`, `api/agent.go` | `nodes`, `status_history`, `probe_records` | report (upsert node, insert status), admin upsert, delete (two statements), purge (two statements) | operating fields stay the admin's, hardware is not wiped, no orphans, nothing recent is lost |
| Alert rules | `alert/alert.go`, `store/alerts.go`, `cmd/server/main.go` | the manager's slice under a lock; table `alert_rules` | load, seed, override, set, delete | one rule per key; slice and table agree |
| Alert manager and watcher | `alert/alert.go`, `alert/watcher.go` | `lastSent`, the ticker's buffer | snapshot, Evaluate, send through each channel | deduplicated, in time, not about old news |
| Latest status, online, ping summaries | `store/adapters.go` | none (queries) | `LatestStatus`, `isOnline`, `summarizePing` | an agent that reports is online, one that has stopped is noticed; loss, mean and tail of a window |
| Records queries and statistics | `store/records.go`, `api/rpc_komari.go` | none (queries) | records of a window, cut at a limit; statistics, percentiles and series of them | all answers about the same records agree; latest is newest |
| Agent configuration | `cmd/agent/config.go` | parsed file, `lastMod` | reload by SIGHUP and by mtime poller | the newest valid content is in use in the end |
| RPC and WebSocket | `api/rpc.go`, `rpc_komari.go`, `ws.go`, `ws_push.go` | one connection, its writer lock, `stop` | upgrade, dispatcher, pusher, close | no concurrent write, both goroutines end |
| Secrets and login | `store/secrets.go`, `api/login.go`, `auth/auth.go` | table `secrets` | get or create, sign, verify | tokens and sessions outlast a restart |
| Database | `store/store.go` | the schema; a pool of one connection | create tables, add columns | complete when the server runs, from any earlier release and after any crash |
| Notifications, probes, collector | `notify/*`, `probe/*.go`, `collect/*` | none | network and system I/O | bounded in time |
| Dashboard, admin page | `web/dashboard`, `adminui` | what it shows, connection flag, tries, timers | push, reconnection, polling as a fallback | comes to show the newest state |

How they interact. Everything on the server shares one SQLite connection, so
statements are atomic and come one at a time, in any interleaving of the
goroutines; only what is inside one statement is atomic, since no handler uses
a transaction. An agent's report runs `UpsertNode`, `InsertStatus` and one
`UpsertProbeTask` per probe. The scheduler reads `nodes` and `probe_tasks` and
writes `probe_records`; the watcher reads all of them through `AlertSnapshots`;
the admin API writes all tables and the alert manager. Agents are driven by
tickers, and everything they know of the server is what `/agent/config` told
them before their last report.

What is hard: an echo that was read before an edit and is written after it;
two-statement handlers that overlap; a crash or an error between two
statements; a loop that blocks on a semaphore and works on a stale copy; tickers
that drop and delay ticks; a memory and a table changed one after the other; a
watcher that sends, slowly, what it saw a while ago; a page that is fed in two
ways at once; two goroutines that share a connection and must end each other; a
start that is cut off anywhere, or happens twice at once.

## Modules

| Module | Models | State and actions |
|---|---|---|
| `ProbeTasks` | the table `probe_tasks` and everybody who writes it | `tasks`, `nextId` are the table; `pc[n]`, `remote[n]` the agent's loop and what it fetched; `pending[n]` the probes its report still has to upsert, one statement each. `AgentFetch`, `AgentPost`, `UpsertProbeTask`, `ReportDone` and their failures; `AdminUpsertProbe`, `AdminDeleteProbe` |
| `Scheduler` | `probe.Scheduler` with the tables it reads | `pc`, `stamp`, `clients`, `client`, `todo`, `lastRun` are the loop's locals; `appended` the client given with `-probe-client` (`main.go:29`, one at most), when the list does not have it; `tick` the ticker's channel; `slots` the semaphore; `running` the goroutines; `starts`, `flip`, `misses`, `up` and `paced` are history. One action per statement of `loop`, `schedule` and `run`; edits of tasks and nodes; time; restart |
| `WorkerPool` | *abstract*: what the scheduler's semaphore and goroutines promise | `active`, `free`, `results`; `Scheduler!Pool` maps `running`, `Cap - slots` and `records` to them |
| `NodeStore` | `nodes` and its history | `nodes`, `statuses`, `samples` are the tables; `reporting`, `deleting`, `cutoff` are handlers between their two statements |
| `RuleList` | the loops over `Manager.rules` | `Has`, `WithRule`, `WithoutKey`, `FirstFit`; `Ascending` puts the rows of a query in order |
| `AlertRules` | rules in memory and in the table | `mem`, `db`, `phase` (how far the start has come), `req` (requests between their two steps) |
| `RuleRegistry` | *abstract*: what the manager and the table promise together | `inUse`, one value per key, and `open`, the keys a restart may change; `AlertRules!Registry` maps `mem` (while loading, `db`) and `dirty`, the requests under way and the defaults not yet saved to them |
| `AlertWatch` | `Watch`, `Manager.Evaluate` and `Rule.silenced` | `events`, `current`, `left`, `sendStart` are the locals of a walk; `lastSent`, `rules` the manager; `readings` what is the case now. `TakeSnapshot`, `SnapshotFails`, `Drop`, `Notify`, `SendOne`, `WalkDone`; `Restart`, which forgets all but the rules |
| `ConfigStore` | the agent's `agent.yml` and the copy of it in memory | `exists`, `version`, `mtime`, `good` are the file; `cfg`, `lastMod` the store; `pc[r]`, `data[r]`, `stat[r]` the locals of the three callers of `reload`. Read, stat, note and store are four actions, the poller's comparison two more |
| `PingSummary` | `pingSummaries` and `summarizePing` over the table they read | `stamped` are results whose time is taken and which wait for the database, `records` the table by rowid. `Stamp`, `InsertProbe`, `InsertFails`, `Purge`; `Series` is the window of the SQL query, `SummarizePing` what is made of it |
| `PingQueries` | the queries of `records.go` and the statistics of `rpc_komari.go`, over the table of `PingSummary` | no state of its own. A query is the set of its possible answers, since `ORDER BY time` leaves open what comes first within a second; `PingTaskInfo`, `Percentile`, `Stats` and the two series are what is made of one |
| `Heartbeat` | an agent's cycles in time, `isOnline`, the watcher's ticks, failed snapshots and walks | `pc`, `by`, `tick`, `nextTick` are the agent's loop and ticker; `last` the stamp of the last status; `flying` a report whose agent is gone; `walking`, `watchTick`, `nextWatch` the watcher's loop and ticker. `Fetched`, `Collected`, `Stored`, `Missed`, `Answered`, `NextCycle`, `Stop`, `LateReport`; `WatchTick`, `SnapshotFails`, `WalkDone` |
| `Realtime` | `connectPush`, `useRealtime`, `ServeWS`, `serveWSPush` and the writer's lock | `page`, `sock`, `retry`, `shown`, `poll`, `asked` are the page; `serve[c]`, `push[c]`, `got[c]` the two goroutines of a connection; `link[c]`, `wire[c]` the network. One action per statement that can wait or fail |
| `Startup` | `Open`, `ensureColumns`, `GetOrCreateSecret`, `ensureSecret`, login and verification | `tables`, `columns`, `stored` are the database; `pc[s]`, `at[s]`, `mem[s]` a process that starts; `handed` what servers gave out. One action per statement; crashes at any of them |
| `ProbeTasks_proofs`, `Scheduler_proofs`, `NodeStore_proofs`, `AlertRules_proofs`, `AlertWatch_proofs`, `Realtime_proofs`, `Heartbeat_proofs`, `Startup_proofs` | | theorems about the eight |

Variables marked *history* in a module record what happened for the
properties; no action's guard looks at them, so they restrict nothing. Operators
marked *mutant* are plausible bugs that are not part of any specification: each
property was seen to break under one of them.

What is abstracted. A probe's type and host are one *target*, with `Host` giving
the part the agent's deduplication looks at. Names and hosts are atoms, so the
`name:type:host` list is taken to give back what was put into it, which holds as
long as they contain no separator. The hardware columns that follow one
`CASE` pattern are one value; `cpu_cores`, which follows another, is apart. What the
collector puts in the place of a field it cannot read is a value like any other
(`Fallback`), as it is to the server. A
history is the set of the times of its rows. A content of `agent.yml` is the number of the
edit that wrote it, and its modification time comes from a clock that may
stand still between two edits, as a file system's does. Measured values are
not there, except in a reading of `AlertWatch` and in `PingSummary`, whose clients
have one task in common and whose means, losses and variances are kept as
fractions. In `Realtime` an answer of the store is the number of the change it
was read after, and buffers hold a bounded number of pictures. A secret is its
number in the order they were made up; a session fits its secret or does not.

## Runs

Passing runs:

| Run | Instance | Properties |
|---|---|---|
| `probe_tasks` | two nodes (one declares a probe, one has no remote configuration), one name, two targets, 3 edits, 1 fault, fair | types; **NoInventedTarget**: a target comes from the admin's own or global task of that name, or from the node's `agent.yml`; **IntervalAsConfigured**: a report never disturbs an interval; **AdminOnlyFollowsAdmin**: tasks no agent can echo are what the admin asked for; **DeclaredIsRegistered** again and again |
| `sched` | two nodes, one of them the extra client, one slot, probes of up to 1 tick, two names, a task of interval 2 and a free id, posted tasks of the default interval 1, 2 events (an edit, a failed load of the clients or of a client's tasks, a failed insert, a restart), time 6 | types; **AtMostCapAtWork**; **RecordsBelongToTask**; **ImplementsWorkerPool** |
| `sched_prompt` | two nodes, one slot, probes of up to 1 tick, one task of interval 2, which an edit may bring to the default 1, 2 events, time 12 | **DisabledIsLeftAlone** within a walk of 2 ticks; **NotOverdue**: no task waits longer than its interval and three walks, and a walk for every load of its tasks or of the clients that failed; **NotTooOften**: its starts leave its own interval between them, since the server came up and since its last edit |
| `node_store` | one node, 3 reports, 4 edits or purges, 2 faults, time 3 | types; **NothingRecentIsLost**; **WhatIsKnownIsKept**: the region, which is the admin's, the hardware, which the reports tell, and the name, which both write; **OrphansNeedOverlap** |
| `alert_rules` | two requests at a time, 3 edits, 1 fault, 2 restarts, 4 keys | types; **CleanKeysAgree**; **ImplementsRegistry** |
| `alert_watch` | one node, offline and two latency tasks, one channel, cooldown 10, time 17 in days of 10, windows that are empty and that cross midnight, 2 changes of readings, 1 of the rules, 1 failed snapshot or restart | **Deduplicated** in one life of the server; **NotifiedInTime** within a walk and a tick or a second walk; **NoOldNews** within a walk; **NothingWhileMuted** |
| `config_store` | 3 edits, any of them broken, removals, 3 instants, signals, fair | **CleanEditsArePickedUp**: the newest content comes into use; **NoStepBack**: no older content comes back; each for edits that fall into no reload and not into the instant of the edit before |
| `ping_queries` | two clients, 4 probes with 2 results or a loss, a window of 3, retention 1, time 2, limits of 0 (the default, 2), 3 (the maximum) and 4 | **StatisticsAreOfTheWindow**: loss, mean, extremes and tail agree with definitions by counting; **LatestIsNewest**, however the records were stored; **PurgeKeepsLatest**; **RecordsAreReadAlike**: the node list, the task list and the charts, of the same records; **PercentilesSplitTheSamples**; **LatestUnlessCut** |
| `realtime` | one connection, one poll, 1 try in a row, 1 picture on the wire, 1 change of the store, 3 faults, fair | types, and no two writers at once; **CatchesUp**: the page comes to show the store as it is, for good; **GoroutinesEnd**; **NoStepBack**: pushes never go back |
| `heartbeat` | seconds of 2 units, interval 3, requests of up to 1, 1 failure in a row, offline after 13, watcher every 4 with walks of up to 5 and 1 failed snapshot, 2 stops, time 30 | **NeverJudgedOffline**; **SilenceIsNoticed** within the limit, the longer of a tick and a walk, and a tick for every snapshot that failed |
| `startup` | two servers, 3 tables, 3 added columns, 2 secrets, any earlier database, 3 starts, 3 secrets made up, sessions of 1, time 2 | **SchemaIsComplete**; **OpensAlone**: a start alone never fails on what an earlier one left; **CredentialsLast** |

Why these bounds are enough. `probe_tasks`: the overlaps that matter are an
edit before, within and after one fetch-report cycle, hence three edits; a
second node is there so that something can leak from one to the other, and one
that no agent can echo so that the difference shows. `sched`: the id of a
deleted row can only be given out wrongly by a delete and an insert around one
probe, two events; with one slot for two nodes and a task for both, the loop is
blocked most of the time, ticks are dropped and go stale. `sched_prompt`: the longest
walk (nodes × tasks × a probe's length) is 2 ticks, and `DisabledIsLeftAlone` fails
with 1; in the instance of `sched`, where it is 4, it fails with 3 as soon
as the time is 7. There is time for a pick, a loop that is blocked while its
tick goes stale, and two loads that fail one after the other or around an edit
or a restart. Three walks are needed, though not by so few tasks: with five
tasks of one client, four of them due in every walk, TLC finds the fifth picked more than two
walks late. Nor is it two nodes that need the walk counted for a failed list of clients: with
one node that is not the extra client, a bound of one tick, four events and time 8,
TLC refutes `NotOverdue` when `misses` leaves `TakeTickBlind` out, and finds no error when
it counts it. `NotTooOften` without the two walks by which a stamp may be older
than the edit fails in this run. `node_store`: each pair of handlers that touches a
row can overlap, with a failure in each; nodes meet only in the purge, which
treats them alike, so one is enough. `alert_rules`: two requests on one key and
one on another, each order of their steps; the four keys are the three defaults
and one more. `alert_watch`: the cooldown is longer than the tick and two walks, a walk is
long enough for all three readings to be sent (3), and longer than the tick, and in
the time an alarm is raised, silenced, comes back and is raised again, before, in
and after a window that crosses midnight. A channel more only makes a walk longer,
and is left to the proofs. `config_store`: an edit before, within and after a reload, of
which one may be broken, and two reloads at once; two edits in one instant and
two in different ones. A fourth instant changes nothing.
`ping_queries`: a window that is empty, not full, full and overfull; records
that are stored in the order of their times, against it, and within one second.
The tail's index is that of the code for a window of any length (its product of
floating-point numbers, cut off, is the integer quotient for every length up to
150), but with three samples only the second largest is ever asked for. So is the
percentile's rank (for up to 20 000 samples, the most a query returns). Limits
below, at and above the number of rows, and above the maximum. `realtime`: three
faults break a connection, let the next try fail and lose a poll, so that the
page passes through all of its modes and ends alone; safety was also checked with
two connections, whose goroutines overlap, and liveness with two polls. `heartbeat`: the
limit of 13 is tight (12 fails), a walk is longer than the watcher's period, so that its ticks wait and are dropped, and the time holds eight cycles. `startup`: three
starts are a crash, a second server and a start after both; a column before, at
and after the place of the crash. The violating run uses a smaller instance of
`probe_tasks`.

`CHECK_DEADLOCK FALSE` stands in the configurations of models whose bounds (of
time, of starts or of requests) or whose page may be left let a behaviour end;
`ProbeTasks` and `ConfigStore` are checked for deadlock.

The run that expects a violation, `probe_disable`, is described under
[disagreements](#where-code-and-documentation-disagree).

## Abstract specifications

`Scheduler` implements `WorkerPool` (`ImplementsWorkerPool`, checked and proved):
whatever the loop does with ticks, copies and edits, seen from outside a job is
started on a free place, leaves results of its own work only and gives its place
back exactly once; a restart loses jobs and no results. A goroutine that frees
its slot twice, or not at all, or stores a record of another task is no step of it.

`AlertRules` implements `RuleRegistry` (`ImplementsRegistry`): loading, seeding,
the override by the command line, two-step requests and their failures are steps
of one value per key, which a restart may only change where a request failed,
overlapped with another on the key, or was cut off (`open`). With statements
that may fail while loading (`MayLoseTable`), a start may fall back to the defaults
(`Fill`), when it has read nothing, or go on with the part it has read (`Lose`); what it
does without stays open, and the next start may bring it back.

## Fairness and time

`ProbeTasks` assumes weak fairness of each agent: its ticker and the handler of
its report go on. The agent's loop has no exit, and the single connection is
handed to waiting statements; but its requests go through `http.DefaultClient`
without a timeout, so that it is an assumption about the network, and not the
code's doing, that each is answered or fails in the end. No fairness is
assumed of the admin or of failures, and failures are bounded: an agent that
can never reach the server registers nothing.

`ConfigStore` assumes that the poller's ticker goes on, that a signal in the
channel is taken and that a reload that has begun ends: the two goroutines have
no exit and wait for nothing but a lock that is held for one assignment. Its
clock is the one of modification times and drives nothing. The poller's 30 s
are not there, since nothing depends on their length.

`Realtime` assumes that the page's timers and the pusher's ticker fire, that
what is on the wire arrives, that polls are answered or fail, and that both ends
learn in the end that a connection is down. On the server the kernel's
keep-alive, which Go turns on for accepted connections, sees to that; in the
browser nothing in the code does, and a page whose connection is dead without
its noticing would keep an old picture. Strong fairness is assumed of taking the
writer's lock only: `sync.Mutex` hands a lock to a waiter that has waited for
long. Nobody has to change the store, to leave or to ask on the connection.

`Heartbeat` has a clock. That requests take at most `Delay` and that at most
`MaxMisses` reports fail in a row is assumed; the margin that follows,
`(MaxMisses + 1) (Interval + 2 Delay) + Delay + Second <= OfflineAfter`, is an
assumption on the constants that the default of 15 s meets for two failures in a
row and requests of 2 s. A cycle is a whole interval of CPU sampling, which is
why an interval of 60 s or more makes a node that works flap between online and
offline; nothing in the code checks it. The watcher's walk takes any time up to
`Walk`, also longer than its period (a channel that hangs takes its 10 s for every
event), and a snapshot that fails costs a tick: `SilenceIsNoticed` counts both. The
server does not restart in `Heartbeat`; a restart is in `AlertWatch`.

`Scheduler` and `AlertWatch` have a clock instead of fairness too. Time passes only
when the modelled goroutine waits (for a tick, for a slot, for a channel to
answer), which is the assumption that computing and statements are fast
compared with a tick (3 s and 30 s). What is bounded is bounded by the code:
a probe by its context of 5 s, a send by its context of 10 s. The e-mail channel
does not look at its context, so for a server with e-mail alarms the model of a
send is optimistic; the mutant of `NoOldNews` shows what is lost then. Promptness is so a
safety property ("not overdue"), which says more than "eventually". An element
in a ticker's channel keeps the time it was sent at, and a tick that finds the
channel full is dropped, as in Go's `time.Ticker`.

## Proofs

| Theorem | Property | For |
|---|---|---|
| `ProbeTasks_proofs!TypeCorrect` | `TypeOK` | any sets of nodes, names, targets, declared probes; any number of edits and faults |
| `ProbeTasks_proofs!TargetsCorrect` | `NoInventedTarget` | " |
| `ProbeTasks_proofs!IntervalsCorrect` | `IntervalAsConfigured` | " |
| `ProbeTasks_proofs!AdminOnlyCorrect` | `AdminOnlyFollowsAdmin` | " |
| `Scheduler_proofs!TypeCorrect` | `TypeOK` | any nodes, tasks, intervals, slots, time, edits, faults, restarts |
| `Scheduler_proofs!CapCorrect` | `AtMostCapAtWork` | " |
| `Scheduler_proofs!RecordsCorrect` | `RecordsBelongToTask` | " |
| `Scheduler_proofs!PoolCorrect` | `ImplementsWorkerPool` | " |
| `Scheduler_proofs!PaceCorrect` | `NotTooOften` | " |
| `Scheduler_proofs!LeftAloneCorrect` | `DisabledIsLeftAlone` | finitely many nodes, otherwise " |
| `Scheduler_proofs!OverdueCorrect` | `NotOverdue` | " |
| `NodeStore_proofs!TypeCorrect` | `TypeOK` | any nodes, values of the columns, retention, reports, edits, faults |
| `NodeStore_proofs!WhatIsKnownCorrect` | `WhatIsKnownIsKept` | " |
| `NodeStore_proofs!OrphansCorrect` | `OrphansNeedOverlap` | " |
| `NodeStore_proofs!NothingRecentCorrect` | `NothingRecentIsLost` | " |
| `AlertRules_proofs!TypeCorrect` | `TypeOK` | any finite set of keys, any values, requests, faults, restarts |
| `AlertRules_proofs!OneRuleCorrect` | `OneRulePerKey` | " |
| `AlertRules_proofs!CleanKeysCorrect` | `CleanKeysAgree` | " |
| `AlertRules_proofs!RegistryCorrect` | `ImplementsRegistry` | " |
| `AlertWatch_proofs!TypeCorrect` | `TypeOK` | any readings, rules, channels, periods, faults, restarts |
| `AlertWatch_proofs!DeduplicatedCorrect` | `Deduplicated` | " |
| `AlertWatch_proofs!NewsCorrect` | `NoOldNews` | finitely many readings, otherwise " |
| `AlertWatch_proofs!NotifiedCorrect` | `NotifiedInTime` | " |
| `AlertWatch_proofs!MutedCorrect` | `NothingWhileMuted` | " |
| `Realtime_proofs!TypeCorrect` | `TypeOK` | any connections, polls, buffers, tries, changes, faults |
| `Realtime_proofs!NoStepBackCorrect` | `NoStepBack` | " |
| `Heartbeat_proofs!TypeCorrect` | `TypeOK` | any periods and delays that meet the margin; any number of stops; unbounded time |
| `Heartbeat_proofs!NeverJudgedOfflineCorrect` | `NeverJudgedOffline` | " |
| `Heartbeat_proofs!SilenceIsNoticedCorrect` | `SilenceIsNoticed` | " |
| `Startup_proofs!TypeCorrect` | `TypeOK` | any lists of tables, columns and secrets; any servers, crashes, time |
| `Startup_proofs!SchemaCorrect` | `SchemaIsComplete` | " |
| `Startup_proofs!OpensAloneCorrect` | `OpensAlone` | " |
| `Startup_proofs!CredentialsCorrect` | `CredentialsLast` | " |

They rest on the named assumptions on the constants in the modules, which TLC
evaluates in every run. Most say what kind of thing a constant is (`Global` is
no node, intervals are integers and the default is positive, the initial ids
are contiguous, the keys of rules are finite in number and the three defaults differ, the lists
of `Startup` are not empty). Three say more:

- `MarginAssumption` of `Heartbeat` (see [above](#fairness-and-time));
- `ScanAssumption` of `Scheduler`: `ScanBound` is at least a probe's timeout for
  every task of every node, the longest a walk can be blocked;
- `WalkAssumption` of `AlertWatch`: `Walk` is at least a channel's deadline for
  every reading and channel, the longest notifying one snapshot can take.

The second and the third do not limit the system, they say what the bounds in the
properties mean.

- `NoInventedTarget` is inductive as it stands, because it also speaks of the
  probes on their way (`remote`, `pending`): what an agent carries was in the
  table when it was fetched, and an admin's targets are never forgotten (`said`).
- `IntervalAsConfigured` and `AdminOnlyFollowsAdmin` are not: that a row's
  interval is the admin's needs that a task the admin set and has not deleted
  exists, since otherwise a report would insert it with the default. And that
  a report does not touch a task nobody can echo needs that what a node without
  remote configuration reports is what it declares. Both are in `ConfigInv`.
- `AtMostCapAtWork` needs that the semaphore counts the goroutines exactly, and
  for this that goroutines are told apart: the set `running` would otherwise
  lose one when two became equal. `SlotInv` says so by the number of the start.
- `RecordsBelongToTask` needs the same of everything that may become a record:
  the running probes, and the copies of rows the loop has not looked at yet.
  `RecordInv` says that each has an id that was given out (so it is never
  given out again) and that a row that still has this id has the same name
  and client.
- `PoolCorrect` maps each action to one of `WorkerPool` or to a stutter. It needs
  `SlotInv`, since a start must find a free place and a number that no job at
  work has.
- `Deduplicated` speaks of the notifications there were, and the guard of the next
  one looks at `lastSent` only. `DedupInv` says that what the manager remembers of a
  key is the latest of them; a restart forgets both.
- `NotTooOften` counts starts, and the guard of a start looks at the time of the
  last one. `PaceInv` says that, with every start since the edit after the first, the
  stamp in `lastRun` has moved away from that of the first by the task's own
  interval. The first stamp is no older than the server (`StampsArePast`) and,
  because ticks keep the pace of the walks (`TickPace`, from the argument for
  `NotOverdue`), no older than the edit by more than two walks. And it says that the
  copy the loop looks at is the task as it is, once the task has been started
  since its edit: a second start needs another walk, which loads it again.
- `DisabledIsLeftAlone` is about a probe that was started late because the loop
  was blocked, tasks after the list was loaded. `ScanInv` gives what the rest of
  the walk may take (`WalkTime`: a timeout per task that is still to come, of this
  client and of the clients still to be loaded), and says that for every task the
  walk may still start in error this ends before the bound does. While the loop
  waits for a slot, the time it began to is remembered by no variable, only by
  the probes at work: each was started before, and so ends a timeout later at the
  latest.
- `NotOverdue` is about a key that the walk under way may have passed before it was
  due. The tick that was sent during this walk may be too old as well, since what
  counts is when it was sent; the one after it is not. `OverdueInv` says how many
  of the three walks the end of the walk under way leaves to a key, by whether
  this walk will still pick it (`WillPick`) and by the tick in the channel. It needs that
  ticks keep the pace of the walks (`TickPace`: one is taken up within a walk of
  having been sent, and sent within a walk of the one before), that while the loop waits for
  a slot the walk ends when `WalkTime` says, counted from when it began to wait,
  and that the task it waits for has been picked. The history `misses` counts
  the failed loads of the client's tasks and of the list of clients, each of which costs a walk.
- `WhatIsKnownIsKept` is nearly inductive; what it lacks is that no hardware is known of
  a row that is not there (`RowInv`), since the next report or the admin makes it anew.
- `OrphansNeedOverlap` speaks of what is left when nothing is under way. `OrphanInv` says
  it of every state between: a node without a row, or one that is being deleted, has
  statuses or a report under way only when the two overlapped.
- `NothingRecentIsLost` needs that the cutoff of a purge that has begun is in the
  past of the one it would compute now (`CutoffIsPast`): time only makes it older.
- `CleanKeysAgree` says nothing of a key while a request on it is under way, and the
  request's second step must then put the table right. `RuleInv` says that
  the manager is ahead of the table by exactly what the only request on the key
  is about to write, or what is still to be seeded. That deleting keeps the other
  rules, their order and their number is arithmetic on ranks: `Ascending` is a bijection
  from `1..Cardinality(S)` to `S`, by induction on the rank within a set of numbers.
- `ImplementsRegistry` maps each step to one of `RuleRegistry` or to a stutter, from
  `RuleInv`; the second step of a request and a seeded row close a key, and a
  restart may change the keys that are still open, to what the table has.
- `NoOldNews` needs that what is left of the walk (`Rest`: the events still to be
  evaluated and the channels still to be called, a deadline each) ends before what
  is in hand is too old (`NewsInv`), whether it is in the snapshot still or has
  been taken from it.
- `NotifiedInTime` is about a reading that is notified in the walk under way, or is not in
  its snapshot and has to wait for the next one. `PromptInv` says of the first that
  what is left of the walk (`Rest`) ends in time, and of the second that both the walk
  and the wait for the next tick (`Wait`) leave a walk for it. Neither sum grows:
  time passes only while one of its terms shrinks. What it needs of the manager is that
  what it remembers is a notification of this life, and that what is due is the
  case and wanted, so that only the cooldown can be a reason to drop it.
- `NothingWhileMuted` is not about a state but about a definition: that comparing the time of
  day with the ends of a window finds exactly the minutes from its start round the
  clock, which is arithmetic modulo a day. It is claimed of windows that are times of the day only, which the
  code does not check. `RulesInv` says that the list only holds
  rules that were there or were set.
- The types of `Realtime` hold the claim that two goroutines never write at once, since
  a writer is a goroutine that holds the lock. `NoStepBack` needs that everything
  under way to the page is in order: what is shown, the pictures on the wire, the one
  the pusher has read and is about to write, and the store, each field by itself since one
  statement may fail and leave its field out (`PushInv`). That a connection belongs to the page's
  socket or is no longer listened to is part of it.
- `SchemaIsComplete` needs that a server that is at an element of its list has all
  elements before it (`WalkedPast`), and that no step of another server takes a
  column away. `OpensAlone` needs that while a server is alone all others are off, and what it
  is about to add is still missing (`AloneInv`).
- `CredentialsLast` needs, for every key that was not raced for, that what was handed
  out is what the table has, that a server uses what the table has as soon as it is
  past the key, and that one which is about to store a secret is alone in it and the
  first (`SecretInv`).
- `NeverJudgedOffline` speaks of one moment, and what it needs is how old the
  last stamp may be at each place of the cycle and after each number of failures
  (`IInv`): what is left of the current step, plus a cycle per failure, plus the
  second that is cut off. The margin is used at the last place only.
- `SilenceIsNoticed` is about the next tick the watcher will take, which may be the one
  that waits in its ticker for the end of a walk. `LooksInTime` says that until the
  silence is seen this tick is never later than the limit, the longer of a tick and a
  walk, and the ticks lost since; that it is no further off than this from any
  moment (`LookIsNear`) covers every report and every snapshot that came before the
  limit. And a late report ends within `Delay`.

Only model-checked:

- liveness (`DeclaredIsRegistered`, `CleanEditsArePickedUp`, `CatchesUp`,
  `GoroutinesEnd`), which rests on `ENABLED` and is outside what the prover does;
- the statistics of `PingSummary` and `PingQueries`, which are sorted and folded
  sequences and would need induction over data;
- `ConfigStore!NoStepBack` and `PingSummary!PurgeKeepsLatest`, which are within reach
  (see the [plan](#plan)).

## Where code and documentation disagree

The run checks one sentence of the repository and TLC finds a behaviour of the
code that contradicts it.

| Run | Sentence | What the code does |
|---|---|---|
| `probe_disable` | `docs/configuration.md:43`, a task edited on the admin page takes effect on its own | `/agent/config` serves disabled tasks too, and the report that echoes them upserts them with `enabled=1`: a node's own task cannot be kept disabled |

The modules define more claims, each under a heading that says so, that TLC
refutes in the same way when one is put into the module's configuration:
`SilentNodesAreJudged` (`README.md:76`, no report for 60 s is judged offline: the
purge deletes the last status of a node that is silent longer than the retention,
and with it the judgement);
`CoresAreKept` (`store/fixes_test.go:79`, a later report with empty info does not
clear what is known: without a core count it sets the stored count to 1, since
the default is applied before the `CASE` that would keep it); `MeasuredIsKept` (the
same of a CPU name that could not be read: the collector reports the architecture
instead, `collector.go:156-170`, and that replaces it); `RulesArePersistent`
(`README.md:16`: two requests on one rule may reach the manager and the table in
opposite orders); `WholeWindowIsAnswered` (the comment on `ProbeRecordsSince`: beyond
the limit the newest rows are missing); `NoRecordsAgree` (of a task without records the
node list says that all is lost, the task list that nothing is); `StatedWindowHolds` (the stated start of a
metric query, for less than an hour); `NeverOlder` (a poll asked before the
connection opened overwrites a newer push until the next one); `FirstReportIsSentAtOnce`
(the comment at `cmd/agent/main.go:78`: it is sent after a whole interval of CPU
sampling); `TokensStay` (two servers that start at once keep different tokens);
`DeleteTakesEffect` and `RetargetTakesEffect` (an agent's report
brings a deleted task or an old target back, for good); `OnlyEnabledServed` (the
comment on `Store.ProbeTasks`); `DeletedStatusesAreGone` and
`DeletedSamplesAreGone` (the comment on `AdminDeleteNode`);
`ApiHasTheLastWord` (a restart with `-alert-latency-ms`, or after all rules were
deleted; with `Requests = {r1}`, so that it is not an overlap); `StoredRulesAreKept` (with `Fallible =
{"load"}`) and `DefaultsAreSeeded` (a stop while seeding); `EditsArePickedUp`
(`docs/configuration.md:64`, an edit is reloaded within 30 s of being saved: one
that falls between a reload's reading of the file and its `os.Stat` is taken
for known and is not loaded until the next edit or signal).

## What is not modelled

- Measuring, probing and sending are I/O; their results and durations enter as
  choices. Signing and verifying of tokens belongs to a library.
- The list format of probes (`name:type:host`), the list of enabled tasks in
  `LatestStatus` (a statement before the one for the records), the text of times:
  a mute window written without leading zeros compares wrongly.
- The pool of one connection, beyond the atomicity of statements: no query of the
  store is made while rows of another are open.
- What a snapshot of the watcher holds comes
  from the queries modelled in `PingSummary` and `Heartbeat`, and is a choice there.
- The columns of a status, `RecordsSince` (the query of `ProbeRecordsSince` on another
  table), the routes and who may call them.
- Pages, static answers and record queries only format what is stored.

## Plan

Done: everything under [modules](#modules) and [proofs](#proofs). What is left:

1. `ConfigStore`: `NoStepBack`, with the types it needs.
2. `PingSummary`: `PurgeKeepsLatest`, which is about sets of records before they are
   put in order.
3. Compositions: `ConfigStore` with the agent's loop of `ProbeTasks` (one report
   reads the store several times); `ProbeTasks` and `Scheduler` over one table (how
   long after an edit probes follow it, echoes included).
