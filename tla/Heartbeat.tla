------------------------------- MODULE Heartbeat -------------------------------
(***************************************************************************)
(* An agent's reports in time, and the judgement that its node is online.  *)
(* A cycle of the agent fetches its probes, collects, which takes a whole  *)
(* Interval (the CPU is sampled over it), and posts; the next cycle starts *)
(* with a tick of a ticker that holds one.  The server stamps a report, in *)
(* whole seconds, when it stores it, and judges a node by the age of its   *)
(* last stamp; so does the alert watcher, on ticks of its own.  A tick     *)
(* whose snapshot fails is used up; one that comes during a walk waits for *)
(* its end, and any more are dropped.                                      *)
(*                                                                         *)
(* Time is counted in units of which a second has Second.  The agent's     *)
(* requests have no timeout: that they take at most Delay, and that at     *)
(* most MaxMisses reports fail in a row, is assumed of the network.        *)
(***************************************************************************)
EXTENDS Integers

CONSTANTS
  Second,
  Interval,      \* the agent's -interval, 15 seconds
  Delay,         \* what a request takes at most
  MaxMisses,     \* reports that fail in a row
  OfflineAfter,  \* 60 seconds
  WatchEvery,    \* 30 seconds
  Walk,          \* what the watcher takes at most to notify of one snapshot
  Never,
  MaxTime,       \* bound: the clock
  MaxStops,      \* bound: stops of the agent
  MaxFaults      \* bound: snapshots that fail

ASSUME PeriodsAssumption ==
  /\ {Second, Interval, WatchEvery} \subseteq Nat \ {0}
  /\ {Delay, MaxMisses, OfflineAfter, Walk, MaxTime, MaxStops, MaxFaults} \subseteq Nat
  /\ Never \notin Int

\* The longest time between two reports that are stored, the first of which is
\* answered as late as the next ones come.
LongestGap == (MaxMisses + 1) * (Interval + 2 * Delay) + Delay

\* Cycles of 15 s leave room for two failures in a row if requests take 2 s at most.
ASSUME MarginAssumption == LongestGap + Second <= OfflineAfter

VARIABLES
  now,
  pc,         \* of the agent: "off", "fetch", "collect", "post", "answer" or "wait"
  by,         \* when the current step ends, at the latest
  tick,       \* is there a tick in the agent's ticker
  nextTick,   \* when the next one comes
  misses,     \* reports failed in a row
  flying,     \* until when a stopped agent's report may still arrive, or Never
  last,       \* the stamp of the node's last report, or Never
  walking,    \* is the watcher notifying of a snapshot
  walkBy,     \* when that ends, at the latest
  watchTick,  \* is there a tick in the watcher's ticker
  nextWatch,  \* when the next one comes
  stops, faults,
  fresh,      \* history: the agent has had a report stored since it started
  stopped,    \* history: when the agent stopped last
  noticed,    \* history: the watcher has seen the node offline since its last report
  blind       \* history: snapshots that failed since the node is offline

vars == <<now, pc, by, tick, nextTick, misses, flying, last, walking, walkBy,
          watchTick, nextWatch, stops, faults, fresh, stopped, noticed, blind>>

agentVars == <<pc, by, tick, nextTick, misses, fresh>>
watchVars == <<walking, walkBy, watchTick, nextWatch, faults>>
seenVars == <<noticed, blind>>

Up == pc # "off"

TypeOK ==
  /\ now \in Nat
  /\ pc \in {"off", "fetch", "collect", "post", "answer", "wait"}
  /\ by \in Nat
  /\ tick \in BOOLEAN
  /\ nextTick \in Nat
  /\ misses \in 0..MaxMisses
  /\ flying \in Nat \cup {Never}
  /\ last \in Int \cup {Never}
  /\ walking \in BOOLEAN /\ walkBy \in Nat
  /\ watchTick \in BOOLEAN /\ nextWatch \in Nat
  /\ stops \in Nat /\ faults \in Nat
  /\ fresh \in BOOLEAN
  /\ stopped \in Nat
  /\ noticed \in BOOLEAN /\ blind \in Nat

Init ==
  /\ now = 0
  /\ pc = "off" /\ by = 0
  /\ tick = FALSE /\ nextTick = 0
  /\ misses = 0
  /\ flying = Never
  /\ last = Never
  /\ walking = FALSE /\ walkBy = 0
  /\ watchTick = FALSE /\ nextWatch = WatchEvery
  /\ stops = 0 /\ faults = 0
  /\ fresh = FALSE /\ stopped = 0 /\ noticed = FALSE /\ blind = 0

SampleTime(t) == t - Interval   \* mutant: the stamp is the time the sample began

\* time.Now().Format(time.RFC3339): whole seconds.
Stamp(t) == t - (t % Second)

\* isOnline; a node without a stamp is in no list.
Online == last # Never /\ now - last < OfflineAfter

(***************************************************************************)
(* The agent.                                                              *)
(***************************************************************************)

\* The ticker is made before the first cycle, which does not wait for it.
Start ==
  /\ pc = "off"
  /\ pc' = "fetch"
  /\ by' = now + Delay
  /\ tick' = FALSE
  /\ nextTick' = now + Interval
  /\ misses' = 0
  /\ fresh' = FALSE
  /\ UNCHANGED <<now, flying, last, watchVars, stops, stopped, seenVars>>

Step(from, to, end) ==
  /\ pc = from
  /\ pc' = to
  /\ by' = end
  /\ UNCHANGED <<now, nextTick, flying, watchVars, stops, stopped>>

\* Whether or not it was answered.
Fetched ==
  /\ Step("fetch", "collect", now + Interval)
  /\ UNCHANGED <<tick, misses, last, fresh, seenVars>>

Collected ==
  /\ now = by
  /\ Step("collect", "post", now + Delay)
  /\ UNCHANGED <<tick, misses, last, fresh, seenVars>>

\* UpsertNode and InsertStatus have succeeded.
Stored ==
  /\ Step("post", "answer", by)
  /\ last' = Stamp(now)
  /\ misses' = 0
  /\ fresh' = TRUE
  /\ noticed' = FALSE
  /\ blind' = 0
  /\ UNCHANGED tick

\* Nothing collected, no connection, no answer, or an error: it is logged, and
\* nothing is retried.
Missed ==
  /\ misses < MaxMisses
  /\ Step("post", "wait", by)
  /\ misses' = misses + 1
  /\ UNCHANGED <<tick, last, fresh, seenVars>>

Answered ==
  /\ Step("answer", "wait", by)
  /\ UNCHANGED <<tick, misses, last, fresh, seenVars>>

NextCycle ==
  /\ tick
  /\ Step("wait", "fetch", now + Delay)
  /\ tick' = FALSE
  /\ UNCHANGED <<misses, last, fresh, seenVars>>

\* A crash, a signal, or the end of the network; a report under way may arrive.
Stop ==
  /\ Up
  /\ stops < MaxStops
  /\ stops' = stops + 1
  /\ pc' = "off"
  /\ stopped' = now
  /\ flying' = IF pc = "post" THEN by ELSE flying
  /\ UNCHANGED <<now, by, tick, nextTick, misses, last, watchVars, fresh, seenVars>>

LateReport ==
  /\ flying # Never
  /\ flying' = Never
  /\ \/ last' = Stamp(now) /\ noticed' = FALSE /\ blind' = 0
     \/ UNCHANGED <<last, seenVars>>
  /\ UNCHANGED <<now, agentVars, watchVars, stops, stopped>>

(***************************************************************************)
(* The watcher, and time.                                                  *)
(***************************************************************************)

JudgedOffline == last # Never /\ ~Online

\* AlertSnapshots succeeds, and what it says is evaluated.
WatchTick ==
  /\ ~walking
  /\ watchTick
  /\ watchTick' = FALSE
  /\ walking' = TRUE
  /\ walkBy' = now + Walk
  /\ noticed' = (noticed \/ JudgedOffline)
  /\ UNCHANGED <<now, agentVars, flying, last, nextWatch, stops, faults, stopped, blind>>

\* It fails: the loop waits for the next tick.
SnapshotFails ==
  /\ ~walking
  /\ watchTick
  /\ faults < MaxFaults
  /\ faults' = faults + 1
  /\ watchTick' = FALSE
  /\ blind' = IF JudgedOffline THEN blind + 1 ELSE blind
  /\ UNCHANGED <<now, agentVars, flying, last, walking, walkBy, nextWatch, stops, stopped, noticed>>

SleepAfterWalk ==   \* mutant: a sleep after every walk instead of a ticker
  /\ walking
  /\ walking' = FALSE
  /\ watchTick' = FALSE
  /\ nextWatch' = now + WatchEvery
  /\ UNCHANGED <<now, agentVars, flying, last, walkBy, stops, faults, stopped, seenVars>>

WalkDone ==
  /\ walking
  /\ walking' = FALSE
  /\ UNCHANGED <<now, agentVars, flying, last, walkBy, watchTick, nextWatch, stops, faults,
                 stopped, seenVars>>

AdvanceTime ==
  /\ now < MaxTime
  /\ pc \in {"fetch", "collect", "post", "answer"} => now < by
  /\ pc = "wait" => ~tick
  /\ flying # Never => now < flying
  /\ IF walking THEN now < walkBy ELSE ~watchTick
  /\ now' = now + 1
  /\ tick' = (tick \/ now' = nextTick)
  /\ nextTick' = IF now' = nextTick THEN now' + Interval ELSE nextTick
  /\ watchTick' = (watchTick \/ now' = nextWatch)
  /\ nextWatch' = IF now' = nextWatch THEN now' + WatchEvery ELSE nextWatch
  /\ UNCHANGED <<pc, by, misses, flying, last, walking, walkBy, stops, faults, fresh, stopped,
                 seenVars>>

Agent ==
  Start \/ Fetched \/ Collected \/ Stored \/ Missed \/ Answered \/ NextCycle \/ Stop \/ LateReport

Watcher == WatchTick \/ SnapshotFails \/ WalkDone

Next == Agent \/ Watcher \/ AdvanceTime

Spec == Init /\ [][Next]_vars

(***************************************************************************)
(* Properties.                                                             *)
(***************************************************************************)

\* A node whose agent runs and has reported is never judged offline: collecting,
\* slow requests, failed reports, ticks and whole seconds together stay below
\* the time after which it would be.
NeverJudgedOffline == Up /\ fresh => Online

\* The longest time from one snapshot to the next: a tick, or a walk that is
\* longer, as one whose channels hang is.
WatchGap == IF Walk < WatchEvery THEN WatchEvery ELSE Walk

\* A node whose agent has stopped for good is seen offline by the watcher, at the
\* latest when a report under way, the time after which a node is offline and the
\* time to the next snapshot have passed, and a tick more for every snapshot since
\* that failed.
SilenceIsNoticed ==
  ~Up /\ last # Never
    /\ now > stopped + Delay + OfflineAfter + WatchGap + blind * WatchEvery => noticed

(***************************************************************************)
(* A claim of a comment that the code does not meet.                       *)
(***************************************************************************)

\* main.go:78: the first report is sent at once.  It is sent when the collector
\* has sampled the CPU for a whole Interval.
FirstReportIsSentAtOnce ==
  Up /\ ~fresh /\ misses = 0 /\ pc \in {"fetch", "collect", "post"} => now <= nextTick - Interval + 2 * Delay
===============================================================================
