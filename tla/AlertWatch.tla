------------------------------ MODULE AlertWatch ------------------------------
(***************************************************************************)
(* The alert watcher and the manager's Evaluate.  On every tick the        *)
(* watcher takes a snapshot of all nodes and evaluates the events in it,   *)
(* one after the other (in the order of maps, except that a node's offline *)
(* event comes first; here in any order); an event that passes the         *)
(* cooldown, the rules and their silence is sent to every channel before   *)
(* the next one is looked at.  Meanwhile the readings change, and the API  *)
(* changes the rules.                                                      *)
(*                                                                         *)
(* A reading is an event the watcher would see now: its kind, node, task   *)
(* and value.  A rule is silent before silenceUntil (0: not set) and in    *)
(* its daily muteWindows, which are pairs of minutes of the day.           *)
(* Computing takes no time; a channel takes between 0 and SendTimeout, the *)
(* deadline of the context Send is given.  As in Scheduler the ticker's    *)
(* channel holds one tick.                                                 *)
(***************************************************************************)
EXTENDS Integers, FiniteSets, RuleList

CONSTANTS
  Readings,     \* [kind, node, task, value]
  AnyNode,      \* the node '*' of a rule
  RuleChoices,  \* rules the API may set
  InitRules,    \* the rules the manager starts with
  Channels,     \* how many notifiers there are
  Never, Nothing,
  Cooldown,     \* between two notifications of one kind and node (5 minutes)
  TickEvery,    \* 30 seconds
  SendTimeout,  \* 10 seconds
  Minute, Day,  \* a minute in units of time, a day in minutes
  MaxTime,      \* bound: the clock
  MaxFlips,     \* bound: changes of the readings
  MaxEdits,     \* bound: changes of the rules
  MaxFaults,    \* bound: snapshots that fail, and restarts of the server
  Walk          \* how long notifying one snapshot may take

Time == 0..MaxTime

Key(e) == [kind |-> e.kind, node |-> e.node]

Keys == {Key(e) : e \in Readings}

ASSUME TimesAssumption ==
  /\ Cooldown \in Nat \ {0} /\ TickEvery \in Nat \ {0} /\ SendTimeout \in Nat
  /\ Minute \in Nat \ {0} /\ Day \in Nat \ {0}
  /\ {Channels, MaxTime, MaxFlips, MaxEdits, MaxFaults, Walk} \subseteq Nat

\* Every event of a snapshot may have to be sent to every channel.
ASSUME WalkAssumption ==
  IsFiniteSet(Readings) /\ Walk >= Cardinality(Readings) * (Channels * SendTimeout)

ASSUME RulesAssumption ==
  /\ InitRules \in Seq(Among(InitRules))
  /\ \A rule \in RuleChoices \cup Among(InitRules) : rule.silenceUntil \in Int

ASSUME NeverAssumption == Never \notin Int /\ Nothing \notin Readings

VARIABLES
  now,
  tick,      \* is there a tick in the ticker's channel
  readings,  \* what is the case
  rules,     \* the manager's rules
  lastSent,  \* the manager's memory of its notifications
  pc,        \* of the watcher: "tick", "eval" or "send"
  events,    \* events of the snapshot still to be evaluated
  current,   \* the event being sent, or Nothing
  left,      \* channels it has still to be sent to
  sendStart, \* when the current channel was called
  boot,      \* when the server started
  flips, edits, failures, restarts,
  due,       \* history: due[e]: since when e asks for a notification, or Never
  ended,     \* history: when e last ceased to be the case, or Never
  sent       \* history: the times of the notifications of a key since boot

vars == <<now, tick, readings, rules, lastSent, pc, events, current, left, sendStart,
          boot, flips, edits, failures, restarts, due, ended, sent>>

watchVars == <<pc, events, current, left, sendStart>>

budgets == <<flips, edits, failures, restarts>>

TypeOK ==
  /\ now \in Time
  /\ tick \in BOOLEAN
  /\ readings \subseteq Readings
  /\ lastSent \in [Keys -> Time \cup {Never}]
  /\ pc \in {"tick", "eval", "send"}
  /\ events \subseteq Readings
  /\ current \in Readings \cup {Nothing}
  /\ left \in 0..Channels
  /\ pc = "send" <=> current # Nothing
  /\ sendStart \in Time
  /\ boot \in 0..now
  /\ due \in [Readings -> Time \cup {Never}]
  /\ ended \in [Readings -> Time \cup {Never}]
  /\ sent \in [Keys -> SUBSET Time]

(***************************************************************************)
(* The rules.                                                              *)
(***************************************************************************)

Fits(rule, e) ==
  /\ rule.key.kind = e.kind
  /\ rule.key.node \in {AnyNode, e.node}
  /\ e.value >= rule.threshold

MinuteOfDay(t) == (t \div Minute) % Day

NoMidnight(w, m) ==   \* mutant: no case for a window that crosses midnight
  w.start <= m /\ m < w.end

InWindow(w, m) ==
  IF w.start <= w.end THEN w.start <= m /\ m < w.end ELSE w.start <= m \/ m < w.end

Silenced(rule, t) ==
  \/ t < rule.silenceUntil
  \/ \E w \in rule.muteWindows : InWindow(w, MinuteOfDay(t))

\* The first rule that fits decides, and says nothing while it is silent.
RulesSpeak(rs, e, t) ==
  \E rule \in FirstFit(rs, {r \in Among(rs) : Fits(r, e)}) : ~Silenced(rule, t)

\* Which rules should speak for e, whatever the manager does.
Wanted(rs, e, t) ==
  \E i \in DOMAIN rs :
    /\ Fits(rs[i], e) /\ ~Silenced(rs[i], t)
    /\ \A j \in DOMAIN rs : Fits(rs[j], e) => i <= j

Track(R, rs, t) ==
  /\ due' = [e \in Readings |-> IF ~(e \in R /\ Wanted(rs, e, t)) THEN Never
                                ELSE IF due[e] = Never THEN t ELSE due[e]]
  /\ ended' = [e \in Readings |-> IF e \in readings \ R THEN t ELSE ended[e]]

Init ==
  /\ now = 0
  /\ tick = FALSE
  /\ readings = {}
  /\ rules = InitRules
  /\ lastSent = [k \in Keys |-> Never]
  /\ pc = "tick"
  /\ events = {}
  /\ current = Nothing
  /\ left = 0
  /\ sendStart = 0
  /\ boot = 0
  /\ flips = 0 /\ edits = 0 /\ failures = 0 /\ restarts = 0
  /\ due = [e \in Readings |-> Never]
  /\ ended = [e \in Readings |-> Never]
  /\ sent = [k \in Keys |-> {}]

(***************************************************************************)
(* The nodes and the API.                                                  *)
(***************************************************************************)

\* A reading changes; of one kind, node and task there is one value at a time.
Flip(e) ==
  /\ flips < MaxFlips
  /\ flips' = flips + 1
  /\ readings' = IF e \in readings THEN readings \ {e}
                 ELSE {f \in readings : Key(f) # Key(e) \/ f.task # e.task} \cup {e}
  /\ Track(readings', rules, now)
  /\ UNCHANGED <<now, tick, rules, lastSent, watchVars, boot, edits, failures, restarts,
                 sent>>

ChangeRules(rs) ==
  /\ edits < MaxEdits
  /\ edits' = edits + 1
  /\ rules' = rs
  /\ Track(readings, rs, now)
  /\ UNCHANGED <<now, tick, readings, lastSent, watchVars, boot, flips, failures, restarts,
                 sent>>

SetRule(rule) == ChangeRules(WithRule(rules, rule))

DeleteRule(k) == Has(rules, k) /\ ChangeRules(WithoutKey(rules, k))

(***************************************************************************)
(* The watcher.                                                            *)
(***************************************************************************)

TakeSnapshot ==
  /\ pc = "tick"
  /\ tick
  /\ tick' = FALSE
  /\ events' = readings
  /\ pc' = "eval"
  /\ UNCHANGED <<now, readings, rules, lastSent, current, left, sendStart, boot, budgets,
                 due, ended, sent>>

\* AlertSnapshots fails: the tick is used up, and the next one tries again.
SnapshotFails ==
  /\ pc = "tick"
  /\ tick
  /\ failures + restarts < MaxFaults
  /\ failures' = failures + 1
  /\ tick' = FALSE
  /\ UNCHANGED <<now, readings, rules, lastSent, watchVars, boot, flips, edits, restarts,
                 due, ended, sent>>

WalkDone ==
  /\ pc = "eval"
  /\ events = {}
  /\ pc' = "tick"
  /\ UNCHANGED <<now, tick, readings, rules, lastSent, events, current, left, sendStart,
                 boot, budgets, due, ended, sent>>

HalfCooling(e) ==   \* mutant: half the cooldown
  lastSent[Key(e)] # Never /\ now - lastSent[Key(e)] < Cooldown \div 2

Cooling(e) == lastSent[Key(e)] # Never /\ now - lastSent[Key(e)] < Cooldown

Passes(e) == ~Cooling(e) /\ RulesSpeak(rules, e, now) /\ Channels > 0

DropAndRemember(e) ==   \* mutant: lastSent is written before the rules are looked at
  /\ pc = "eval"
  /\ e \in events
  /\ ~Passes(e)
  /\ events' = events \ {e}
  /\ lastSent' = IF Cooling(e) THEN lastSent ELSE [lastSent EXCEPT ![Key(e)] = now]
  /\ UNCHANGED <<now, tick, readings, rules, pc, current, left, sendStart, boot, budgets,
                 due, ended, sent>>

Drop(e) ==
  /\ pc = "eval"
  /\ e \in events
  /\ ~Passes(e)
  /\ events' = events \ {e}
  /\ UNCHANGED <<now, tick, readings, rules, lastSent, pc, current, left, sendStart,
                 boot, budgets, due, ended, sent>>

\* lastSent is written before anything is sent, and stays when sending fails.
Notify(e) ==
  /\ pc = "eval"
  /\ e \in events
  /\ Passes(e)
  /\ events' = events \ {e}
  /\ lastSent' = [lastSent EXCEPT ![Key(e)] = now]
  /\ sent' = [sent EXCEPT ![Key(e)] = @ \cup {now}]
  /\ pc' = "send"
  /\ current' = e
  /\ left' = Channels
  /\ sendStart' = now
  /\ UNCHANGED <<now, tick, readings, rules, boot, budgets, due, ended>>

\* One channel is done, with or without an error, which is only logged.
SendOne ==
  /\ pc = "send"
  /\ left' = left - 1
  /\ sendStart' = now
  /\ pc' = IF left = 1 THEN "eval" ELSE "send"
  /\ current' = IF left = 1 THEN Nothing ELSE current
  /\ UNCHANGED <<now, tick, readings, rules, lastSent, events, boot, budgets,
                 due, ended, sent>>

SendForever ==   \* mutant: Send gets no deadline
  /\ now < MaxTime
  /\ pc = "tick" => ~tick
  /\ pc # "eval"
  /\ now' = now + 1
  /\ tick' = (tick \/ (now' - boot) % TickEvery = 0)
  /\ Track(readings, rules, now')
  /\ UNCHANGED <<readings, rules, lastSent, watchVars, boot, budgets, sent>>

AdvanceTime ==
  /\ now < MaxTime
  /\ \/ pc = "tick" /\ ~tick
     \/ pc = "send" /\ now < sendStart + SendTimeout
  /\ now' = now + 1
  /\ tick' = (tick \/ (now' - boot) % TickEvery = 0)
  /\ Track(readings, rules, now')
  /\ UNCHANGED <<readings, rules, lastSent, watchVars, boot, budgets, sent>>

\* The server stops at any step and starts again: the rules come back from the
\* table (AlertRules says when they do not), the memory of what was sent never.
Restart ==
  /\ failures + restarts < MaxFaults
  /\ restarts' = restarts + 1
  /\ boot' = now
  /\ tick' = FALSE
  /\ pc' = "tick" /\ events' = {} /\ current' = Nothing /\ left' = 0 /\ sendStart' = now
  /\ lastSent' = [k \in Keys |-> Never]
  /\ sent' = [k \in Keys |-> {}]
  /\ UNCHANGED <<now, readings, rules, flips, edits, failures, due, ended>>

Api ==
  \/ \E rule \in RuleChoices : SetRule(rule)
  \/ \E k \in Keys \cup {[kind |-> e.kind, node |-> AnyNode] : e \in Readings} :
       DeleteRule(k)

Watcher ==
  \/ TakeSnapshot \/ SnapshotFails \/ WalkDone \/ SendOne
  \/ \E e \in events : Drop(e) \/ Notify(e)

Next == (\E e \in Readings : Flip(e)) \/ Api \/ Watcher \/ Restart \/ AdvanceTime

Spec == Init /\ [][Next]_vars

(***************************************************************************)
(* Properties.                                                             *)
(***************************************************************************)

\* Two notifications of one kind and node, in one life of the server, are at least
\* Cooldown apart, however many tasks of the node raise it and however the rules
\* change in between (README: deduplicated within 5 minutes).
Deduplicated ==
  \A k \in Keys : \A s, t \in sent[k] : s < t => t - s >= Cooldown

Later(s, t) == IF s < t THEN t ELSE s

LatestSent(k) == CHOOSE t \in sent[k] : \A s \in sent[k] : s <= t

\* From when on a notification for e is called for: since the server is up, it is
\* the case and the rules want it, but not within the cooldown of the one before.
CalledFor(e) ==
  IF sent[Key(e)] = {} THEN Later(due[e], boot)
  ELSE Later(due[e], LatestSent(Key(e)) + Cooldown)

\* What is the case and wanted is notified by the end of the walk after the one
\* under way, or after the next tick, and notified again after the cooldown as
\* long as it lasts; every snapshot that fails costs one tick, and what
\* a restart cut off is notified after it like anything new.  In
\* particular silence only delays: the time a rule was silent, had another
\* threshold or was missing does not count as a notification.
NotifiedInTime ==
  \A e \in Readings :
    due[e] # Never /\ Channels > 0 =>
      now - CalledFor(e) <= Later(TickEvery, Walk) + Walk + failures * TickEvery

\* What is being sent is no old news: it was the case at most Walk ago, the
\* time it takes to send every event of a snapshot.
NoOldNews ==
  pc = "send" /\ current \notin readings => now - ended[current] <= Walk

\* A window as it should be written: from a minute of the day to another, or to
\* the end of the day.
Window == [start: 0..(Day - 1), end: 0..Day]

\* The minutes of a window, counted round the clock from its start.
MinutesOf(w) ==
  LET length == IF w.start <= w.end THEN w.end - w.start ELSE Day - w.start + w.end
  IN {(w.start + i) % Day : i \in 0..(length - 1)}

\* A notification begins only when the rule that decides on it is neither before
\* its silence_until nor at a minute of one of its windows, one that crosses
\* midnight included (alert.go: silenced), whatever the rule was when the
\* snapshot was taken.
NothingWhileMuted ==
  [][current = Nothing /\ current' # Nothing =>
       \E i \in DOMAIN rules :
         /\ Fits(rules[i], current')
         /\ \A j \in DOMAIN rules : Fits(rules[j], current') => i <= j
         /\ now >= rules[i].silenceUntil
         /\ \A w \in rules[i].muteWindows \cap Window : MinuteOfDay(now) \notin MinutesOf(w)]_vars
===============================================================================
