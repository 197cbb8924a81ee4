------------------------------ MODULE ConfigStore ------------------------------
(***************************************************************************)
(* The agent's configuration file and the copy of it in memory.  The file  *)
(* is read once at the start, again on every SIGHUP, and again by a poller *)
(* that compares its modification time with the one noted last.  A reload  *)
(* reads the file, asks for its time, notes the time and takes the content *)
(* over, in four steps, and the two reloaders run at once; meanwhile an    *)
(* editor writes, removes and writes again.                                *)
(*                                                                         *)
(* A content is its number in the order of the edits: 0 is the empty       *)
(* FileConfig, which stands for the defaults.  An edit that is written     *)
(* piece by piece is several, and some may not parse.                      *)
(***************************************************************************)
EXTENDS Integers

CONSTANTS
  ZeroTime,    \* time.Time{}, before every modification time
  MaxVersion,  \* bound: edits of the file
  MaxTime      \* bound: the clock of modification times

ASSUME TimeAssumption == ZeroTime \in Int /\ ZeroTime < 0
ASSUME EditBoundsAssumption == MaxVersion \in Nat /\ MaxTime \in Nat

Reloaders == {"start", "hup", "poll"}

Versions == 0..MaxVersion

Times == (0..MaxTime) \cup {ZeroTime}

VARIABLES
  now,
  exists, version, mtime,  \* the file: is it there, its content and its time
  good,                    \* the contents that parse
  lastMod, cfg,            \* the fields of ConfigStore
  pc,                      \* pc[r]: where reloader r is
  data,                    \* data[r]: the content r has read
  stat,                    \* stat[r]: the modification time r was told
  hup,                     \* is there a signal in the channel
  crossed                  \* history: the last edit fell into a reload, or
                           \* into the same instant as the one before

vars == <<now, exists, version, mtime, good, lastMod, cfg, pc, data, stat, hup, crossed>>

fileVars == <<now, exists, version, mtime, good, crossed>>

TypeOK ==
  /\ now \in 0..MaxTime
  /\ exists \in BOOLEAN
  /\ version \in Versions
  /\ mtime \in Times
  /\ good \subseteq Versions
  /\ lastMod \in Times
  /\ cfg \in Versions
  /\ pc \in [Reloaders -> {"idle", "compare", "read", "stat", "note", "store", "done"}]
  /\ data \in [Reloaders -> Versions]
  /\ stat \in [Reloaders -> Times]
  /\ hup \in BOOLEAN
  /\ crossed \in BOOLEAN

Init ==
  /\ now = 0
  /\ exists = FALSE
  /\ version = 0
  /\ mtime = ZeroTime
  /\ good = {}
  /\ lastMod = ZeroTime
  /\ cfg = 0
  /\ pc = [r \in Reloaders |-> IF r = "start" THEN "read" ELSE "idle"]
  /\ data = [r \in Reloaders |-> 0]
  /\ stat = [r \in Reloaders |-> ZeroTime]
  /\ hup = FALSE
  /\ crossed = FALSE

Started == pc["start"] = "done"

\* The end of a reload: LoadConfig goes on, a loop waits for its next turn.
Rest(r) == IF r = "start" THEN "done" ELSE "idle"

GoTo(r, place) == pc' = [pc EXCEPT ![r] = place]

(***************************************************************************)
(* The editor, and the clock of the file system.                           *)
(***************************************************************************)

MidReload(r) == pc[r] \in {"stat", "note", "store"}

Write(parses) ==
  /\ version < MaxVersion
  /\ version' = version + 1
  /\ good' = IF parses THEN good \cup {version'} ELSE good
  /\ exists' = TRUE
  /\ mtime' = now
  /\ crossed' = (now <= mtime \/ \E r \in Reloaders : MidReload(r))
  /\ UNCHANGED <<now, lastMod, cfg, pc, data, stat, hup>>

Remove ==
  /\ exists
  /\ exists' = FALSE
  /\ UNCHANGED <<now, version, mtime, good, lastMod, cfg, pc, data, stat, hup, crossed>>

AdvanceTime ==
  /\ now < MaxTime
  /\ now' = now + 1
  /\ UNCHANGED <<exists, version, mtime, good, lastMod, cfg, pc, data, stat, hup, crossed>>

(***************************************************************************)
(* What starts a reload.                                                   *)
(***************************************************************************)

\* The channel holds one signal; one that finds it full is dropped.
Signal ==
  /\ Started
  /\ ~hup
  /\ hup' = TRUE
  /\ UNCHANGED <<fileVars, lastMod, cfg, pc, data, stat>>

TakeSignal ==
  /\ hup
  /\ pc["hup"] = "idle"
  /\ hup' = FALSE
  /\ GoTo("hup", "read")
  /\ UNCHANGED <<fileVars, lastMod, cfg, data, stat>>

\* reloadIfChanged, until it has the lock; it does nothing without a file.
Poll ==
  /\ Started
  /\ pc["poll"] = "idle"
  /\ exists
  /\ stat' = [stat EXCEPT !["poll"] = mtime]
  /\ GoTo("poll", "compare")
  /\ UNCHANGED <<fileVars, lastMod, cfg, data, hup>>

Changed(r) == stat[r] > lastMod

Compare ==
  /\ pc["poll"] = "compare"
  /\ GoTo("poll", IF Changed("poll") THEN "read" ELSE "idle")
  /\ UNCHANGED <<fileVars, lastMod, cfg, data, stat, hup>>

(***************************************************************************)
(* A reload.                                                               *)
(***************************************************************************)

KeepZeroOnError(r) ==   \* mutant: an error of Unmarshal is only logged
  /\ pc[r] = "read"
  /\ IF exists
     THEN /\ data' = [data EXCEPT ![r] = IF version \in good THEN version ELSE 0]
          /\ GoTo(r, "stat")
     ELSE GoTo(r, Rest(r)) /\ UNCHANGED data
  /\ UNCHANGED <<fileVars, lastMod, cfg, stat, hup>>

\* os.ReadFile and Unmarshal; nothing happens to a file that does not parse.
ReadFile(r) ==
  /\ pc[r] = "read"
  /\ IF exists /\ version \in good
     THEN data' = [data EXCEPT ![r] = version] /\ GoTo(r, "stat")
     ELSE GoTo(r, Rest(r)) /\ UNCHANGED data
  /\ UNCHANGED <<fileVars, lastMod, cfg, stat, hup>>

\* os.Stat; without an answer the time noted before stays.
Stat(r) ==
  /\ pc[r] = "stat"
  /\ IF exists
     THEN stat' = [stat EXCEPT ![r] = mtime] /\ GoTo(r, "note")
     ELSE GoTo(r, "store") /\ UNCHANGED stat
  /\ UNCHANGED <<fileVars, lastMod, cfg, data, hup>>

ReloadTime(r) == now         \* mutant: the time of the reload, not the file's

NotedTime(r) == stat[r]

Note(r) ==
  /\ pc[r] = "note"
  /\ lastMod' = NotedTime(r)
  /\ GoTo(r, "store")
  /\ UNCHANGED <<fileVars, cfg, data, stat, hup>>

Store(r) ==
  /\ pc[r] = "store"
  /\ cfg' = data[r]
  /\ GoTo(r, Rest(r))
  /\ UNCHANGED <<fileVars, lastMod, data, stat, hup>>

Reload(r) == ReadFile(r) \/ Stat(r) \/ Note(r) \/ Store(r)

Editor == Remove \/ \E parses \in BOOLEAN : Write(parses)

Next ==
  \/ Editor \/ AdvanceTime \/ Signal
  \/ TakeSignal \/ Poll \/ Compare
  \/ \E r \in Reloaders : Reload(r)

Spec == Init /\ [][Next]_vars

\* The poller's ticker does not stop, and a reload that has begun goes on;
\* nobody has to edit the file or to send a signal.
Fairness ==
  /\ WF_vars(Poll \/ Compare)
  /\ WF_vars(TakeSignal)
  /\ \A r \in Reloaders : WF_vars(Reload(r))

FairSpec == Spec /\ Fairness

(***************************************************************************)
(* Properties.                                                             *)
(***************************************************************************)

Settled == crossed \/ ~exists \/ version \notin good \/ cfg = version

\* The newest content of the file comes into use, without a signal, whatever
\* was broken, removed or signalled before, provided the last edit fell into no
\* reload and not into the same instant as the edit before it.
CleanEditsArePickedUp == []<>Settled

\* The contents in use never go back to an older one unless an edit crossed a
\* reload: of two reloads at once, the one that ends last has the newest file,
\* and a file that is missing or does not parse leaves what is in use.
NoStepBack == [][cfg' >= cfg \/ crossed]_vars

(***************************************************************************)
(* A claim of the documentation that the code does not meet.               *)
(***************************************************************************)

\* docs/configuration.md: an edit is hot-reloaded within 30 s of being saved.
\* An edit between a reload's reading and its Stat never is.
EditsArePickedUp == []<>(~exists \/ version \notin good \/ cfg = version)
===============================================================================
