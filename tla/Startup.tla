-------------------------------- MODULE Startup --------------------------------
(***************************************************************************)
(* The start of a server on its database: tables are made where they are   *)
(* missing, columns of later releases are added one by one after a look    *)
(* whether they are there, and tokens and secrets that the command line    *)
(* does not give are read, or made up and stored.  A process may end       *)
(* between any two statements, and a second one may start on the same      *)
(* database before the first has ended.                                    *)
(*                                                                         *)
(* What a server hands out are its tokens, and sessions, which are signed  *)
(* with a secret and expire.                                               *)
(***************************************************************************)
EXTENDS Integers, Sequences, Functions

CONSTANTS
  Servers,    \* processes
  Tables,     \* the sequence of CREATE TABLE IF NOT EXISTS
  Added,      \* the sequence of the columns of ensureColumns, [table, column]
  Keys,       \* the sequence of the secrets
  SignKey,    \* the one that signs sessions
  None, Never,
  Given,      \* what the command line gives for any key, if anything
  TTL,        \* a session's, 24 hours
  MaxSecret,  \* bound: secrets made up
  MaxStarts,  \* bound: starts of a server
  MaxTime     \* bound: the clock

IsList(l) == l \in Seq(Range(l)) /\ l # <<>>

ASSUME StartupAssumption ==
  /\ IsList(Tables) /\ IsList(Added) /\ IsList(Keys)
  /\ SignKey \in Range(Keys)
  /\ {None, Given, Never} \cap Int = {} /\ None # Given
  /\ {TTL, MaxSecret, MaxStarts, MaxTime} \subseteq Nat
  /\ \A c \in Range(Added) : c.table \in Range(Tables)

VARIABLES
  now,
  tables,   \* of the database
  columns,  \* those of Added that it has
  stored,   \* stored[k]: the row of secrets, or None
  pc,       \* pc[s]: "off", "tables", "look", "add", "read", "write", "run" or "dead"
  at,       \* at[s]: which table, column or secret it is at
  given,    \* given[s]: the keys its command line gives
  mem,      \* mem[s][k]: the secret it uses, or None
  made,     \* secrets made up so far
  starts,
  handed,   \* history: what was handed out: [key, secret, exp]
  alone,    \* history: alone[s]: no other process ran since s started
  raced     \* history: keys that two servers made a secret for at once

vars == <<now, tables, columns, stored, pc, at, given, mem, made, starts, handed, alone, raced>>

dbVars == <<tables, columns, stored>>

Secrets == 1..MaxSecret

TypeOK ==
  /\ now \in 0..MaxTime
  /\ tables \subseteq Range(Tables) /\ columns \subseteq Range(Added)
  /\ stored \in [Range(Keys) -> Secrets \cup {None}]
  /\ pc \in [Servers -> {"off", "tables", "look", "add", "read", "write", "run", "dead"}]
  /\ at \in [Servers -> Nat]
  /\ given \in [Servers -> SUBSET Range(Keys)]
  /\ mem \in [Servers -> [Range(Keys) -> Secrets \cup {None, Given}]]
  /\ made \in 0..MaxSecret

\* A database that is new, or was made by an earlier release.
Init ==
  /\ now = 0
  /\ \E t \in 0..Len(Tables), c \in 0..Len(Added) :
       /\ tables = Range(SubSeq(Tables, 1, t))
       /\ columns = {a \in Range(SubSeq(Added, 1, c)) : a.table \in tables}
  /\ stored = [k \in Range(Keys) |-> None]
  /\ pc = [s \in Servers |-> "off"]
  /\ at = [s \in Servers |-> 1]
  /\ given = [s \in Servers |-> {}]
  /\ mem = [s \in Servers |-> [k \in Range(Keys) |-> None]]
  /\ made = 0 /\ starts = 0
  /\ handed = {}
  /\ alone = [s \in Servers |-> TRUE]
  /\ raced = {}

Off(s) == pc[s] \in {"off", "dead"}

Start(s, ks) ==
  /\ Off(s)
  /\ starts < MaxStarts
  /\ starts' = starts + 1
  /\ pc' = [pc EXCEPT ![s] = "tables"]
  /\ at' = [at EXCEPT ![s] = 1]
  /\ given' = [given EXCEPT ![s] = ks]
  /\ mem' = [mem EXCEPT ![s] = [k \in Range(Keys) |-> IF k \in ks THEN Given ELSE None]]
  /\ alone' = [t \in Servers |-> \A u \in Servers \ {t} : Off(u) /\ u # s]
  /\ UNCHANGED <<now, dbVars, made, handed, raced>>

\* A crash, a signal, or a statement that fails: the process ends.
Stop(s) ==
  /\ ~Off(s)
  /\ pc' = [pc EXCEPT ![s] = "off"]
  /\ UNCHANGED <<now, dbVars, at, given, mem, made, starts, handed, alone, raced>>

\* From one table, column or secret to the next, or to the next stage.
Advance(s, list, stay, next) ==
  /\ at' = [at EXCEPT ![s] = IF at[s] < Len(list) THEN at[s] + 1 ELSE 1]
  /\ pc' = [pc EXCEPT ![s] = IF at[s] < Len(list) THEN stay ELSE next]

(***************************************************************************)
(* The schema.                                                             *)
(***************************************************************************)

\* A table that is made has all its columns, later ones included.
CreateTable(s) ==
  /\ pc[s] = "tables"
  /\ LET t == Tables[at[s]]
     IN /\ tables' = tables \cup {t}
        /\ columns' = IF t \in tables THEN columns
                      ELSE columns \cup {c \in Range(Added) : c.table = t}
  /\ Advance(s, Tables, "tables", "look")
  /\ UNCHANGED <<now, stored, given, mem, made, starts, handed, alone, raced>>

StopAtFirstKnown(s) ==   \* mutant: the first column that is there ends the loop
  /\ pc[s] = "look"
  /\ IF Added[at[s]] \in columns
     THEN pc' = [pc EXCEPT ![s] = "read"] /\ at' = [at EXCEPT ![s] = 1]
     ELSE pc' = [pc EXCEPT ![s] = "add"] /\ UNCHANGED at
  /\ UNCHANGED <<now, dbVars, given, mem, made, starts, handed, alone, raced>>

NeverLooks(s) ==   \* mutant: ALTER TABLE without a look
  /\ pc[s] = "look"
  /\ pc' = [pc EXCEPT ![s] = "add"]
  /\ UNCHANGED <<now, dbVars, at, given, mem, made, starts, handed, alone, raced>>

\* PRAGMA table_info.
HasColumn(s) ==
  /\ pc[s] = "look"
  /\ IF Added[at[s]] \in columns
     THEN Advance(s, Added, "look", "read")
     ELSE pc' = [pc EXCEPT ![s] = "add"] /\ UNCHANGED at
  /\ UNCHANGED <<now, dbVars, given, mem, made, starts, handed, alone, raced>>

\* ALTER TABLE fails when the column is there, and the server with it.
AddColumn(s) ==
  /\ pc[s] = "add"
  /\ IF Added[at[s]] \in columns
     THEN pc' = [pc EXCEPT ![s] = "dead"] /\ UNCHANGED <<at, columns>>
     ELSE columns' = columns \cup {Added[at[s]]} /\ Advance(s, Added, "look", "read")
  /\ UNCHANGED <<now, tables, stored, given, mem, made, starts, handed, alone, raced>>

(***************************************************************************)
(* The secrets.                                                            *)
(***************************************************************************)

Key(s) == Keys[at[s]]

HandOut(k, v, exp) == handed' = handed \cup {[key |-> k, secret |-> v, exp |-> exp]}

\* Two servers that make one up at once, whichever is the first to store it.
MakesUp(k) == {s \in Servers : pc[s] = "write" /\ Key(s) = k}

IsGiven(s) ==
  /\ pc[s] = "read"
  /\ Key(s) \in given[s]
  /\ Advance(s, Keys, "read", "run")
  /\ UNCHANGED <<now, dbVars, given, mem, made, starts, handed, alone, raced>>

NothingFound(k) == TRUE   \* mutant: the row is not looked at

Missing(k) == stored[k] = None

UseStored(s) ==
  /\ pc[s] = "read"
  /\ Key(s) \notin given[s]
  /\ ~Missing(Key(s))
  /\ mem' = [mem EXCEPT ![s][Key(s)] = stored[Key(s)]]
  /\ HandOut(Key(s), stored[Key(s)], Never)
  /\ Advance(s, Keys, "read", "run")
  /\ UNCHANGED <<now, dbVars, given, made, starts, alone, raced>>

MakeUp(s) ==
  /\ pc[s] = "read"
  /\ Key(s) \notin given[s]
  /\ Missing(Key(s))
  /\ made < MaxSecret
  /\ made' = made + 1
  /\ mem' = [mem EXCEPT ![s][Key(s)] = made']
  /\ pc' = [pc EXCEPT ![s] = "write"]
  /\ raced' = IF MakesUp(Key(s)) = {} THEN raced ELSE raced \cup {Key(s)}
  /\ UNCHANGED <<now, dbVars, at, given, starts, handed, alone>>

\* INSERT OR REPLACE; it is logged when it is stored.
StoreSecret(s) ==
  /\ pc[s] = "write"
  /\ stored' = [stored EXCEPT ![Key(s)] = mem[s][Key(s)]]
  /\ HandOut(Key(s), mem[s][Key(s)], Never)
  /\ Advance(s, Keys, "read", "run")
  /\ UNCHANGED <<now, tables, columns, given, mem, made, starts, alone, raced>>

(***************************************************************************)
(* A server that runs.                                                     *)
(***************************************************************************)

Login(s) ==
  /\ pc[s] = "run"
  /\ HandOut(SignKey, mem[s][SignKey], now + TTL)
  /\ UNCHANGED <<now, dbVars, pc, at, given, mem, made, starts, alone, raced>>

AdvanceTime ==
  /\ now < MaxTime
  /\ now' = now + 1
  /\ UNCHANGED <<dbVars, pc, at, given, mem, made, starts, handed, alone, raced>>

\* A token that is equal, or a session whose signature fits and that has not
\* expired.
Accepts(s, c) == c.secret = mem[s][c.key] /\ (c.exp = Never \/ now <= c.exp)

Open(s) == CreateTable(s) \/ HasColumn(s) \/ AddColumn(s)

EnsureSecret(s) == IsGiven(s) \/ UseStored(s) \/ MakeUp(s) \/ StoreSecret(s)

Next ==
  \/ AdvanceTime
  \/ \E s \in Servers :
       \/ \E ks \in SUBSET Range(Keys) : Start(s, ks)
       \/ Stop(s) \/ Open(s) \/ EnsureSecret(s) \/ Login(s)

Spec == Init /\ [][Next]_vars

(***************************************************************************)
(* Properties.                                                             *)
(***************************************************************************)

\* A server that runs has a database with every table and column, however old
\* the database was and wherever earlier starts were cut off.
SchemaIsComplete ==
  \A s \in Servers : pc[s] \in {"read", "write", "run"} =>
    tables = Range(Tables) /\ columns = Range(Added)

\* A server that starts alone is never kept from starting by what a start that
\* was cut off has left behind.
OpensAlone == \A s \in Servers : pc[s] = "dead" => ~alone[s]

\* What a server without a flag for it hands out, a token or a session that has
\* not expired, every later server without the flag accepts, through any number
\* of restarts, unless two of them made the secret up at once.
CredentialsLast ==
  \A s \in Servers, c \in handed :
    /\ pc[s] = "run"
    /\ c.secret # Given /\ c.key \notin given[s]
    /\ c.key \notin raced
    /\ c.exp # Never => now <= c.exp
    => Accepts(s, c)

(***************************************************************************)
(* A claim of the documentation that the code does not meet when two       *)
(* servers start on one database.                                          *)
(***************************************************************************)

\* README: tokens and secrets that are made up stay the same over restarts.
TokensStay ==
  \A c, d \in handed : c.key = d.key /\ Given \notin {c.secret, d.secret} => c.secret = d.secret
===============================================================================
