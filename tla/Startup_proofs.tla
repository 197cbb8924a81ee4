---------------------------- MODULE Startup_proofs ----------------------------
(***************************************************************************)
(* Theorems about Startup, for any servers, any lists of tables, columns   *)
(* and secrets, any earlier database, and any number of starts.            *)
(***************************************************************************)
EXTENDS Startup, SequenceTheorems, TLAPS

USE DEF dbVars

(***************************************************************************)
(* Types.                                                                  *)
(***************************************************************************)

\* A server is at a table, a column or a secret that there is.
InPlace ==
  \A s \in Servers :
    /\ pc[s] = "tables" => at[s] \in 1..Len(Tables)
    /\ pc[s] \in {"look", "add"} => at[s] \in 1..Len(Added)
    /\ pc[s] \in {"read", "write"} => at[s] \in 1..Len(Keys)

\* What a server is about to store is a secret that was made up.
MadeUp == \A s \in Servers : pc[s] = "write" => mem[s][Key(s)] \in Secrets

TypeInv == TypeOK /\ InPlace /\ MadeUp

\* A list has at least one element, at the places from 1 to its length.
LEMMA Lists ==
  ASSUME NEW l, IsList(l)
  PROVE  /\ Len(l) \in Nat /\ Len(l) >= 1 /\ DOMAIN l = 1..Len(l)
         /\ Range(l) = {l[i] : i \in 1..Len(l)}
<1>1. l \in Seq(Range(l)) /\ l # <<>>
  BY DEF IsList
<1>2. Len(l) \in Nat /\ DOMAIN l = 1..Len(l)
  BY <1>1
<1>3. Len(l) # 0
  BY <1>1, EmptySeq
<1>4. Range(l) = {l[i] : i \in DOMAIN l}
  BY Zenon DEF Range
<1> QED
  BY <1>2, <1>3, <1>4

\* The three lists of the model, as the proofs below use them.
LEMMA TheLists ==
  /\ Len(Tables) \in Nat /\ Len(Tables) >= 1 /\ Range(Tables) = {Tables[i] : i \in 1..Len(Tables)}
  /\ Len(Added) \in Nat /\ Len(Added) >= 1 /\ Range(Added) = {Added[i] : i \in 1..Len(Added)}
  /\ Len(Keys) \in Nat /\ Len(Keys) >= 1 /\ Range(Keys) = {Keys[i] : i \in 1..Len(Keys)}
BY Lists, StartupAssumption

\* Where a server is after an element of a list, and that others stay put.
LEMMA Advances ==
  ASSUME TypeOK, NEW s \in Servers, NEW list, NEW stay, NEW next, Advance(s, list, stay, next)
  PROVE  /\ at' = [at EXCEPT ![s] = at'[s]] /\ pc' = [pc EXCEPT ![s] = pc'[s]]
         /\ \/ at[s] < Len(list) /\ at'[s] = at[s] + 1 /\ pc'[s] = stay
            \/ ~(at[s] < Len(list)) /\ at'[s] = 1 /\ pc'[s] = next
BY DEF Advance, TypeOK

\* A server that has looked at element i of n is at the next one, or at a first.
LEMMA NextPlace ==
  ASSUME NEW n \in Nat, NEW i \in 1..n
  PROVE  i < n => i + 1 \in 1..n
OBVIOUS

\* The steps of opening the database keep the types.
LEMMA OpenType ==
  ASSUME TypeInv, NEW s \in Servers, Open(s)
  PROVE  TypeInv'
<1> USE DEF TypeInv
<1>1. CASE CreateTable(s)
  <2>1. at[s] \in 1..Len(Tables) /\ pc[s] = "tables"
    BY <1>1 DEF CreateTable, InPlace
  <2>2. tables' \subseteq Range(Tables) /\ columns' \subseteq Range(Added)
    BY <1>1, <2>1, TheLists DEF CreateTable, TypeOK
  <2>3. /\ at' = [at EXCEPT ![s] = at'[s]] /\ pc' = [pc EXCEPT ![s] = pc'[s]]
        /\ \/ at[s] < Len(Tables) /\ at'[s] = at[s] + 1 /\ pc'[s] = "tables"
           \/ at'[s] = 1 /\ pc'[s] = "look"
    BY <1>1, Advances DEF CreateTable
  <2>4. at' \in [Servers -> Nat]
    BY <2>3 DEF TypeOK
  <2>5. InPlace'
    BY <2>1, <2>3, TheLists DEF InPlace, TypeOK
  <2>6. MadeUp'
    BY <1>1, <2>3 DEF CreateTable, MadeUp, Key, TypeOK
  <2> QED
    BY <1>1, <2>2, <2>3, <2>4, <2>5, <2>6 DEF CreateTable, TypeOK
<1>2. CASE HasColumn(s)
  <2>1. at[s] \in 1..Len(Added) /\ pc[s] = "look"
    BY <1>2 DEF HasColumn, InPlace
  <2>2. /\ at' = [at EXCEPT ![s] = at'[s]] /\ pc' = [pc EXCEPT ![s] = pc'[s]]
        /\ \/ at[s] < Len(Added) /\ at'[s] = at[s] + 1 /\ pc'[s] = "look"
           \/ at'[s] = 1 /\ pc'[s] = "read"
           \/ at'[s] = at[s] /\ pc'[s] = "add"
    <3>1. CASE Added[at[s]] \in columns
      BY <1>2, <3>1, Advances DEF HasColumn
    <3>2. CASE Added[at[s]] \notin columns
      BY <1>2, <3>2 DEF HasColumn, TypeOK
    <3> QED
      BY <3>1, <3>2
  <2>3. at' \in [Servers -> Nat]
    BY <2>2 DEF TypeOK
  <2>4. InPlace'
    BY <2>1, <2>2, TheLists DEF InPlace, TypeOK
  <2>5. MadeUp'
    BY <1>2, <2>2 DEF HasColumn, MadeUp, Key, TypeOK
  <2> QED
    BY <1>2, <2>2, <2>3, <2>4, <2>5 DEF HasColumn, TypeOK
<1>3. CASE AddColumn(s)
  <2>1. at[s] \in 1..Len(Added) /\ pc[s] = "add"
    BY <1>3 DEF AddColumn, InPlace
  <2>2. /\ at' = [at EXCEPT ![s] = at'[s]] /\ pc' = [pc EXCEPT ![s] = pc'[s]]
        /\ \/ at[s] < Len(Added) /\ at'[s] = at[s] + 1 /\ pc'[s] = "look"
           \/ at'[s] = 1 /\ pc'[s] = "read"
           \/ at'[s] = at[s] /\ pc'[s] = "dead"
    <3>1. CASE Added[at[s]] \notin columns
      BY <1>3, <3>1, Advances DEF AddColumn
    <3>2. CASE Added[at[s]] \in columns
      BY <1>3, <3>2 DEF AddColumn, TypeOK
    <3> QED
      BY <3>1, <3>2
  <2>3. at' \in [Servers -> Nat] /\ columns' \subseteq Range(Added)
    BY <1>3, <2>1, <2>2, TheLists DEF AddColumn, TypeOK
  <2>4. InPlace'
    BY <2>1, <2>2, TheLists DEF InPlace, TypeOK
  <2>5. MadeUp'
    BY <1>3, <2>2 DEF AddColumn, MadeUp, Key, TypeOK
  <2> QED
    BY <1>3, <2>2, <2>3, <2>4, <2>5 DEF AddColumn, TypeOK
<1> QED
  BY <1>1, <1>2, <1>3 DEF Open

\* The steps through the secrets keep the types.
LEMMA SecretType ==
  ASSUME TypeInv, NEW s \in Servers, EnsureSecret(s)
  PROVE  TypeInv'
<1> USE DEF TypeInv
<1>1. pc[s] \in {"read", "write"} /\ at[s] \in 1..Len(Keys) /\ Key(s) \in Range(Keys)
  <2>1. pc[s] \in {"read", "write"}
    BY DEF EnsureSecret, IsGiven, UseStored, MakeUp, StoreSecret
  <2> QED
    BY <2>1, TheLists DEF InPlace, Key
<1>2. ASSUME Advance(s, Keys, "read", "run")
      PROVE  /\ at' \in [Servers -> Nat] /\ InPlace'
             /\ pc' \in [Servers -> {"off", "tables", "look", "add", "read", "write", "run", "dead"}]
             /\ (\A t \in Servers \ {s} : mem'[t] = mem[t]) => MadeUp'
  <2>1. /\ at' = [at EXCEPT ![s] = at'[s]] /\ pc' = [pc EXCEPT ![s] = pc'[s]]
        /\ \/ at[s] < Len(Keys) /\ at'[s] = at[s] + 1 /\ pc'[s] = "read"
           \/ at'[s] = 1 /\ pc'[s] = "run"
    BY <1>2, Advances
  <2>2. at' \in [Servers -> Nat]
    BY <2>1 DEF TypeOK
  <2>3. InPlace'
    BY <1>1, <2>1, TheLists DEF InPlace, TypeOK
  <2>4. ASSUME \A t \in Servers \ {s} : mem'[t] = mem[t]
        PROVE  MadeUp'
    BY <2>1, <2>4 DEF MadeUp, Key, TypeOK
  <2> QED
    BY <2>1, <2>2, <2>3, <2>4 DEF TypeOK
<1>3. CASE IsGiven(s)
  BY <1>2, <1>3 DEF IsGiven, TypeOK
<1>4. CASE UseStored(s)
  <2>1. stored[Key(s)] \in Secrets
    BY <1>1, <1>4 DEF UseStored, Missing, TypeOK
  <2>2. mem' \in [Servers -> [Range(Keys) -> Secrets \cup {None, Given}]]
    BY <1>1, <1>4, <2>1 DEF UseStored, TypeOK
  <2>3. \A t \in Servers \ {s} : mem'[t] = mem[t]
    BY <1>4 DEF UseStored, TypeOK
  <2> QED
    BY <1>2, <1>4, <2>2, <2>3 DEF UseStored, TypeOK
<1>5. CASE MakeUp(s)
  <2>1. made' \in 0..MaxSecret /\ made' \in Secrets
    BY <1>5, StartupAssumption DEF MakeUp, TypeOK, Secrets
  <2>2. mem' \in [Servers -> [Range(Keys) -> Secrets \cup {None, Given}]]
    BY <1>1, <1>5, <2>1 DEF MakeUp, TypeOK
  <2>3. InPlace'
    BY <1>1, <1>5 DEF MakeUp, InPlace, TypeOK
  <2>4. /\ mem'[s][Key(s)] = made' /\ pc'[s] = "write" /\ at' = at
        /\ \A t \in Servers \ {s} : mem'[t] = mem[t] /\ pc'[t] = pc[t]
    BY <1>1, <1>5 DEF MakeUp, TypeOK
  <2>5. MadeUp'
    BY <2>1, <2>4 DEF MadeUp, Key
  <2> QED
    BY <1>5, <2>1, <2>2, <2>3, <2>5 DEF MakeUp, TypeOK
<1>6. CASE StoreSecret(s)
  <2>1. mem[s][Key(s)] \in Secrets
    BY <1>6 DEF StoreSecret, MadeUp
  <2>2. stored' \in [Range(Keys) -> Secrets \cup {None}]
    BY <1>1, <1>6, <2>1 DEF StoreSecret, TypeOK
  <2> QED
    BY <1>2, <1>6, <2>2 DEF StoreSecret, TypeOK
<1> QED
  BY <1>3, <1>4, <1>5, <1>6 DEF EnsureSecret

\* A start begins at the first table, with the secrets its command line gives.
LEMMA StartType ==
  ASSUME TypeInv, NEW s \in Servers, NEW ks \in SUBSET Range(Keys), Start(s, ks)
  PROVE  TypeInv'
<1> USE DEF TypeInv
<1>1. /\ at' = [at EXCEPT ![s] = 1] /\ pc' = [pc EXCEPT ![s] = "tables"]
      /\ \A t \in Servers \ {s} : mem'[t] = mem[t]
  BY DEF Start, TypeOK
<1>2. at' \in [Servers -> Nat]
  BY <1>1 DEF TypeOK
<1>3. InPlace'
  BY <1>1, TheLists DEF InPlace, TypeOK
<1>4. MadeUp'
  BY <1>1 DEF MadeUp, Key, TypeOK
<1>5. mem' \in [Servers -> [Range(Keys) -> Secrets \cup {None, Given}]]
  BY DEF Start, TypeOK
<1> QED
  BY <1>1, <1>2, <1>3, <1>4, <1>5 DEF Start, TypeOK

\* Any database of an earlier release has a part of the tables and columns.
LEMMA TypeInit == Init => TypeInv
<1> SUFFICES ASSUME Init
             PROVE  TypeInv
  OBVIOUS
<1>1. PICK t \in 0..Len(Tables), c \in 0..Len(Added) :
        /\ tables = Range(SubSeq(Tables, 1, t))
        /\ columns = {a \in Range(SubSeq(Added, 1, c)) : a.table \in tables}
  BY DEF Init
<1>2. ASSUME NEW l, IsList(l), NEW n \in 0..Len(l)
      PROVE  Range(SubSeq(l, 1, n)) \subseteq Range(l)
  <2>1. l \in Seq(Range(l)) /\ Len(l) \in Nat /\ Range(l) = {l[i] : i \in 1..Len(l)}
    BY <1>2, Lists DEF IsList
  <2>2. /\ DOMAIN SubSeq(l, 1, n) = 1..n
        /\ \A i \in 1..n : SubSeq(l, 1, n)[i] = l[i]
    BY <1>2, <2>1
  <2>3. Range(SubSeq(l, 1, n)) = {SubSeq(l, 1, n)[i] : i \in 1..n}
    BY <2>2, Zenon DEF Range
  <2> QED
    BY <1>2, <2>1, <2>2, <2>3
<1>3. tables \subseteq Range(Tables) /\ columns \subseteq Range(Added)
  BY <1>1, <1>2, StartupAssumption
<1>4. 0 \in 0..MaxTime /\ 0 \in 0..MaxSecret
  BY StartupAssumption
<1>5. InPlace /\ MadeUp
  BY DEF Init, InPlace, MadeUp
<1> QED
  BY <1>3, <1>4, <1>5 DEF Init, TypeInv, TypeOK

\* Every step keeps the types.
LEMMA TypeStep == TypeInv /\ [Next]_vars => TypeInv'
<1> SUFFICES ASSUME TypeInv, [Next]_vars
             PROVE  TypeInv'
  OBVIOUS
<1>1. CASE AdvanceTime
  <2>1. now' \in 0..MaxTime
    BY <1>1, StartupAssumption DEF AdvanceTime, TypeInv, TypeOK
  <2> QED
    BY <1>1, <2>1 DEF AdvanceTime, TypeInv, TypeOK, InPlace, MadeUp, Key
<1>2. ASSUME NEW s \in Servers, NEW ks \in SUBSET Range(Keys), Start(s, ks)
      PROVE  TypeInv'
  BY <1>2, StartType
<1>3. ASSUME NEW s \in Servers, Stop(s)
      PROVE  TypeInv'
  BY <1>3 DEF Stop, TypeInv, TypeOK, InPlace, MadeUp, Key
<1>4. ASSUME NEW s \in Servers, Open(s) \/ EnsureSecret(s)
      PROVE  TypeInv'
  BY <1>4, OpenType, SecretType
<1>5. ASSUME NEW s \in Servers, Login(s)
      PROVE  TypeInv'
  BY <1>5 DEF Login, TypeInv, TypeOK, InPlace, MadeUp, Key
<1>6. CASE UNCHANGED vars
  BY <1>6 DEF vars, TypeInv, TypeOK, InPlace, MadeUp, Key
<1> QED
  BY <1>1, <1>2, <1>3, <1>4, <1>5, <1>6 DEF Next

\* The type invariant, for every value of the constants.
LEMMA TypeInvHolds == Spec => []TypeInv
BY TypeInit, TypeStep, PTL DEF Spec

\* The database has no unknown table or column, a secret in use is one that was
\* made up or given, and every server is at an element of its list.
THEOREM TypeCorrect == Spec => []TypeOK
<1>1. TypeInv => TypeOK
  BY DEF TypeInv
<1> QED
  BY <1>1, TypeInvHolds, PTL

(***************************************************************************)
(* The schema.                                                             *)
(***************************************************************************)

\* What a server has walked past is in the database.
WalkedPast(s) ==
  /\ pc[s] = "tables" => \A i \in 1..(at[s] - 1) : Tables[i] \in tables
  /\ pc[s] \in {"look", "add", "read", "write", "run"} => Range(Tables) \subseteq tables
  /\ pc[s] \in {"look", "add"} => \A i \in 1..(at[s] - 1) : Added[i] \in columns
  /\ pc[s] \in {"read", "write", "run"} => Range(Added) \subseteq columns

SchemaInv == \A s \in Servers : WalkedPast(s)

\* The database only grows, so a step of one server takes nothing from another.
LEMMA OthersKeepSchema ==
  ASSUME NEW s \in Servers, WalkedPast(s), pc'[s] = pc[s], at'[s] = at[s],
         tables \subseteq tables', columns \subseteq columns'
  PROVE  WalkedPast(s)'
BY DEF WalkedPast

\* The server that makes a step has walked past one element more.
LEMMA OwnSchema ==
  ASSUME TypeInv, SchemaInv, NEW s \in Servers, Open(s) \/ EnsureSecret(s)
  PROVE  WalkedPast(s)'
<1> USE DEF TypeInv
<1>1. CASE CreateTable(s)
  <2>1. at[s] \in 1..Len(Tables) /\ \A i \in 1..(at[s] - 1) : Tables[i] \in tables
    BY <1>1 DEF CreateTable, InPlace, SchemaInv, WalkedPast
  <2>2. \A i \in 1..at[s] : Tables[i] \in tables'
    BY <1>1, <2>1, TheLists DEF CreateTable
  <2>3. \/ at[s] < Len(Tables) /\ at'[s] = at[s] + 1 /\ pc'[s] = "tables"
        \/ ~(at[s] < Len(Tables)) /\ at'[s] = 1 /\ pc'[s] = "look"
    BY <1>1, Advances DEF CreateTable
  <2>4. CASE at[s] < Len(Tables)
    BY <2>1, <2>2, <2>3, <2>4, TheLists DEF WalkedPast
  <2>5. CASE ~(at[s] < Len(Tables))
    <3>1. Range(Tables) \subseteq tables'
      BY <2>1, <2>2, <2>5, TheLists
    <3> QED
      BY <2>1, <2>3, <2>5, <3>1, TheLists DEF WalkedPast
  <2> QED
    BY <2>4, <2>5
<1>2. ASSUME pc[s] \in {"look", "add"}, Added[at[s]] \in columns',
             Advance(s, Added, "look", "read"), tables' = tables, columns \subseteq columns'
      PROVE  WalkedPast(s)'
  <2>1. /\ at[s] \in 1..Len(Added) /\ \A i \in 1..(at[s] - 1) : Added[i] \in columns'
        /\ Range(Tables) \subseteq tables'
    BY <1>2 DEF InPlace, SchemaInv, WalkedPast
  <2>2. \A i \in 1..at[s] : Added[i] \in columns'
    BY <1>2, <2>1, TheLists
  <2>3. \/ at[s] < Len(Added) /\ at'[s] = at[s] + 1 /\ pc'[s] = "look"
        \/ ~(at[s] < Len(Added)) /\ at'[s] = 1 /\ pc'[s] = "read"
    BY <1>2, Advances
  <2>4. CASE at[s] < Len(Added)
    BY <2>1, <2>2, <2>3, <2>4, TheLists DEF WalkedPast
  <2>5. CASE ~(at[s] < Len(Added))
    <3>1. Range(Added) \subseteq columns'
      BY <2>1, <2>2, <2>5, TheLists
    <3> QED
      BY <2>1, <2>3, <2>5, <3>1, TheLists DEF WalkedPast
  <2> QED
    BY <2>4, <2>5
<1>3. CASE HasColumn(s)
  <2>1. CASE Added[at[s]] \in columns
    BY <1>2, <1>3, <2>1 DEF HasColumn
  <2>2. CASE Added[at[s]] \notin columns
    <3>1. /\ pc[s] = "look" /\ pc'[s] = "add" /\ at' = at
          /\ tables' = tables /\ columns' = columns
      BY <1>3, <2>2 DEF HasColumn, TypeOK
    <3> QED
      BY <3>1 DEF SchemaInv, WalkedPast
  <2> QED
    BY <2>1, <2>2
<1>4. CASE AddColumn(s)
  <2>1. CASE Added[at[s]] \notin columns
    BY <1>2, <1>4, <2>1 DEF AddColumn
  <2>2. CASE Added[at[s]] \in columns
    <3>1. pc'[s] = "dead"
      BY <1>4, <2>2 DEF AddColumn, TypeOK
    <3> QED
      BY <3>1 DEF WalkedPast
  <2> QED
    BY <2>1, <2>2
<1>5. CASE EnsureSecret(s)
  <2>1. /\ pc[s] \in {"read", "write"} /\ pc'[s] \in {"read", "write", "run"}
        /\ tables' = tables /\ columns' = columns
    BY <1>5 DEF EnsureSecret, IsGiven, UseStored, MakeUp, StoreSecret, Advance, TypeOK
  <2> QED
    BY <2>1 DEF SchemaInv, WalkedPast
<1> QED
  BY <1>1, <1>3, <1>4, <1>5 DEF Open

\* Nobody drops a table or a column, and a step of one server moves no other.
LEMMA OnlyGrows ==
  ASSUME TypeInv, NEW s \in Servers, Open(s) \/ EnsureSecret(s)
  PROVE  /\ tables \subseteq tables' /\ columns \subseteq columns'
         /\ \A t \in Servers \ {s} : pc'[t] = pc[t] /\ at'[t] = at[t]
<1>1. CASE CreateTable(s)
  BY <1>1 DEF CreateTable, Advance, TypeInv, TypeOK
<1>2. CASE HasColumn(s)
  BY <1>2 DEF HasColumn, Advance, TypeInv, TypeOK
<1>3. CASE AddColumn(s)
  BY <1>3 DEF AddColumn, Advance, TypeInv, TypeOK
<1>4. CASE EnsureSecret(s)
  BY <1>4 DEF EnsureSecret, IsGiven, UseStored, MakeUp, StoreSecret, Advance, TypeInv, TypeOK
<1> QED
  BY <1>1, <1>2, <1>3, <1>4 DEF Open

\* Every step leaves behind each server what it has walked past.
LEMMA SchemaStep == TypeInv /\ SchemaInv /\ [Next]_vars => SchemaInv'
<1> SUFFICES ASSUME TypeInv, SchemaInv, [Next]_vars
             PROVE  SchemaInv'
  OBVIOUS
<1>1. CASE UNCHANGED <<tables, columns, pc, at>>
  BY <1>1 DEF SchemaInv, WalkedPast
<1>2. ASSUME NEW s \in Servers, Open(s) \/ EnsureSecret(s)
      PROVE  SchemaInv'
  BY <1>2, OwnSchema, OnlyGrows, OthersKeepSchema DEF SchemaInv
<1>3. ASSUME NEW s \in Servers, NEW ks \in SUBSET Range(Keys), Start(s, ks)
      PROVE  SchemaInv'
  <2>1. /\ tables' = tables /\ columns' = columns /\ pc'[s] = "tables" /\ at'[s] = 1
        /\ \A t \in Servers \ {s} : pc'[t] = pc[t] /\ at'[t] = at[t]
    BY <1>3 DEF Start, TypeInv, TypeOK
  <2>2. WalkedPast(s)'
    BY <2>1 DEF WalkedPast
  <2> QED
    BY <2>1, <2>2, OthersKeepSchema DEF SchemaInv
<1>4. ASSUME NEW s \in Servers, Stop(s)
      PROVE  SchemaInv'
  <2>1. /\ tables' = tables /\ columns' = columns /\ pc'[s] = "off" /\ at' = at
        /\ \A t \in Servers \ {s} : pc'[t] = pc[t]
    BY <1>4 DEF Stop, TypeInv, TypeOK
  <2>2. WalkedPast(s)'
    BY <2>1 DEF WalkedPast
  <2> QED
    BY <2>1, <2>2, OthersKeepSchema DEF SchemaInv
<1>5. CASE AdvanceTime \/ \E s \in Servers : Login(s)
  BY <1>1, <1>5 DEF AdvanceTime, Login
<1>6. CASE UNCHANGED vars
  BY <1>1, <1>6 DEF vars
<1> QED
  BY <1>2, <1>3, <1>4, <1>5, <1>6 DEF Next

\* A server that runs has every table and column, whatever the database was like
\* before, wherever earlier starts ended and whoever else was starting.
THEOREM SchemaCorrect == Spec => []SchemaIsComplete
<1>1. Init => SchemaInv
  BY DEF Init, SchemaInv, WalkedPast
<1>2. TypeInv /\ SchemaInv => SchemaIsComplete
  BY DEF TypeInv, TypeOK, SchemaInv, WalkedPast, SchemaIsComplete
<1> QED
  BY <1>1, <1>2, SchemaStep, TypeInvHolds, PTL DEF Spec

(***************************************************************************)
(* A start alone.                                                          *)
(***************************************************************************)

\* While a server has been alone since its start all others are off, and what it is
\* about to add is still missing.
AloneInv ==
  \A s \in Servers : alone[s] =>
    /\ \A t \in Servers \ {s} : Off(t)
    /\ pc[s] = "add" => Added[at[s]] \notin columns
    /\ pc[s] # "dead"

\* A server that is not off is the only one that can be alone.
LEMMA OpenAlone ==
  ASSUME TypeInv, AloneInv, NEW s \in Servers, Open(s) \/ EnsureSecret(s)
  PROVE  AloneInv'
<1>1. ~Off(s) /\ \A t \in Servers \ {s} : alone[t] = FALSE
  <2>1. ~Off(s)
    BY DEF Open, CreateTable, HasColumn, AddColumn, EnsureSecret, IsGiven, UseStored, MakeUp,
           StoreSecret, Off
  <2> QED
    BY <2>1 DEF AloneInv
<1>2. alone' = alone
  BY DEF Open, CreateTable, HasColumn, AddColumn, EnsureSecret, IsGiven, UseStored, MakeUp,
         StoreSecret
<1>3. \A t \in Servers \ {s} : pc'[t] = pc[t]
  BY OnlyGrows
<1>4. CASE ~alone[s]
  BY <1>1, <1>2, <1>4 DEF AloneInv
<1>5. CASE alone[s]
  <2>1. \A t \in Servers \ {s} : Off(t)'
    BY <1>3, <1>5 DEF AloneInv, Off
  <2>2. (pc'[s] = "add" => Added[at'[s]] \notin columns') /\ pc'[s] # "dead"
    <3>1. CASE CreateTable(s)
      BY <3>1 DEF CreateTable, Advance, TypeInv, TypeOK
    <3>2. CASE HasColumn(s)
      BY <3>2 DEF HasColumn, Advance, TypeInv, TypeOK
    <3>3. CASE AddColumn(s)
      <4>1. Added[at[s]] \notin columns
        BY <1>5, <3>3 DEF AddColumn, AloneInv
      <4> QED
        BY <3>3, <4>1 DEF AddColumn, Advance, TypeInv, TypeOK
    <3>4. CASE EnsureSecret(s)
      BY <3>4 DEF EnsureSecret, IsGiven, UseStored, MakeUp, StoreSecret, Advance, TypeInv, TypeOK
    <3> QED
      BY <3>1, <3>2, <3>3, <3>4 DEF Open
  <2> QED
    BY <1>1, <1>2, <2>1, <2>2 DEF AloneInv
<1> QED
  BY <1>4, <1>5

\* A start makes every other server one that was not alone.
LEMMA AloneStep == TypeInv /\ AloneInv /\ [Next]_vars => AloneInv'
<1> SUFFICES ASSUME TypeInv, AloneInv, [Next]_vars
             PROVE  AloneInv'
  OBVIOUS
<1>1. CASE UNCHANGED <<columns, pc, at, alone>>
  BY <1>1 DEF AloneInv, Off
<1>2. ASSUME NEW s \in Servers, Open(s) \/ EnsureSecret(s)
      PROVE  AloneInv'
  BY <1>2, OpenAlone
<1>3. ASSUME NEW s \in Servers, NEW ks \in SUBSET Range(Keys), Start(s, ks)
      PROVE  AloneInv'
  <2>1. /\ pc'[s] = "tables" /\ \A t \in Servers \ {s} : pc'[t] = pc[t]
        /\ alone'[s] => \A t \in Servers \ {s} : Off(t)
        /\ \A t \in Servers \ {s} : ~alone'[t]
    BY <1>3 DEF Start, TypeInv, TypeOK
  <2> QED
    BY <2>1 DEF AloneInv, Off
<1>4. ASSUME NEW s \in Servers, Stop(s)
      PROVE  AloneInv'
  <2>1. /\ pc'[s] = "off" /\ \A t \in Servers \ {s} : pc'[t] = pc[t]
        /\ alone' = alone /\ at' = at /\ columns' = columns
    BY <1>4 DEF Stop, TypeInv, TypeOK
  <2> QED
    BY <2>1 DEF AloneInv, Off
<1>5. CASE AdvanceTime \/ \E s \in Servers : Login(s)
  BY <1>1, <1>5 DEF AdvanceTime, Login
<1>6. CASE UNCHANGED vars
  BY <1>1, <1>6 DEF vars
<1> QED
  BY <1>2, <1>3, <1>4, <1>5, <1>6 DEF Next

\* A server that starts alone never fails on a column that an earlier start has
\* added, wherever that start was cut off.
THEOREM OpensAloneCorrect == Spec => []OpensAlone
<1>1. Init => AloneInv
  BY DEF Init, AloneInv, Off
<1>2. AloneInv => OpensAlone
  BY DEF AloneInv, OpensAlone
<1> QED
  BY <1>1, <1>2, AloneStep, TypeInvHolds, PTL DEF Spec

(***************************************************************************)
(* Tokens and sessions.                                                    *)
(***************************************************************************)

\* Server s has dealt with key k since its start.
Settled(s, k) ==
  \/ pc[s] = "run"
  \/ pc[s] \in {"read", "write"} /\ \E i \in 1..(at[s] - 1) : Keys[i] = k

\* What the command line gives is what a server uses.
GivenIsUsed == \A s \in Servers : ~Off(s) => \A k \in given[s] : mem[s][k] = Given

\* What was handed out under a key nobody raced for is what the database has.
HandedIsStored ==
  \A c \in handed :
    /\ c.key \in Range(Keys)
    /\ c.secret # Given /\ c.key \notin raced =>
         stored[c.key] # None /\ c.secret = stored[c.key]

\* Who is about to store such a key is alone in it, and the first.
FirstToStore ==
  \A s \in Servers : pc[s] = "write" =>
    /\ Key(s) \notin given[s]
    /\ Key(s) \notin raced =>
         /\ stored[Key(s)] = None
         /\ \A t \in Servers : pc[t] = "write" /\ Key(t) = Key(s) => t = s

\* A server uses what the database has.
SettledIsStored ==
  \A s \in Servers, k \in Range(Keys) :
    Settled(s, k) /\ k \notin given[s] /\ k \notin raced =>
      stored[k] # None /\ mem[s][k] = stored[k]

SecretInv == GivenIsUsed /\ HandedIsStored /\ FirstToStore /\ SettledIsStored

\* The step of a server from one key to the next settles that key and no other.
LEMMA AdvanceSettles ==
  ASSUME TypeInv, NEW s \in Servers, pc[s] \in {"read", "write"},
         Advance(s, Keys, "read", "run")
  PROVE  /\ pc'[s] \in {"read", "run"} /\ \A t \in Servers \ {s} : pc'[t] = pc[t] /\ at'[t] = at[t]
         /\ \A k \in Range(Keys) : Settled(s, k)' => k = Key(s) \/ Settled(s, k)
<1>1. at[s] \in 1..Len(Keys)
  BY DEF TypeInv, InPlace
<1>2. /\ at' = [at EXCEPT ![s] = at'[s]] /\ pc' = [pc EXCEPT ![s] = pc'[s]]
      /\ \/ at[s] < Len(Keys) /\ at'[s] = at[s] + 1 /\ pc'[s] = "read"
         \/ ~(at[s] < Len(Keys)) /\ at'[s] = 1 /\ pc'[s] = "run"
  BY Advances DEF TypeInv
<1>3. \A t \in Servers \ {s} : pc'[t] = pc[t] /\ at'[t] = at[t]
  BY <1>2 DEF TypeInv, TypeOK
<1>4. ASSUME NEW k \in Range(Keys), Settled(s, k)'
      PROVE  k = Key(s) \/ Settled(s, k)
  <2>1. PICK i \in 1..Len(Keys) : Keys[i] = k /\ i <= at[s]
    <3>1. CASE at[s] < Len(Keys)
      BY <1>1, <1>2, <1>4, <3>1, TheLists DEF Settled
    <3>2. CASE ~(at[s] < Len(Keys))
      BY <1>1, <3>2, TheLists
    <3> QED
      BY <3>1, <3>2
  <2>2. CASE i = at[s]
    BY <2>1, <2>2 DEF Key
  <2>3. CASE i # at[s]
    BY <1>1, <2>1, <2>3, TheLists DEF Settled
  <2> QED
    BY <2>2, <2>3
<1> QED
  BY <1>2, <1>3, <1>4

\* Going past a key that the command line gives changes nothing.
LEMMA IsGivenKeeps ==
  ASSUME TypeInv, SecretInv, NEW s \in Servers, IsGiven(s)
  PROVE  SecretInv'
<1>1. pc[s] = "read" /\ Key(s) \in given[s]
  BY DEF IsGiven
<1>2. UNCHANGED <<stored, given, mem, handed, raced>>
  BY DEF IsGiven
<1>3. /\ pc'[s] \in {"read", "run"} /\ \A t \in Servers \ {s} : pc'[t] = pc[t] /\ at'[t] = at[t]
      /\ \A k \in Range(Keys) : Settled(s, k)' => k = Key(s) \/ Settled(s, k)
  BY <1>1, AdvanceSettles DEF IsGiven
<1>4. GivenIsUsed'
  BY <1>1, <1>2, <1>3 DEF SecretInv, GivenIsUsed, Off
<1>5. HandedIsStored'
  BY <1>2 DEF SecretInv, HandedIsStored
<1>6. FirstToStore'
  BY <1>2, <1>3 DEF SecretInv, FirstToStore, Key
<1>7. SettledIsStored'
  <2>1. \A t \in Servers \ {s}, k \in Range(Keys) : Settled(t, k)' => Settled(t, k)
    BY <1>3 DEF Settled
  <2> QED
    BY <1>1, <1>2, <1>3, <2>1 DEF SecretInv, SettledIsStored
<1> QED
  BY <1>4, <1>5, <1>6, <1>7 DEF SecretInv

\* Who reads a key uses and hands out what is stored.
LEMMA UseStoredKeeps ==
  ASSUME TypeInv, SecretInv, NEW s \in Servers, UseStored(s)
  PROVE  SecretInv'
<1>1. pc[s] = "read" /\ Key(s) \notin given[s] /\ stored[Key(s)] # None
  BY DEF UseStored, Missing
<1>2. UNCHANGED <<stored, given, raced>>
  BY DEF UseStored
<1>3. /\ pc'[s] \in {"read", "run"} /\ \A t \in Servers \ {s} : pc'[t] = pc[t] /\ at'[t] = at[t]
      /\ \A k \in Range(Keys) : Settled(s, k)' => k = Key(s) \/ Settled(s, k)
  BY <1>1, AdvanceSettles DEF UseStored
<1>4. Key(s) \in Range(Keys)
  BY <1>1, TheLists DEF TypeInv, InPlace, Key
<1>5. /\ mem'[s][Key(s)] = stored[Key(s)]
      /\ \A k \in Range(Keys) \ {Key(s)} : mem'[s][k] = mem[s][k]
      /\ \A t \in Servers \ {s} : mem'[t] = mem[t]
  BY <1>4 DEF UseStored, TypeInv, TypeOK
<1>6. GivenIsUsed'
  <2>1. \A t \in Servers : given[t] \subseteq Range(Keys)
    BY DEF TypeInv, TypeOK
  <2> QED
    BY <1>1, <1>2, <1>3, <1>5, <2>1 DEF SecretInv, GivenIsUsed, Off
<1>7. HandedIsStored'
  <2>1. handed' = handed \cup {[key |-> Key(s), secret |-> stored[Key(s)], exp |-> Never]}
    BY DEF UseStored, HandOut
  <2> QED
    BY <1>1, <1>2, <1>4, <2>1 DEF SecretInv, HandedIsStored
<1>8. FirstToStore'
  BY <1>2, <1>3 DEF SecretInv, FirstToStore, Key
<1>9. SettledIsStored'
  <2>1. \A t \in Servers \ {s}, k \in Range(Keys) : Settled(t, k)' => Settled(t, k)
    BY <1>3 DEF Settled
  <2> QED
    BY <1>1, <1>2, <1>3, <1>5, <2>1 DEF SecretInv, SettledIsStored
<1> QED
  BY <1>6, <1>7, <1>8, <1>9 DEF SecretInv

\* Who makes a key up is the only one who does, or the key is raced for.
LEMMA MakeUpKeeps ==
  ASSUME TypeInv, SecretInv, NEW s \in Servers, MakeUp(s)
  PROVE  SecretInv'
<1>1. pc[s] = "read" /\ Key(s) \notin given[s] /\ stored[Key(s)] = None
  BY DEF MakeUp, Missing
<1>2. UNCHANGED <<stored, given, at, handed>>
  BY DEF MakeUp
<1>3. pc'[s] = "write" /\ \A t \in Servers \ {s} : pc'[t] = pc[t]
  BY DEF MakeUp, TypeInv, TypeOK
<1>4. Key(s) \in Range(Keys)
  BY <1>1, TheLists DEF TypeInv, InPlace, Key
<1>5. /\ \A k \in Range(Keys) \ {Key(s)} : mem'[s][k] = mem[s][k]
      /\ \A t \in Servers \ {s} : mem'[t] = mem[t]
  BY <1>4 DEF MakeUp, TypeInv, TypeOK
<1>6. /\ raced \subseteq raced'
      /\ Key(s) \notin raced' => \A t \in Servers : ~(pc[t] = "write" /\ Key(t) = Key(s))
  BY DEF MakeUp, MakesUp
<1>7. GivenIsUsed'
  <2>1. \A t \in Servers : given[t] \subseteq Range(Keys)
    BY DEF TypeInv, TypeOK
  <2> QED
    BY <1>1, <1>2, <1>3, <1>5, <2>1 DEF SecretInv, GivenIsUsed, Off
<1>8. HandedIsStored'
  BY <1>2, <1>6 DEF SecretInv, HandedIsStored
<1>9. FirstToStore'
  <2>1. \A t \in Servers : Key(t)' = Key(t)
    BY <1>2 DEF Key
  <2>2. ASSUME NEW t \in Servers, t # s, pc'[t] = "write", Key(t) \notin raced'
        PROVE  stored[Key(t)] = None /\ \A u \in Servers : pc'[u] = "write" /\ Key(u) = Key(t) => u = t
    <3>1. pc[t] = "write" /\ Key(t) \notin raced
      BY <1>3, <1>6, <2>2
    <3>2. Key(s) # Key(t)
      BY <1>6, <2>2, <3>1
    <3> QED
      BY <1>3, <3>1, <3>2 DEF SecretInv, FirstToStore
  <2>3. ASSUME Key(s) \notin raced'
        PROVE  \A u \in Servers : pc'[u] = "write" /\ Key(u) = Key(s) => u = s
    BY <1>3, <1>6, <2>3
  <2>4. \A t \in Servers : pc'[t] = "write" => Key(t) \notin given[t]
    BY <1>1, <1>3 DEF SecretInv, FirstToStore
  <2> QED
    BY <1>1, <1>2, <2>1, <2>2, <2>3, <2>4 DEF FirstToStore
<1>10. SettledIsStored'
  <2>1. ASSUME NEW t \in Servers, NEW k \in Range(Keys), Settled(t, k)'
        PROVE  Settled(t, k)
    BY <1>1, <1>2, <1>3, <2>1 DEF Settled
  <2>2. ASSUME NEW t \in Servers, NEW k \in Range(Keys), Settled(t, k), k \notin given[t],
               k \notin raced'
        PROVE  stored[k] # None /\ mem'[t][k] = stored[k]
    <3>1. stored[k] # None /\ mem[t][k] = stored[k]
      BY <1>6, <2>2 DEF SecretInv, SettledIsStored
    <3>2. ~(t = s /\ k = Key(s))
      BY <1>1, <3>1
    <3> QED
      BY <1>5, <3>1, <3>2
  <2> QED
    BY <1>2, <2>1, <2>2 DEF SettledIsStored
<1> QED
  BY <1>7, <1>8, <1>9, <1>10 DEF SecretInv

\* Who stores a key nobody raced for stores what nobody has another copy of.
LEMMA StoreKeeps ==
  ASSUME TypeInv, SecretInv, NEW s \in Servers, StoreSecret(s)
  PROVE  SecretInv'
<1>1. pc[s] = "write" /\ Key(s) \notin given[s] /\ mem[s][Key(s)] \in Secrets
  BY DEF StoreSecret, SecretInv, FirstToStore, TypeInv, MadeUp
<1>2. UNCHANGED <<given, mem, raced>>
  BY DEF StoreSecret
<1>3. /\ pc'[s] \in {"read", "run"} /\ \A t \in Servers \ {s} : pc'[t] = pc[t] /\ at'[t] = at[t]
      /\ \A k \in Range(Keys) : Settled(s, k)' => k = Key(s) \/ Settled(s, k)
  BY <1>1, AdvanceSettles DEF StoreSecret
<1>4. Key(s) \in Range(Keys)
  BY <1>1, TheLists DEF TypeInv, InPlace, Key
<1>5. /\ stored'[Key(s)] = mem[s][Key(s)]
      /\ \A k \in Range(Keys) \ {Key(s)} : stored'[k] = stored[k]
  BY <1>4 DEF StoreSecret, TypeInv, TypeOK
<1>6. mem[s][Key(s)] # None
  BY <1>1, StartupAssumption DEF Secrets
<1>7. Key(s) \notin raced =>
        /\ stored[Key(s)] = None
        /\ \A t \in Servers : pc[t] = "write" /\ Key(t) = Key(s) => t = s
  BY <1>1 DEF SecretInv, FirstToStore
<1>8. GivenIsUsed'
  BY <1>1, <1>2, <1>3 DEF SecretInv, GivenIsUsed, Off
<1>9. HandedIsStored'
  <2>1. handed' = handed \cup {[key |-> Key(s), secret |-> mem[s][Key(s)], exp |-> Never]}
    BY DEF StoreSecret, HandOut
  <2>2. ASSUME NEW c \in handed
        PROVE  /\ c.key \in Range(Keys)
               /\ c.secret # Given /\ c.key \notin raced =>
                    stored'[c.key] # None /\ c.secret = stored'[c.key]
    BY <1>5, <1>7 DEF SecretInv, HandedIsStored
  <2> QED
    BY <1>2, <1>4, <1>5, <1>6, <2>1, <2>2 DEF HandedIsStored
<1>10. FirstToStore'
  <2>1. ASSUME NEW t \in Servers, pc'[t] = "write"
        PROVE  /\ t # s /\ pc[t] = "write" /\ Key(t)' = Key(t)
               /\ Key(t) \notin raced => Key(t) # Key(s)
    BY <1>3, <1>7, <2>1 DEF Key
  <2>2. \A t \in Servers : pc[t] = "write" => Key(t) \in Range(Keys)
    BY TheLists DEF TypeInv, InPlace, Key
  <2> QED
    BY <1>2, <1>5, <2>1, <2>2 DEF SecretInv, FirstToStore
<1>11. SettledIsStored'
  <2>1. ASSUME NEW t \in Servers, NEW k \in Range(Keys), Settled(t, k)', k \notin given[t],
               k \notin raced
        PROVE  stored'[k] # None /\ mem[t][k] = stored'[k]
    <3>1. CASE t = s /\ k = Key(s)
      BY <1>5, <1>6, <3>1
    <3>2. CASE ~(t = s /\ k = Key(s))
      <4>1. Settled(t, k)
        BY <1>3, <2>1, <3>2 DEF Settled
      <4>2. stored[k] # None /\ mem[t][k] = stored[k]
        BY <2>1, <4>1 DEF SecretInv, SettledIsStored
      <4>3. k # Key(s)
        BY <1>7, <2>1, <4>2
      <4> QED
        BY <1>5, <4>2, <4>3
    <3> QED
      BY <3>1, <3>2
  <2> QED
    BY <1>2, <2>1 DEF SettledIsStored
<1> QED
  BY <1>8, <1>9, <1>10, <1>11 DEF SecretInv

\* Opening the database settles no key.
LEMMA OpenKeeps ==
  ASSUME TypeInv, SecretInv, NEW s \in Servers, Open(s)
  PROVE  SecretInv'
<1>1. UNCHANGED <<stored, given, mem, handed, raced>>
  BY DEF Open, CreateTable, HasColumn, AddColumn
<1>2. /\ pc[s] \in {"tables", "look", "add"}
      /\ pc'[s] \in {"tables", "look", "add", "dead"} \/ (pc'[s] = "read" /\ at'[s] = 1)
      /\ \A t \in Servers \ {s} : pc'[t] = pc[t] /\ at'[t] = at[t]
  <2>1. CASE CreateTable(s)
    BY <2>1 DEF CreateTable, Advance, TypeInv, TypeOK
  <2>2. CASE HasColumn(s)
    BY <2>2 DEF HasColumn, Advance, TypeInv, TypeOK, InPlace
  <2>3. CASE AddColumn(s)
    BY <2>3 DEF AddColumn, Advance, TypeInv, TypeOK, InPlace
  <2> QED
    BY <2>1, <2>2, <2>3 DEF Open
<1>3. \A t \in Servers, k \in Range(Keys) : Settled(t, k)' => Settled(t, k)
  BY <1>2 DEF Settled
<1>4. GivenIsUsed'
  BY <1>1, <1>2 DEF SecretInv, GivenIsUsed, Off
<1>5. FirstToStore'
  BY <1>1, <1>2 DEF SecretInv, FirstToStore, Key
<1> QED
  BY <1>1, <1>3, <1>4, <1>5 DEF SecretInv, HandedIsStored, SettledIsStored

\* A session is signed with a secret that is settled.
LEMMA LoginKeeps ==
  ASSUME TypeInv, SecretInv, NEW s \in Servers, Login(s)
  PROVE  SecretInv'
<1>1. UNCHANGED <<stored, pc, at, given, mem, raced>>
  BY DEF Login
<1>2. /\ pc[s] = "run"
      /\ handed' = handed \cup {[key |-> SignKey, secret |-> mem[s][SignKey], exp |-> now + TTL]}
  BY DEF Login, HandOut
<1>3. SignKey \in Range(Keys)
  BY StartupAssumption
<1>4. mem[s][SignKey] # Given /\ SignKey \notin raced =>
        stored[SignKey] # None /\ mem[s][SignKey] = stored[SignKey]
  BY <1>2, <1>3 DEF SecretInv, GivenIsUsed, SettledIsStored, Settled, Off
<1>5. HandedIsStored'
  BY <1>1, <1>2, <1>3, <1>4 DEF SecretInv, HandedIsStored
<1> QED
  BY <1>1, <1>5 DEF SecretInv, GivenIsUsed, FirstToStore, SettledIsStored, Settled, Off, Key

\* A server that starts or stops has settled nothing.
LEMMA StartKeeps ==
  ASSUME TypeInv, SecretInv, NEW s \in Servers,
         Stop(s) \/ \E ks \in SUBSET Range(Keys) : Start(s, ks)
  PROVE  SecretInv'
<1>1. UNCHANGED <<stored, handed, raced>>
  BY DEF Stop, Start
<1>2. /\ pc'[s] \in {"off", "tables"}
      /\ \A t \in Servers \ {s} :
           pc'[t] = pc[t] /\ at'[t] = at[t] /\ given'[t] = given[t] /\ mem'[t] = mem[t]
  BY DEF Stop, Start, TypeInv, TypeOK
<1>3. pc'[s] = "tables" => \A k \in given'[s] : mem'[s][k] = Given
  <2>1. CASE Stop(s)
    BY <2>1 DEF Stop, TypeInv, TypeOK
  <2>2. ASSUME NEW ks \in SUBSET Range(Keys), Start(s, ks)
        PROVE  \A k \in given'[s] : mem'[s][k] = Given
    BY <2>2 DEF Start, TypeInv, TypeOK
  <2> QED
    BY <2>1, <2>2
<1>4. GivenIsUsed'
  BY <1>2, <1>3 DEF SecretInv, GivenIsUsed, Off
<1>5. FirstToStore'
  BY <1>1, <1>2 DEF SecretInv, FirstToStore, Key
<1>6. SettledIsStored'
  BY <1>1, <1>2 DEF SecretInv, SettledIsStored, Settled
<1> QED
  BY <1>1, <1>4, <1>5, <1>6 DEF SecretInv, HandedIsStored

\* Every step keeps what servers use, store and have handed out in line.
LEMMA SecretStep == TypeInv /\ SecretInv /\ [Next]_vars => SecretInv'
<1> SUFFICES ASSUME TypeInv, SecretInv, [Next]_vars
             PROVE  SecretInv'
  OBVIOUS
<1>1. CASE UNCHANGED <<stored, pc, at, given, mem, handed, raced>>
  BY <1>1 DEF SecretInv, GivenIsUsed, HandedIsStored, FirstToStore, SettledIsStored, Settled,
              Off, Key
<1>2. CASE AdvanceTime \/ UNCHANGED vars
  BY <1>1, <1>2 DEF AdvanceTime, vars
<1>3. ASSUME NEW s \in Servers, Stop(s) \/ \E ks \in SUBSET Range(Keys) : Start(s, ks)
      PROVE  SecretInv'
  BY <1>3, StartKeeps
<1>4. ASSUME NEW s \in Servers, Open(s) \/ Login(s)
      PROVE  SecretInv'
  BY <1>4, OpenKeeps, LoginKeeps
<1>5. ASSUME NEW s \in Servers, EnsureSecret(s)
      PROVE  SecretInv'
  BY <1>5, IsGivenKeeps, UseStoredKeeps, MakeUpKeeps, StoreKeeps DEF EnsureSecret
<1> QED
  BY <1>2, <1>3, <1>4, <1>5 DEF Next

\* What a server without a flag handed out every later server without the flag
\* accepts, over any number of crashes and restarts, except a key that two servers
\* made up at once.
THEOREM CredentialsCorrect == Spec => []CredentialsLast
<1>1. Init => SecretInv
  BY DEF Init, SecretInv, GivenIsUsed, HandedIsStored, FirstToStore, SettledIsStored, Settled, Off
<1>2. SecretInv => CredentialsLast
  BY DEF SecretInv, HandedIsStored, SettledIsStored, Settled, CredentialsLast, Accepts
<1> QED
  BY <1>1, <1>2, SecretStep, TypeInvHolds, PTL DEF Spec
===============================================================================
