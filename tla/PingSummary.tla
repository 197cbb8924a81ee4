------------------------------ MODULE PingSummary ------------------------------
(***************************************************************************)
(* The statistics of a probe task: what LatestStatus says of each client's *)
(* last records.  A probe takes its time stamp before it waits for the     *)
(* database, so that records of one task may be stored in another order    *)
(* than that of their times, and the times have whole seconds, so that     *)
(* several records may have the same.                                      *)
(*                                                                         *)
(* One task, which is everybody's.  A share is a pair, part and whole.     *)
(***************************************************************************)
EXTENDS Integers, Sequences, SequencesExt

CONSTANTS
  Clients,
  Millis,     \* results of probes that succeed
  Window,     \* pingWindow
  Retention,  \* retainDays
  MaxProbes,  \* bound: probes
  MaxTime     \* bound: the clock, in seconds

ASSUME MillisAssumption == Millis \subseteq Nat
ASSUME WindowAssumption == Window \in Nat \ {0} /\ Retention \in Nat

Failed == -1

Time == 0..MaxTime

Record == [client : Clients, time : Time, value : Millis \cup {Failed}]

VARIABLES
  now,
  stamped,  \* results on their way to the table
  records,  \* probe_records, by rowid
  probes    \* bound: probes so far

vars == <<now, stamped, records, probes>>

TypeOK ==
  /\ now \in Time
  /\ stamped \in Seq(Record)
  /\ records \in Seq(Record)
  /\ Len(stamped) + Len(records) <= probes
  /\ probes \in 0..MaxProbes

Init ==
  /\ now = 0
  /\ stamped = <<>>
  /\ records = <<>>
  /\ probes = 0

(***************************************************************************)
(* The table.                                                              *)
(***************************************************************************)

\* The end of Scheduler.run: the arguments of InsertProbe are evaluated.
Stamp(c, v) ==
  /\ probes < MaxProbes
  /\ probes' = probes + 1
  /\ stamped' = Append(stamped, [client |-> c, time |-> now, value |-> v])
  /\ UNCHANGED <<now, records>>

InsertProbe(i) ==
  /\ records' = Append(records, stamped[i])
  /\ stamped' = RemoveAt(stamped, i)
  /\ UNCHANGED <<now, probes>>

InsertFails(i) ==
  /\ stamped' = RemoveAt(stamped, i)
  /\ UNCHANGED <<now, records, probes>>

ByAge(r) == r.time <= now - Retention   \* mutant: <= instead of <

Outdated(r) == r.time < now - Retention

Purge ==
  /\ records' = SelectSeq(records, LAMBDA r : ~Outdated(r))
  /\ UNCHANGED <<now, stamped, probes>>

AdvanceTime ==
  /\ now < MaxTime
  /\ now' = now + 1
  /\ UNCHANGED <<stamped, records, probes>>

(***************************************************************************)
(* The query: values of the last records, and what is made of them.        *)
(***************************************************************************)

Later(i, j) == i > j   \* mutant: ORDER BY rowid DESC

\* ORDER BY time DESC, rowid DESC
Before(i, j) ==
  \/ records[i].time > records[j].time
  \/ records[i].time = records[j].time /\ i > j

RowsOf(c) == {i \in DOMAIN records : records[i].client = c}

\* The window of a client, from the newest record to the oldest.
Series(c) ==
  LET rows == SetToSortSeq(RowsOf(c), Before)
  IN [k \in 1..(IF Len(rows) < Window THEN Len(rows) ELSE Window) |->
        records[rows[k]].value]

Counts(v) == v >= 0

Rank95(n) == 1 + (n * 95) \div 100   \* mutant: the share of n, not of n - 1

\* The place of the tail among n sorted samples, counted from 1.
TailIndex(n) == 1 + ((n - 1) * 95) \div 100

NoSamples ==
  [latest |-> Failed, loss |-> <<1, 1>>, avg |-> <<0, 1>>, min |-> 0, max |-> 0, tail |-> 0]

SummarizePing(vals) ==
  LET ok == SelectSeq(vals, Counts)
      sorted == SortSeq(ok, <)
      n == Len(ok)
  IN IF n = 0 THEN NoSamples
     ELSE [latest |-> vals[1],
           loss   |-> <<Len(vals) - n, Len(vals)>>,
           avg    |-> <<FoldSeq(+, 0, ok), n>>,
           min    |-> sorted[1],
           max    |-> sorted[n],
           tail   |-> sorted[TailIndex(n)]]

Summary(c) == SummarizePing(Series(c))

(***************************************************************************)
(* The specification.                                                      *)
(***************************************************************************)

Prober ==
  \/ \E c \in Clients, v \in Millis \cup {Failed} : Stamp(c, v)
  \/ \E i \in DOMAIN stamped : InsertProbe(i) \/ InsertFails(i)

Next == Prober \/ Purge \/ AdvanceTime

Spec == Init /\ [][Next]_vars

(***************************************************************************)
(* Properties.                                                             *)
(***************************************************************************)

\* Rows of a client with less than a window of newer ones, without any sorting.
InWindow(c) ==
  {i \in RowsOf(c) : Cardinality({j \in RowsOf(c) : Before(j, i)}) < Window}

Samples(c) == {i \in InWindow(c) : records[i].value # Failed}

\* How many samples of the window satisfy P.
Share(c, P(_)) == Cardinality({i \in Samples(c) : P(records[i].value)})

\* pingSummaries: the loss is the share of lost probes in the window, mean,
\* extremes and tail are those of the samples that are not lost; the tail has
\* 95 % of the other samples at most below it and 5 %, rounded up, above it.
StatisticsAreOfTheWindow ==
  \A c \in Clients :
    LET s == Summary(c)
        n == Cardinality(Samples(c))
    IN IF n = 0 THEN s.loss[1] = s.loss[2]
       ELSE /\ s.loss[1] * Cardinality(InWindow(c)) =
                 (Cardinality(InWindow(c)) - n) * s.loss[2]
            /\ s.avg[1] * n =
                 s.avg[2] * FoldSet(LAMBDA i, sum : records[i].value + sum, 0, Samples(c))
            /\ Share(c, LAMBDA v : v < s.min \/ v > s.max) = 0
            /\ \A v \in {s.min, s.max, s.tail} : Share(c, LAMBDA w : w = v) > 0
            /\ 100 * Share(c, LAMBDA v : v < s.tail) <= 95 * (n - 1)
            /\ 100 * Share(c, LAMBDA v : v > s.tail) <= 5 * (n - 1) + 99

\* NodeStatusPing.Latest is the result of a probe that no other of the client's
\* is newer than, in whatever order they were stored, or a loss if the window
\* holds nothing else.
LatestIsNewest ==
  \A c \in Clients :
    \/ Summary(c).latest = Failed /\ Samples(c) = {}
    \/ \E i \in RowsOf(c) :
         /\ records[i].value = Summary(c).latest
         /\ \A j \in RowsOf(c) : records[j].time <= records[i].time

\* The purge changes what is said of a client's last probe only if the record
\* is older than the retention.
PurgeKeepsLatest ==
  [][\A c \in Clients :
       (Len(records') < Len(records) /\ Summary(c).latest # Summary(c)'.latest)
       => \A i \in RowsOf(c) :
            records[i].value = Summary(c).latest => records[i].time < now - Retention]_vars
===============================================================================
