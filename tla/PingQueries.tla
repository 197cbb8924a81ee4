------------------------------ MODULE PingQueries ------------------------------
(***************************************************************************)
(* The queries of probe records that the RPC methods make, and the         *)
(* statistics they derive from them, over the table of PingSummary.        *)
(*                                                                         *)
(* A query orders by time only, and says nothing of records of the same    *)
(* second: it has a set of possible answers, each a sequence of rowids.    *)
(* A method's hours are a floating-point number, counted in halves here.   *)
(***************************************************************************)
EXTENDS PingSummary, Functions

CONSTANTS
  AnyClient,    \* a query for no client in particular
  MaxRows,      \* the largest limit ProbeRecordsSince accepts
  DefaultRows,  \* and what it takes instead of any other
  HalfHours,    \* hours a request may ask for
  Limits        \* limits a request may ask for

ASSUME LimitAssumption == 0 < DefaultRows /\ DefaultRows <= MaxRows

(***************************************************************************)
(* The queries.                                                            *)
(***************************************************************************)

IntOr(halves, default) == IF halves <= 0 THEN default ELSE halves \div 2

\* A fraction of an hour is none, and none is one.
HoursBack(halves) ==
  LET hours == IntOr(halves, 1)
  IN IF hours <= 0 THEN 1 ELSE hours

RowLimit(limit) == IF limit <= 0 \/ limit > MaxRows THEN DefaultRows ELSE limit

WindowRows(c, halves) ==
  {i \in DOMAIN records :
     /\ records[i].time >= now - HoursBack(halves)
     /\ c = AnyClient \/ records[i].client = c}

ByTime(i, j) == records[i].time <= records[j].time

\* The first rows of an order, however it breaks ties: ORDER BY ... LIMIT.
FirstRows(rows, limit, order(_, _)) ==
  LET n == Min({limit, Cardinality(rows)})
  IN {s \in Injection(1..n, rows) :
        /\ \A k \in 1..(n - 1) : order(s[k], s[k + 1])
        /\ \A i \in rows \ Range(s), k \in 1..n : order(s[k], i)}

ProbeRecordsSince(c, halves, limit) ==
  FirstRows(WindowRows(c, halves), RowLimit(limit), ByTime)

OldestRecords(c, limit) ==   \* mutant: ORDER BY time ASC in the inner query
  FirstRows(RowsOf(c), limit, ByTime)

\* The newest of a client, then the oldest of these first.
PingRecords(c, limit) ==
  {Reverse(s) : s \in FirstRows(RowsOf(c), limit, LAMBDA i, j : ByTime(j, i))}

(***************************************************************************)
(* The statistics: of a task in buildPingTasks, and again in               *)
(* rpcPingMetricStats.                                                     *)
(***************************************************************************)

RankBelow(n, p) == Max({1, (p * n) \div 100})   \* mutant: cut off instead of rounded up

\* The nearest rank, ceil(p / 100 * n), counted from 1 and kept in the range.
Rank(n, p) == LET r == (p * n + 99) \div 100 IN Min({n, Max({1, r})})

Percentile(vals, p) == SortSeq(vals, <)[Rank(Len(vals), p)]

\* The variance of n values, as a fraction.
Variance(vals) ==
  LET sum == FoldSeq(+, 0, vals)
      squares == FoldSeq(+, 0, [k \in DOMAIN vals |-> vals[k] * vals[k]])
  IN <<Len(vals) * squares - sum * sum, Len(vals) * Len(vals)>>

LossOfValid(total, valid) ==   \* mutant: valid and lost probes the wrong way round
  IF total = 0 THEN <<0, 1>> ELSE <<valid, total>>

\* What was lost, of how many; nothing of nothing counts as no loss.
Loss(total, valid) == IF total = 0 THEN <<0, 1>> ELSE <<total - valid, total>>

\* The values of a non-empty list of successful probes.
Stats(vals) ==
  [avg  |-> <<FoldSeq(+, 0, vals), Len(vals)>>,
   min  |-> Min(Range(vals)),
   max  |-> Max(Range(vals)),
   var  |-> Variance(vals),
   p50  |-> Percentile(vals, 50),
   p99  |-> Percentile(vals, 99)]

Zero == [avg |-> <<0, 1>>, min |-> 0, max |-> 0, var |-> <<0, 1>>, p50 |-> 0, p99 |-> 0]

\* One entry, of the rows s.
PingTaskInfo(s) ==
  LET vals == [k \in DOMAIN s |-> records[s[k]].value]
      ok == SelectSeq(vals, Counts)
  IN [total   |-> Len(s),
      valid   |-> Len(ok),
      latest  |-> IF s = <<>> THEN 0 ELSE Last(vals),
      loss    |-> Loss(Len(s), Len(ok)),
      stats   |-> IF ok = <<>> THEN Zero ELSE Stats(ok),
      clients |-> {records[s[k]].client : k \in DOMAIN s}]

\* The series of queryMetrics: losses leave a gap in the one and are a point of
\* value 1 in the other.
LatencySeries(s) == SelectSeq(s, LAMBDA i : Counts(records[i].value))

LossSeries(s) == [k \in DOMAIN s |-> IF Counts(records[s[k]].value) THEN 0 ELSE 1]

(***************************************************************************)
(* Properties.                                                             *)
(***************************************************************************)

SameFraction(a, b) == a[1] * b[2] = b[1] * a[2]

\* The records of a sequence that no other of it is newer than.
NewestOf(s) == {i \in Range(s) : \A j \in Range(s) : ByTime(j, i)}

\* The node list (summarizePing), the task list (buildPingTasks) and the charts
\* (pingMetricSeries) say the same of a client if they look at the same records,
\* at least one, in whatever order these come: the same loss, mean and extremes,
\* and the same latest result unless several records are of the newest second.
\* Of no records they do not (NoRecordsAgree), and an answer that was cut at its
\* limit is not of the same records.
RecordsAreReadAlike ==
  \A c \in Clients, h \in HalfHours, limit \in Limits :
    \A s \in ProbeRecordsSince(c, h, limit) :
      (s # <<>> /\ Range(s) = InWindow(c)) =>
        LET info == PingTaskInfo(s)
            node == Summary(c)
        IN /\ SameFraction(info.loss, node.loss)
           /\ FoldSeq(+, 0, LossSeries(s)) = info.total - info.valid
           /\ Len(LatencySeries(s)) = info.valid
           /\ info.valid > 0 =>
                /\ SameFraction(info.stats.avg, node.avg)
                /\ info.stats.min = node.min /\ info.stats.max = node.max
           /\ Cardinality(NewestOf(s)) = 1 => info.latest = node.latest

\* A median has at most half of the samples on either side; the 99th percentile
\* at most 99 % below it and at most 1 % above it; neither is outside the
\* extremes, and the variance is not negative.
PercentilesSplitTheSamples ==
  \A c \in Clients \cup {AnyClient}, h \in HalfHours : \A s \in ProbeRecordsSince(c, h, MaxRows) :
    LET ok == LatencySeries(s)
        st == PingTaskInfo(s).stats
        share(P(_)) == Cardinality({k \in DOMAIN ok : P(records[ok[k]].value)})
    IN ok # <<>> =>
         /\ \A p \in {<<50, st.p50>>, <<99, st.p99>>} :
              /\ 100 * share(LAMBDA v : v < p[2]) < p[1] * Len(ok)
              /\ 100 * share(LAMBDA v : v > p[2]) <= (100 - p[1]) * Len(ok)
         /\ st.min <= st.p50 /\ st.p50 <= st.p99 /\ st.p99 <= st.max
         /\ st.var[1] >= 0

\* The latest result in the task list is the one getPingRecords ends with, and both
\* are of the newest record of the table, unless the task list's answer was cut at
\* its limit, or at the smaller one that stands in for a limit above the maximum:
\* the two queries are cut at opposite ends.  Of several records of the newest
\* second each may take another.
LatestUnlessCut ==
  \A c \in Clients, h \in HalfHours, limit \in Limits :
    \A s \in ProbeRecordsSince(c, h, limit) :
      (s # <<>> /\ Len(s) < RowLimit(limit)) =>
        \A n \in Limits \ {0} : \A t \in PingRecords(c, n) :
          /\ \A i \in RowsOf(c) : ByTime(i, Last(s)) /\ ByTime(i, Last(t))
          /\ Cardinality(NewestOf(s)) = 1 => PingTaskInfo(s).latest = records[Last(t)].value

(***************************************************************************)
(* Claims that the code does not keep.                                     *)
(***************************************************************************)

\* A task without records in the window: the node list says that all is lost and
\* the latest probe failed, the task list that nothing is lost and the latest
\* result is 0.
NoRecordsAgree ==
  \A c \in Clients, h \in HalfHours :
    \A s \in ProbeRecordsSince(c, h, MaxRows) :
      (s = <<>> /\ InWindow(c) = {}) =>
        LET info == PingTaskInfo(s)
            node == Summary(c)
        IN SameFraction(info.loss, node.loss) /\ info.latest = node.latest

\* The comment on ProbeRecordsSince: the records of the window that is asked
\* for.  Beyond the limit the newest are left out, whatever client they are of.
WholeWindowIsAnswered ==
  \A c \in Clients \cup {AnyClient}, h \in HalfHours, limit \in Limits :
    \A s \in ProbeRecordsSince(c, h, limit) : Range(s) = WindowRows(c, h)

\* The start a MetricQueryResponse states is that of its records.  For less than
\* an hour the response states none, and the records are those of one.
StatedWindowHolds ==
  \A c \in Clients, h \in HalfHours : \A s \in ProbeRecordsSince(c, h, MaxRows) :
    \A i \in Range(s) : records[i].time >= now - IntOr(h, 1)
===============================================================================
