--------------------------- MODULE Heartbeat_proofs ---------------------------
(***************************************************************************)
(* What holds of Heartbeat for every period, every delay and every number  *)
(* of misses that leave a margin.  The invariant bounds the age of the     *)
(* last stamp by where the agent is in its cycle: it grows by the length   *)
(* of a cycle with every report that fails, and of waiting for a tick      *)
(* nothing needs to be said, because a cycle takes so long that its tick   *)
(* has come when it ends.                                                  *)
(***************************************************************************)
EXTENDS Heartbeat, TLAPS

Cycle == Interval + 2 * Delay

(***************************************************************************)
(* Arithmetic.                                                             *)
(***************************************************************************)

LEMMA Periods ==
  /\ Second \in Nat /\ Second > 0
  /\ Interval \in Nat /\ Interval > 0
  /\ WatchEvery \in Nat /\ WatchEvery > 0
  /\ Delay \in Nat /\ MaxMisses \in Nat /\ OfflineAfter \in Nat /\ Walk \in Nat
  /\ MaxFaults \in Nat
  /\ Never \notin Int
BY PeriodsAssumption

\* A stamp is less than a second old.
LEMMA StampIsRecent ==
  ASSUME NEW t \in Nat
  PROVE  /\ Stamp(t) \in Int
         /\ Stamp(t) <= t
         /\ t < Stamp(t) + Second
<1>1. Second \in Nat \ {0}
  BY PeriodsAssumption
<1>2. t % Second \in 0..(Second - 1)
  BY <1>1, SMT
<1> QED
  BY <1>1, <1>2 DEF Stamp

\* The cycles of the reports that failed, as long as one more may fail.
LEMMA CyclesGrow ==
  ASSUME NEW m \in 0..MaxMisses
  PROVE  /\ m * Cycle \in Nat
         /\ (m + 1) * Cycle = m * Cycle + Cycle
         /\ m * Cycle <= MaxMisses * Cycle
<1>1. Cycle \in Nat /\ MaxMisses \in Nat
  BY PeriodsAssumption DEF Cycle
<1> QED
  BY <1>1, SMT

LEMMA Margin == Delay + MaxMisses * Cycle + Cycle + Second <= OfflineAfter
<1>1. Cycle \in Nat /\ MaxMisses \in Nat /\ Delay \in Nat
  BY PeriodsAssumption DEF Cycle
<1>2. (MaxMisses + 1) * Cycle = MaxMisses * Cycle + Cycle
  BY <1>1, SMT
<1>3. LongestGap = (MaxMisses + 1) * Cycle + Delay
  BY DEF LongestGap, Cycle
<1> QED
  BY <1>1, <1>2, <1>3, MarginAssumption, PeriodsAssumption DEF Cycle

(***************************************************************************)
(* The invariant.                                                          *)
(***************************************************************************)

\* A step ends in time, and the ticker is never further than an Interval away.
InTime ==
  Up =>
    /\ now <= by
    /\ now < nextTick /\ nextTick <= now + Interval
    /\ by <= now + (IF pc = "collect" THEN Interval ELSE Delay)

\* When a cycle has been collected its tick has come.
TickHasCome ==
  /\ pc = "collect" => tick \/ nextTick <= by
  /\ pc \in {"post", "answer", "wait"} => tick

\* How far into its cycle the agent is, when the current step ends.
Spent ==
  IF pc = "fetch" THEN Delay
  ELSE IF pc = "collect" THEN Delay + Interval
  ELSE IF pc = "post" THEN Cycle
  ELSE 0

StampIsYoung ==
  Up /\ fresh => last # Never /\ by < last + Second + Delay + misses * Cycle + Spent

NoneMissed == pc = "answer" => misses = 0

\* A walk ends in time, a tick is never further away than their period, and one
\* that has come is taken at once unless there is a walk.
WatcherInTime ==
  /\ now < nextWatch /\ nextWatch <= now + WatchEvery
  /\ walking => now <= walkBy /\ walkBy <= now + Walk

\* When the watcher takes its next tick, at the latest.
NextLook ==
  IF walking
  THEN IF watchTick \/ nextWatch < walkBy THEN walkBy ELSE nextWatch
  ELSE IF watchTick THEN now ELSE nextWatch

LooksInTime ==
  last # Never /\ ~noticed => NextLook <= last + OfflineAfter + WatchGap + blind * WatchEvery

LastReport ==
  /\ stopped <= now
  /\ flying # Never => now <= flying /\ flying <= stopped + Delay
  /\ last # Never => last <= now
  /\ ~Up /\ last # Never => last <= stopped + Delay

IInv ==
  TypeOK /\ InTime /\ TickHasCome /\ StampIsYoung /\ NoneMissed /\ WatcherInTime
  /\ LooksInTime /\ LastReport

\* As long as a node is not offline the next look comes in time.
LEMMA LookIsNear ==
  ASSUME TypeOK, WatcherInTime
  PROVE  NextLook \in Nat /\ now <= NextLook /\ NextLook <= now + WatchGap
BY Periods DEF TypeOK, WatcherInTime, NextLook, WatchGap

\* Every snapshot that failed leaves time for a tick.
LEMMA BlindGrows ==
  ASSUME TypeOK
  PROVE  /\ blind * WatchEvery \in Nat
         /\ (blind + 1) * WatchEvery = blind * WatchEvery + WatchEvery
         /\ 0 * WatchEvery = 0
<1>1. blind \in Nat /\ WatchEvery \in Nat
  BY Periods DEF TypeOK
<1> QED
  BY <1>1, SMT

LEMMA InitIInv == Init => IInv
<1> SUFFICES ASSUME Init PROVE IInv
  OBVIOUS
<1> USE Periods DEF Init
<1>1. /\ tick \in BOOLEAN /\ fresh \in BOOLEAN /\ noticed \in BOOLEAN
      /\ walking \in BOOLEAN /\ watchTick \in BOOLEAN
  BY Zenon
<1>2. TypeOK
  BY <1>1 DEF TypeOK
<1>3. InTime /\ TickHasCome /\ StampIsYoung /\ NoneMissed /\ LastReport
  BY DEF InTime, TickHasCome, StampIsYoung, NoneMissed, LastReport, Up
<1>4. WatcherInTime
  BY DEF WatcherInTime
<1>5. LooksInTime
  BY DEF LooksInTime
<1> QED
  BY <1>2, <1>3, <1>4, <1>5 DEF IInv

USE DEF Up

LEMMA StartKeeps == IInv /\ Start => IInv'
<1> SUFFICES ASSUME IInv, Start PROVE IInv'
  OBVIOUS
<1> USE Periods DEF Start, watchVars, seenVars, IInv, TypeOK
<1>0. tick' \in BOOLEAN /\ fresh' \in BOOLEAN
  BY Zenon
<1>1. TypeOK'
  BY <1>0
<1>2. InTime' /\ TickHasCome' /\ NoneMissed' /\ StampIsYoung'
  BY DEF InTime, TickHasCome, NoneMissed, StampIsYoung
<1>3. WatcherInTime' /\ LooksInTime' /\ LastReport'
  BY DEF WatcherInTime, LooksInTime, NextLook, LastReport
<1> QED
  BY <1>1, <1>2, <1>3

LEMMA FetchedKeeps == IInv /\ Fetched => IInv'
<1> SUFFICES ASSUME IInv, Fetched PROVE IInv'
  OBVIOUS
<1> USE Periods DEF Fetched, Step, watchVars, seenVars, IInv, TypeOK
<1>1. TypeOK'
  OBVIOUS
<1>2. InTime'
  BY DEF InTime
<1>3. TickHasCome' /\ NoneMissed'
  BY DEF TickHasCome, NoneMissed, InTime
<1>4. StampIsYoung'
  BY CyclesGrow DEF StampIsYoung, Spent, InTime
<1>5. WatcherInTime' /\ LooksInTime' /\ LastReport'
  BY DEF WatcherInTime, LooksInTime, NextLook, LastReport
<1> QED
  BY <1>1, <1>2, <1>3, <1>4, <1>5

LEMMA CollectedKeeps == IInv /\ Collected => IInv'
<1> SUFFICES ASSUME IInv, Collected PROVE IInv'
  OBVIOUS
<1> USE Periods DEF Collected, Step, watchVars, seenVars, IInv, TypeOK
<1>1. TypeOK'
  OBVIOUS
<1>2. InTime'
  BY DEF InTime
<1>3. TickHasCome' /\ NoneMissed'
  BY DEF TickHasCome, NoneMissed, InTime
<1>4. StampIsYoung'
  BY CyclesGrow DEF StampIsYoung, Spent, Cycle
<1>5. WatcherInTime' /\ LooksInTime' /\ LastReport'
  BY DEF WatcherInTime, LooksInTime, NextLook, LastReport
<1> QED
  BY <1>1, <1>2, <1>3, <1>4, <1>5

\* After a report the next look is in time, because a second is less than the time
\* after which a node is offline.
LEMMA FreshLook ==
  ASSUME TypeOK, WatcherInTime, NEW t \in Int, now < t + Second
  PROVE  NextLook <= t + OfflineAfter + WatchGap + 0 * WatchEvery
<1>1. Second <= OfflineAfter
  BY Margin, CyclesGrow, Periods DEF Cycle, TypeOK
<1>2. WatchGap \in Nat /\ 0 * WatchEvery = 0 /\ now \in Nat
  BY Periods DEF WatchGap, TypeOK
<1>3. NextLook \in Nat /\ NextLook <= now + WatchGap
  BY LookIsNear
<1> QED
  BY <1>1, <1>2, <1>3, Periods

LEMMA StoredKeeps == IInv /\ Stored => IInv'
<1> SUFFICES ASSUME IInv, Stored PROVE IInv'
  OBVIOUS
<1> USE Periods DEF Stored, Step, watchVars, IInv
<1>1. Stamp(now) \in Int /\ Stamp(now) <= now /\ now < Stamp(now) + Second
  BY StampIsRecent DEF TypeOK
<1>0. /\ tick' \in BOOLEAN /\ fresh' \in BOOLEAN /\ noticed' \in BOOLEAN
      /\ walking' \in BOOLEAN /\ watchTick' \in BOOLEAN
  BY Zenon DEF TypeOK
<1>2. TypeOK'
  BY <1>0, <1>1 DEF TypeOK
<1>3. InTime' /\ TickHasCome' /\ NoneMissed'
  BY DEF TypeOK, InTime, TickHasCome, NoneMissed
<1>4. StampIsYoung'
  <2>1. misses' * Cycle = 0
    BY DEF Cycle
  <2> QED
    BY <1>1, <2>1 DEF TypeOK, StampIsYoung, Spent, InTime
<1>5. WatcherInTime' /\ NextLook' = NextLook
  BY DEF WatcherInTime, NextLook
<1>6. LooksInTime'
  BY <1>1, <1>5, FreshLook DEF LooksInTime
<1>7. LastReport'
  BY <1>1 DEF TypeOK, InTime, LastReport
<1> QED
  BY <1>2, <1>3, <1>4, <1>5, <1>6, <1>7

LEMMA MissedKeeps == IInv /\ Missed => IInv'
<1> SUFFICES ASSUME IInv, Missed PROVE IInv'
  OBVIOUS
<1> USE Periods DEF Missed, Step, watchVars, seenVars, IInv, TypeOK
<1>1. TypeOK'
  OBVIOUS
<1>2. InTime' /\ TickHasCome' /\ NoneMissed'
  BY DEF InTime, TickHasCome, NoneMissed
<1>3. StampIsYoung'
  <2>1. misses' * Cycle = misses * Cycle + Cycle
    BY CyclesGrow
  <2> QED
    BY <2>1, CyclesGrow DEF StampIsYoung, Spent, Cycle
<1>4. WatcherInTime' /\ LooksInTime' /\ LastReport'
  BY DEF WatcherInTime, LooksInTime, NextLook, LastReport
<1> QED
  BY <1>1, <1>2, <1>3, <1>4

LEMMA AnsweredKeeps == IInv /\ Answered => IInv'
<1> SUFFICES ASSUME IInv, Answered PROVE IInv'
  OBVIOUS
<1> USE Periods DEF Answered, Step, watchVars, seenVars, IInv, TypeOK
<1>1. TypeOK' /\ InTime' /\ TickHasCome' /\ NoneMissed'
  BY DEF InTime, TickHasCome, NoneMissed
<1>2. StampIsYoung'
  BY CyclesGrow DEF StampIsYoung, Spent
<1>3. WatcherInTime' /\ LooksInTime' /\ LastReport'
  BY DEF WatcherInTime, LooksInTime, NextLook, LastReport
<1> QED
  BY <1>1, <1>2, <1>3

LEMMA NextCycleKeeps == IInv /\ NextCycle => IInv'
<1> SUFFICES ASSUME IInv, NextCycle PROVE IInv'
  OBVIOUS
<1> USE Periods DEF NextCycle, Step, watchVars, seenVars, IInv, TypeOK
<1>0. tick' \in BOOLEAN /\ fresh' \in BOOLEAN
  BY Zenon
<1>1. TypeOK' /\ InTime' /\ TickHasCome' /\ NoneMissed'
  BY <1>0 DEF InTime, TickHasCome, NoneMissed
<1>2. StampIsYoung'
  BY CyclesGrow DEF StampIsYoung, Spent, InTime
<1>3. WatcherInTime' /\ LooksInTime' /\ LastReport'
  BY DEF WatcherInTime, LooksInTime, NextLook, LastReport
<1> QED
  BY <1>1, <1>2, <1>3

LEMMA StopKeeps == IInv /\ Stop => IInv'
<1> SUFFICES ASSUME IInv, Stop PROVE IInv'
  OBVIOUS
<1> USE Periods DEF Stop, watchVars, seenVars, IInv, TypeOK
<1>1. TypeOK' /\ InTime' /\ TickHasCome' /\ StampIsYoung' /\ NoneMissed'
  BY DEF InTime, TickHasCome, StampIsYoung, NoneMissed
<1>2. WatcherInTime' /\ LooksInTime'
  BY DEF WatcherInTime, LooksInTime, NextLook
<1>3. LastReport'
  BY DEF InTime, LastReport
<1> QED
  BY <1>1, <1>2, <1>3

LEMMA LateReportKeeps == IInv /\ LateReport => IInv'
<1> SUFFICES ASSUME IInv, LateReport PROVE IInv'
  OBVIOUS
<1> USE Periods DEF LateReport, agentVars, watchVars, seenVars, IInv
<1>1. Stamp(now) \in Int /\ Stamp(now) <= now /\ now < Stamp(now) + Second
  BY StampIsRecent DEF TypeOK
<1>0. /\ tick' \in BOOLEAN /\ fresh' \in BOOLEAN /\ noticed' \in BOOLEAN
      /\ walking' \in BOOLEAN /\ watchTick' \in BOOLEAN
  BY Zenon DEF TypeOK
<1>2. TypeOK'
  BY <1>0, <1>1 DEF TypeOK
<1>3. InTime' /\ TickHasCome' /\ NoneMissed'
  BY DEF InTime, TickHasCome, NoneMissed
<1>4. CASE UNCHANGED <<last, seenVars>>
  <2>1. StampIsYoung'
    BY <1>4 DEF StampIsYoung, Spent
  <2>2. WatcherInTime' /\ LooksInTime' /\ LastReport'
    BY <1>4 DEF TypeOK, WatcherInTime, LooksInTime, NextLook, LastReport
  <2> QED
    BY <1>2, <1>3, <2>1, <2>2
<1>5. CASE last' = Stamp(now) /\ noticed' = FALSE /\ blind' = 0
  <2>1. StampIsYoung'
    BY <1>1, <1>5, CyclesGrow DEF TypeOK, StampIsYoung, Spent, InTime, Cycle
  <2>2. WatcherInTime' /\ NextLook' = NextLook
    BY DEF WatcherInTime, NextLook
  <2>3. LooksInTime'
    BY <1>1, <1>5, <2>2, FreshLook DEF LooksInTime
  <2>4. LastReport'
    BY <1>1, <1>5 DEF TypeOK, LastReport
  <2> QED
    BY <1>2, <1>3, <2>1, <2>2, <2>3, <2>4
<1> QED
  BY <1>4, <1>5

LEMMA WatchTickKeeps == IInv /\ WatchTick => IInv'
<1> SUFFICES ASSUME IInv, WatchTick PROVE IInv'
  OBVIOUS
<1> USE Periods DEF WatchTick, agentVars, IInv
<1>0. /\ tick' \in BOOLEAN /\ fresh' \in BOOLEAN /\ noticed' \in BOOLEAN
      /\ walking' \in BOOLEAN /\ watchTick' \in BOOLEAN
  BY Zenon DEF JudgedOffline, Online, TypeOK
<1>1. TypeOK'
  BY <1>0 DEF TypeOK
<1>2. InTime' /\ TickHasCome' /\ NoneMissed' /\ StampIsYoung' /\ LastReport'
  BY DEF InTime, TickHasCome, NoneMissed, StampIsYoung, Spent, LastReport
<1>3. WatcherInTime'
  BY DEF TypeOK, WatcherInTime
<1>4. last # Never /\ ~noticed' => now - last < OfflineAfter
  BY Zenon DEF JudgedOffline, Online
<1>5. NextLook' \in Nat /\ NextLook' <= now + WatchGap /\ WatchGap \in Nat
  BY DEF TypeOK, WatcherInTime, NextLook, WatchGap
<1>6. blind * WatchEvery \in Nat
  BY BlindGrows
<1>7. LooksInTime'
  BY <1>4, <1>5, <1>6 DEF TypeOK, LooksInTime
<1> QED
  BY <1>1, <1>2, <1>3, <1>7

LEMMA SnapshotFailsKeeps == IInv /\ SnapshotFails => IInv'
<1> SUFFICES ASSUME IInv, SnapshotFails PROVE IInv'
  OBVIOUS
<1> USE Periods DEF SnapshotFails, agentVars, IInv
<1>0. /\ tick' \in BOOLEAN /\ fresh' \in BOOLEAN /\ noticed' \in BOOLEAN
      /\ walking' \in BOOLEAN /\ watchTick' \in BOOLEAN
  BY Zenon DEF TypeOK
<1>1. TypeOK'
  BY <1>0 DEF TypeOK
<1>2. InTime' /\ TickHasCome' /\ NoneMissed' /\ StampIsYoung' /\ LastReport'
  BY DEF InTime, TickHasCome, NoneMissed, StampIsYoung, Spent, LastReport
<1>3. WatcherInTime'
  BY DEF TypeOK, WatcherInTime
<1>4. NextLook = now /\ NextLook' = nextWatch /\ nextWatch <= now + WatchEvery
  BY DEF TypeOK, WatcherInTime, NextLook
<1>5. WatchGap \in Nat /\ WatchEvery <= WatchGap
  BY DEF WatchGap
<1>6. LooksInTime'
  <2> SUFFICES ASSUME last # Never, ~noticed
               PROVE  NextLook' <= last + OfflineAfter + WatchGap + blind' * WatchEvery
    BY DEF LooksInTime
  <2>1. CASE JudgedOffline
    <3>1. blind' * WatchEvery = blind * WatchEvery + WatchEvery
      BY <2>1, BlindGrows
    <3> QED
      BY <3>1, <1>4, <1>5, BlindGrows DEF TypeOK, LooksInTime
  <2>2. CASE ~JudgedOffline
    <3>1. now - last < OfflineAfter /\ blind' = blind
      BY <2>2 DEF JudgedOffline, Online
    <3> QED
      BY <3>1, <1>4, <1>5, BlindGrows DEF TypeOK
  <2> QED
    BY <2>1, <2>2
<1> QED
  BY <1>1, <1>2, <1>3, <1>6

LEMMA WalkDoneKeeps == IInv /\ WalkDone => IInv'
<1> SUFFICES ASSUME IInv, WalkDone PROVE IInv'
  OBVIOUS
<1> USE Periods DEF WalkDone, agentVars, seenVars, IInv
<1>0. /\ tick' \in BOOLEAN /\ fresh' \in BOOLEAN /\ noticed' \in BOOLEAN
      /\ walking' \in BOOLEAN /\ watchTick' \in BOOLEAN
  BY Zenon DEF TypeOK
<1>1. TypeOK'
  BY <1>0 DEF TypeOK
<1>2. InTime' /\ TickHasCome' /\ NoneMissed' /\ StampIsYoung' /\ LastReport' /\ WatcherInTime'
  BY DEF InTime, TickHasCome, NoneMissed, StampIsYoung, Spent, LastReport, WatcherInTime
<1>3. NextLook' \in Nat /\ NextLook \in Nat /\ NextLook' <= NextLook
  BY DEF TypeOK, WatcherInTime, NextLook
<1>4. WatchGap \in Nat /\ blind * WatchEvery \in Nat
  BY BlindGrows DEF WatchGap
<1>5. LooksInTime'
  BY <1>3, <1>4 DEF TypeOK, LooksInTime
<1> QED
  BY <1>1, <1>2, <1>5

LEMMA AdvanceTimeKeeps == IInv /\ AdvanceTime => IInv'
<1> SUFFICES ASSUME IInv, AdvanceTime PROVE IInv'
  OBVIOUS
<1> USE Periods DEF AdvanceTime, seenVars, IInv
<1>0. tick' \in BOOLEAN /\ watchTick' \in BOOLEAN
  BY Zenon DEF TypeOK
<1>1. pc # "wait"
  BY DEF TickHasCome
<1>2. TypeOK'
  BY <1>0 DEF TypeOK
<1>3. InTime'
  BY <1>1 DEF TypeOK, InTime
<1>4. TickHasCome' /\ NoneMissed'
  BY DEF TypeOK, TickHasCome, NoneMissed, InTime
<1>5. StampIsYoung' /\ LastReport'
  BY DEF TypeOK, StampIsYoung, Spent, LastReport
<1>6. WatcherInTime'
  BY DEF TypeOK, WatcherInTime
<1>9. walking \/ ~watchTick
  OBVIOUS
<1>7. NextLook' = NextLook
  <2>1. CASE now' = nextWatch
    <3>2. CASE walking
      <4>1. watchTick'
        BY <2>1
      <4>2. NextLook' = walkBy
        BY <3>2, <4>1 DEF NextLook
      <4>3. nextWatch <= walkBy
        BY <2>1, <3>2 DEF TypeOK
      <4> QED
        BY <3>2, <4>2, <4>3 DEF TypeOK, NextLook
    <3>3. CASE ~walking
      BY <2>1, <3>3 DEF TypeOK, NextLook
    <3> QED
      BY <3>2, <3>3
  <2>2. CASE now' # nextWatch
    <3>1. watchTick' = watchTick /\ nextWatch' = nextWatch
      BY <2>2, Zenon DEF TypeOK
    <3> QED
      BY <3>1, <1>9 DEF NextLook
  <2> QED
    BY <2>1, <2>2
<1>8. LooksInTime'
  BY <1>7 DEF LooksInTime
<1> QED
  BY <1>2, <1>3, <1>4, <1>5, <1>6, <1>8

LEMMA StepKeepsIInv == IInv /\ [Next]_vars => IInv'
<1> SUFFICES ASSUME IInv, [Next]_vars PROVE IInv'
  OBVIOUS
<1>1. CASE Agent
  BY <1>1, StartKeeps, FetchedKeeps, CollectedKeeps, StoredKeeps, MissedKeeps, AnsweredKeeps,
     NextCycleKeeps, StopKeeps, LateReportKeeps DEF Agent
<1>2. CASE Watcher
  BY <1>2, WatchTickKeeps, SnapshotFailsKeeps, WalkDoneKeeps DEF Watcher
<1>3. CASE AdvanceTime
  BY <1>3, AdvanceTimeKeeps
<1>4. CASE UNCHANGED vars
  <2> USE <1>4 DEF vars, IInv
  <2>1. TypeOK' /\ InTime' /\ TickHasCome' /\ StampIsYoung' /\ NoneMissed'
    BY DEF TypeOK, InTime, TickHasCome, StampIsYoung, Spent, NoneMissed
  <2>2. WatcherInTime' /\ LooksInTime' /\ LastReport'
    BY DEF WatcherInTime, LooksInTime, NextLook, LastReport
  <2> QED
    BY <2>1, <2>2
<1> QED
  BY <1>1, <1>2, <1>3, <1>4 DEF Next

(***************************************************************************)
(* The theorems.                                                           *)
(***************************************************************************)

LEMMA IInvHolds == Spec => []IInv
BY InitIInv, StepKeepsIInv, PTL DEF Spec

\* Every variable keeps its type.
THEOREM TypeCorrect == Spec => []TypeOK
<1>1. IInv => TypeOK
  BY DEF IInv
<1> QED
  BY <1>1, IInvHolds, PTL

\* An agent that runs and has reported is never judged offline, for any periods,
\* delays and misses that leave the margin.
THEOREM NeverJudgedOfflineCorrect == Spec => []NeverJudgedOffline
<1>1. IInv => NeverJudgedOffline
  <2> SUFFICES ASSUME IInv, Up, fresh PROVE now - last < OfflineAfter /\ last # Never
    BY DEF NeverJudgedOffline, Online
  <2> USE Periods DEF IInv, TypeOK
  <2>1. last # Never /\ by < last + Second + Delay + misses * Cycle + Spent
    BY DEF StampIsYoung
  <2>2. Spent \in Nat /\ Spent <= Cycle /\ Cycle \in Nat
    BY DEF Spent, Cycle
  <2>3. misses * Cycle \in Nat /\ misses * Cycle <= MaxMisses * Cycle /\ MaxMisses * Cycle \in Nat
    BY CyclesGrow
  <2>4. now <= by
    BY DEF InTime
  <2> QED
    BY <2>1, <2>2, <2>3, <2>4, Margin
<1> QED
  BY <1>1, IInvHolds, PTL

\* A node that has fallen silent is seen offline in time, whatever report was
\* under way, wherever the watcher was, however long it walks, and with a tick more
\* for every snapshot that failed.
THEOREM SilenceIsNoticedCorrect == Spec => []SilenceIsNoticed
<1>1. IInv => SilenceIsNoticed
  <2> SUFFICES ASSUME IInv, ~Up, last # Never, ~noticed
               PROVE  now <= stopped + Delay + OfflineAfter + WatchGap + blind * WatchEvery
    BY Periods, BlindGrows DEF IInv, TypeOK, SilenceIsNoticed, WatchGap
  <2>1. last \in Int /\ last <= stopped + Delay /\ stopped \in Nat
    BY Periods DEF IInv, TypeOK, LastReport
  <2>2. now <= NextLook /\ NextLook \in Nat /\ now \in Nat
    BY LookIsNear DEF IInv, TypeOK
  <2>3. NextLook <= last + OfflineAfter + WatchGap + blind * WatchEvery
    BY DEF IInv, LooksInTime
  <2>4. blind * WatchEvery \in Nat /\ WatchGap \in Nat
    BY BlindGrows, Periods DEF IInv, WatchGap
  <2> QED
    BY <2>1, <2>2, <2>3, <2>4, Periods
<1> QED
  BY <1>1, IInvHolds, PTL
===============================================================================
