--------------------------- MODULE AlertWatch_proofs ---------------------------
(***************************************************************************)
(* Theorems about AlertWatch, for any readings, rules, channels, periods   *)
(* and bounds: its types; that notifications of one kind and node are a    *)
(* cooldown apart in one life of the server; that nothing old is sent, and *)
(* nothing while it is muted; and that what is due is notified in time.    *)
(***************************************************************************)
EXTENDS AlertWatch, FiniteSetTheorems, WellFoundedInduction, TLAPS

(***************************************************************************)
(* Types.                                                                  *)
(***************************************************************************)

\* While a notification is being sent, a channel is left.
TypeInv == TypeOK /\ (pc = "send" => left >= 1)

\* The key of a reading is one that lastSent and sent are kept for.
LEMMA KeyOfReading ==
  ASSUME NEW e \in Readings
  PROVE  Key(e) \in Keys
BY DEF Keys

\* The history of what is due and over stays one of times.
LEMMA TrackType ==
  ASSUME TypeOK, NEW R, NEW rs, NEW t \in Time, Track(R, rs, t)
  PROVE  /\ due' \in [Readings -> Time \cup {Never}]
         /\ ended' \in [Readings -> Time \cup {Never}]
BY DEF TypeOK, Track

\* The watcher starts with nothing to do.
LEMMA TypeInit == Init => TypeInv
<1> SUFFICES ASSUME Init
             PROVE  TypeInv
  OBVIOUS
<1>1. 0 \in Time /\ 0 \in 0..Channels /\ 0 \in 0..0
  BY TimesAssumption DEF Time
<1>2. /\ lastSent \in [Keys -> Time \cup {Never}]
      /\ sent \in [Keys -> SUBSET Time]
      /\ due \in [Readings -> Time \cup {Never}]
      /\ ended \in [Readings -> Time \cup {Never}]
  BY DEF Init
<1> QED
  BY <1>1, <1>2 DEF Init, TypeInv, TypeOK

\* Changes of the readings and of the rules leave the watcher alone.
LEMMA ApiType ==
  ASSUME TypeInv, Api \/ \E e \in Readings : Flip(e)
  PROVE  TypeInv'
<1>1. now \in Time
  BY DEF TypeInv, TypeOK
<1>2. ASSUME NEW e \in Readings, Flip(e)
      PROVE  TypeInv'
  <2>1. readings' \subseteq Readings
    BY <1>2 DEF Flip, TypeInv, TypeOK
  <2>2. /\ due' \in [Readings -> Time \cup {Never}]
        /\ ended' \in [Readings -> Time \cup {Never}]
    BY <1>1, <1>2, TrackType DEF Flip, TypeInv
  <2> QED
    BY <1>2, <2>1, <2>2 DEF Flip, TypeInv, TypeOK, watchVars
<1>3. ASSUME NEW rs, ChangeRules(rs)
      PROVE  TypeInv'
  <2>1. /\ due' \in [Readings -> Time \cup {Never}]
        /\ ended' \in [Readings -> Time \cup {Never}]
    BY <1>1, <1>3, TrackType DEF ChangeRules, TypeInv
  <2> QED
    BY <1>3, <2>1 DEF ChangeRules, TypeInv, TypeOK, watchVars
<1> QED
  BY <1>2, <1>3 DEF Api, SetRule, DeleteRule

\* A walk works on readings, and a notification on at least one channel.
LEMMA WatcherType ==
  ASSUME TypeInv, Watcher
  PROVE  TypeInv'
<1> USE DEF TypeInv, TypeOK
<1>1. CASE TakeSnapshot
  BY <1>1 DEF TakeSnapshot
<1>2. CASE SnapshotFails
  BY <1>2 DEF SnapshotFails, watchVars
<1>3. CASE WalkDone
  BY <1>3 DEF WalkDone
<1>4. CASE SendOne
  <2>1. left' \in 0..Channels /\ (left # 1 => left' >= 1)
    BY <1>4, TimesAssumption DEF SendOne
  <2>2. sendStart' \in Time
    BY <1>4 DEF SendOne
  <2> QED
    BY <1>4, <2>1, <2>2, NeverAssumption DEF SendOne, budgets
<1>5. ASSUME NEW e \in events, Drop(e)
      PROVE  TypeInv'
  BY <1>5 DEF Drop
<1>6. ASSUME NEW e \in events, Notify(e)
      PROVE  TypeInv'
  <2>1. e \in Readings /\ Key(e) \in Keys
    BY KeyOfReading
  <2>2. left' \in 0..Channels /\ left' >= 1
    BY <1>6, TimesAssumption DEF Notify, Passes
  <2>3. /\ lastSent' \in [Keys -> Time \cup {Never}]
        /\ sent' \in [Keys -> SUBSET Time]
    BY <1>6, <2>1 DEF Notify
  <2>4. current' \in Readings /\ pc' = "send" /\ current' # Nothing
    BY <1>6, <2>1, NeverAssumption DEF Notify
  <2> QED
    BY <1>6, <2>2, <2>3, <2>4 DEF Notify, budgets
<1> QED
  BY <1>1, <1>2, <1>3, <1>4, <1>5, <1>6 DEF Watcher

\* Every step keeps the types.
LEMMA TypeStep == TypeInv /\ [Next]_vars => TypeInv'
<1> SUFFICES ASSUME TypeInv, [Next]_vars
             PROVE  TypeInv'
  OBVIOUS
<1>1. CASE Api \/ \E e \in Readings : Flip(e)
  BY <1>1, ApiType
<1>2. CASE Watcher
  BY <1>2, WatcherType
<1>3. CASE Restart
  <2>1. boot' \in 0..now' /\ left' \in 0..Channels
    BY <1>3, TimesAssumption DEF Restart, TypeInv, TypeOK, Time
  <2>2. /\ lastSent' \in [Keys -> Time \cup {Never}]
        /\ sent' \in [Keys -> SUBSET Time]
    BY <1>3 DEF Restart
  <2>3. /\ events' \subseteq Readings
        /\ current' = Nothing /\ pc' = "tick"
        /\ tick' \in BOOLEAN
    BY <1>3 DEF Restart
  <2> QED
    BY <1>3, <2>1, <2>2, <2>3 DEF Restart, TypeInv, TypeOK
<1>4. CASE AdvanceTime
  <2>1. now' \in Time /\ boot \in 0..now'
    BY <1>4, TimesAssumption DEF AdvanceTime, TypeInv, TypeOK, Time
  <2>2. /\ due' \in [Readings -> Time \cup {Never}]
        /\ ended' \in [Readings -> Time \cup {Never}]
    BY <1>4, <2>1, TrackType DEF AdvanceTime, TypeInv
  <2>3. tick' \in BOOLEAN
    BY <1>4 DEF AdvanceTime, TypeInv, TypeOK
  <2> QED
    BY <1>4, <2>1, <2>2, <2>3 DEF AdvanceTime, TypeInv, TypeOK, watchVars, budgets
<1>5. CASE UNCHANGED vars
  BY <1>5 DEF vars, TypeInv, TypeOK
<1> QED
  BY <1>1, <1>2, <1>3, <1>4, <1>5 DEF Next

\* The type invariant, for every value of the constants.
LEMMA TypeInvHolds == Spec => []TypeInv
BY TypeInit, TypeStep, PTL DEF Spec

\* Every variable of the watcher, the manager and the histories keeps its type.
THEOREM TypeCorrect == Spec => []TypeOK
<1>1. TypeInv => TypeOK
  BY DEF TypeInv
<1> QED
  BY <1>1, TypeInvHolds, PTL

(***************************************************************************)
(* Deduplication.                                                          *)
(***************************************************************************)

\* What the manager remembers of a key is the latest of its notifications.
Remembered ==
  \A k \in Keys : \A s \in sent[k] : lastSent[k] # Never /\ s <= lastSent[k]

DedupInv == Remembered /\ Deduplicated

\* Nothing has been sent at first.
LEMMA DedupInit == Init => DedupInv
BY DEF Init, DedupInv, Remembered, Deduplicated

\* A notification that passes comes a cooldown after all others of its key.
LEMMA NotifyKeepsApart ==
  ASSUME TypeInv, DedupInv, NEW e \in events, Notify(e)
  PROVE  DedupInv'
<1>1. Key(e) \in Keys
  BY KeyOfReading DEF TypeInv, TypeOK
<1>2. /\ now \in Int /\ Cooldown \in Int /\ Cooldown > 0
      /\ \A k \in Keys : lastSent[k] # Never => lastSent[k] \in Int
      /\ \A k \in Keys : \A s \in sent[k] : s \in Int
  BY TimesAssumption DEF TypeInv, TypeOK, Time
<1>3. \A s \in sent[Key(e)] : now - s >= Cooldown
  <2> SUFFICES ASSUME NEW s \in sent[Key(e)]
               PROVE  now - s >= Cooldown
    OBVIOUS
  <2>1. lastSent[Key(e)] # Never /\ s <= lastSent[Key(e)]
    BY <1>1 DEF DedupInv, Remembered
  <2>2. ~(now - lastSent[Key(e)] < Cooldown)
    BY <2>1 DEF Notify, Passes, Cooling
  <2> QED
    BY <1>1, <1>2, <2>1, <2>2
<1>4. /\ sent' = [sent EXCEPT ![Key(e)] = @ \cup {now}]
      /\ lastSent' = [lastSent EXCEPT ![Key(e)] = now]
      /\ sent \in [Keys -> SUBSET Time] /\ lastSent \in [Keys -> Time \cup {Never}]
  BY DEF Notify, TypeInv, TypeOK
<1>5. /\ sent'[Key(e)] = sent[Key(e)] \cup {now} /\ lastSent'[Key(e)] = now
      /\ \A k \in Keys \ {Key(e)} : sent'[k] = sent[k] /\ lastSent'[k] = lastSent[k]
  BY <1>1, <1>4
<1>6. Remembered'
  <2>1. \A s \in sent'[Key(e)] : lastSent'[Key(e)] # Never /\ s <= lastSent'[Key(e)]
    BY <1>1, <1>2, <1>3, <1>5, NeverAssumption
  <2> QED
    BY <1>5, <2>1 DEF DedupInv, Remembered
<1>7. Deduplicated'
  <2>1. \A s, t \in sent'[Key(e)] : s < t => t - s >= Cooldown
    BY <1>1, <1>2, <1>3, <1>5 DEF DedupInv, Deduplicated
  <2> QED
    BY <1>5, <2>1 DEF DedupInv, Deduplicated
<1> QED
  BY <1>6, <1>7 DEF DedupInv

\* Only a notification and a restart touch what the property is about.
LEMMA DedupStep == TypeInv /\ DedupInv /\ [Next]_vars => DedupInv'
<1> SUFFICES ASSUME TypeInv, DedupInv, [Next]_vars
             PROVE  DedupInv'
  OBVIOUS
<1>1. CASE UNCHANGED <<sent, lastSent>>
  BY <1>1 DEF DedupInv, Remembered, Deduplicated
<1>2. CASE \E e \in events : Notify(e)
  BY <1>2, NotifyKeepsApart
<1>3. CASE Restart
  BY <1>3 DEF Restart, DedupInv, Remembered, Deduplicated
<1>4. CASE (\E e \in Readings : Flip(e)) \/ Api \/ AdvanceTime
  BY <1>1, <1>4 DEF Flip, Api, SetRule, DeleteRule, ChangeRules, AdvanceTime
<1>5. CASE TakeSnapshot \/ SnapshotFails \/ WalkDone \/ SendOne \/ \E e \in events : Drop(e)
  BY <1>1, <1>5 DEF TakeSnapshot, SnapshotFails, WalkDone, SendOne, Drop
<1>6. CASE UNCHANGED vars
  BY <1>1, <1>6 DEF vars
<1> QED
  BY <1>2, <1>3, <1>4, <1>5, <1>6 DEF Next, Watcher

\* Two notifications of one kind and node are at least Cooldown apart, whatever
\* tasks raise them, whatever the rules become and however long sending takes.
THEOREM DeduplicatedCorrect == Spec => []Deduplicated
<1>1. TypeInv /\ TypeInv' /\ DedupInv /\ [Next]_vars => DedupInv'
  BY DedupStep
<1>2. DedupInv => Deduplicated
  BY DEF DedupInv
<1> QED
  BY <1>1, <1>2, DedupInit, TypeInvHolds, PTL DEF Spec

(***************************************************************************)
(* The age of what is sent.  Rest is how long the events in hand may still *)
(* take; it never grows within a walk and shrinks while time passes, so    *)
(* that a reading that ends while its event is in hand leaves enough of    *)
(* Walk for it.                                                       *)
(***************************************************************************)

Rest ==
  Cardinality(events) * (Channels * SendTimeout)
    + (IF pc = "send" THEN left * SendTimeout - (now - sendStart) ELSE 0)

InHand == events \cup ({current} \ {Nothing})

\* The watcher has nothing in hand between walks, and a channel keeps its deadline.
WalkIsBounded ==
  /\ pc = "tick" => events = {}
  /\ pc = "send" => sendStart <= now /\ now <= sendStart + SendTimeout
  /\ Rest <= Walk

InTime(e) == ended[e] # Never /\ now + Rest <= ended[e] + Walk

NewsInv == WalkIsBounded /\ \A e \in InHand : e \notin readings => InTime(e)

\* What is sent for all events, and the time the one being sent still needs.
LEMMA RestType ==
  ASSUME TypeInv, WalkIsBounded
  PROVE  /\ Rest \in Nat /\ now \in Nat /\ sendStart \in Nat /\ Walk \in Nat
         /\ SendTimeout \in Nat /\ Channels \in Nat /\ Channels * SendTimeout \in Nat
         /\ IsFiniteSet(events) /\ Cardinality(events) \in Nat
         /\ Cardinality(events) * (Channels * SendTimeout) \in Nat
         /\ pc = "send" => left \in Nat \ {0} /\ left * SendTimeout \in Nat
                           /\ left * SendTimeout >= SendTimeout
<1> DEFINE c == Channels * SendTimeout
           n == Cardinality(events)
<1>1. /\ now \in Nat /\ sendStart \in Nat /\ Walk \in Nat
      /\ SendTimeout \in Nat /\ Channels \in Nat
  BY TimesAssumption DEF TypeInv, TypeOK, Time
<1>2. IsFiniteSet(events) /\ n \in Nat
  BY WalkAssumption, FS_Subset, FS_CardinalityType DEF TypeInv, TypeOK
<1>3. c \in Nat
  BY <1>1
<1> HIDE DEF c, n
<1>4. n * c \in Nat
  BY <1>2, <1>3
<1>5. ASSUME pc = "send"
      PROVE  /\ left \in Nat \ {0} /\ left * SendTimeout \in Nat
             /\ left * SendTimeout >= SendTimeout
  <2>1. left \in Nat /\ left >= 1
    BY <1>1, <1>5 DEF TypeInv, TypeOK
  <2>2. PICK d \in Nat : left = d + 1
    <3>1. left - 1 \in Nat /\ left = (left - 1) + 1
      BY <2>1
    <3> QED
      BY <3>1
  <2>3. d * SendTimeout \in Nat /\ (d + 1) * SendTimeout = d * SendTimeout + SendTimeout
    BY <1>1, <2>2
  <2> QED
    BY <1>1, <2>1, <2>2, <2>3
<1>6. Rest \in Nat
  <2>1. CASE pc = "send"
    BY <1>1, <1>4, <1>5, <2>1 DEF Rest, WalkIsBounded, c, n
  <2>2. CASE pc # "send"
    BY <1>4, <2>2 DEF Rest, c, n
  <2> QED
    BY <2>1, <2>2
<1> QED
  BY <1>1, <1>2, <1>3, <1>4, <1>5, <1>6 DEF c, n

LEMMA NewsInit == Init => NewsInv
<1> SUFFICES ASSUME Init
             PROVE  NewsInv
  OBVIOUS
<1>1. Cardinality(events) = 0 /\ pc = "tick" /\ InHand = {}
  BY FS_EmptySet DEF Init, InHand
<1>2. Rest = 0
  BY <1>1, TimesAssumption DEF Rest
<1> QED
  BY <1>1, <1>2, TimesAssumption DEF Init, NewsInv, WalkIsBounded

\* What is no longer the case ended before, or ends now.
LEMMA EndsNowOrBefore ==
  ASSUME TypeInv, NEW R, NEW rs, NEW t, Track(R, rs, t), NEW e \in Readings, e \notin R
  PROVE  ended'[e] = IF e \in readings THEN t ELSE ended[e]
BY DEF Track

\* Changes of the readings and of the rules leave the walk alone.
LEMMA ApiKeepsNews ==
  ASSUME TypeInv, NewsInv, Api \/ \E e \in Readings : Flip(e)
  PROVE  NewsInv'
<1>1. PICK R, rs : /\ Track(R, rs, now) /\ readings' = R
                   /\ UNCHANGED <<now, watchVars>>
  BY DEF Api, SetRule, DeleteRule, ChangeRules, Flip
<1>2. WalkIsBounded' /\ Rest' = Rest /\ InHand' = InHand
  BY <1>1 DEF NewsInv, WalkIsBounded, Rest, InHand, watchVars
<1>3. Rest \in Nat /\ Rest <= Walk /\ now \in Nat /\ Walk \in Nat
  BY RestType DEF NewsInv, WalkIsBounded
<1>4. ASSUME NEW e \in InHand, e \notin R
      PROVE  ended'[e] # Never /\ now + Rest <= ended'[e] + Walk
  <2>1. e \in Readings
    BY DEF InHand, TypeInv, TypeOK
  <2>2. CASE e \in readings
    <3>1. ended'[e] = now
      BY <1>1, <1>4, <2>1, <2>2, EndsNowOrBefore
    <3> QED
      BY <1>3, <3>1, NeverAssumption
  <2>3. CASE e \notin readings
    <3>1. ended'[e] = ended[e]
      BY <1>1, <1>4, <2>1, <2>3, EndsNowOrBefore
    <3> QED
      BY <2>3, <3>1 DEF NewsInv, InTime
  <2> QED
    BY <2>2, <2>3
<1> QED
  BY <1>1, <1>2, <1>4 DEF NewsInv, InTime, watchVars

\* A snapshot holds what is the case, and there is time for all of it.
LEMMA SnapshotKeepsNews ==
  ASSUME TypeInv, NewsInv, TakeSnapshot
  PROVE  NewsInv'
<1>1. /\ pc = "tick" /\ pc' = "eval" /\ events' = readings /\ current' = Nothing
      /\ UNCHANGED <<now, readings, ended>>
  BY DEF TakeSnapshot, TypeInv, TypeOK
<1>2. Rest' <= Walk
  <2> DEFINE c == Channels * SendTimeout
             n == Cardinality(events')
             m == Cardinality(Readings)
  <2>1. n \in Nat /\ m \in Nat /\ n <= m
    BY <1>1, WalkAssumption, FS_Subset, FS_CardinalityType DEF TypeInv, TypeOK
  <2>2. c \in Nat /\ Walk \in Nat
    BY TimesAssumption
  <2>3. Rest' = n * c + 0 /\ m * c <= Walk
    BY <1>1, WalkAssumption DEF Rest
  <2> HIDE DEF c, n, m
  <2>4. n * c \in Nat /\ m * c \in Nat /\ n * c <= m * c
    <3>1. PICK d \in Nat : m = n + d
      <4>1. m - n \in Nat /\ m = n + (m - n)
        BY <2>1
      <4> QED
        BY <4>1
    <3>2. n * c \in Nat /\ d * c \in Nat /\ (n + d) * c = n * c + d * c
      BY <2>1, <2>2, <3>1
    <3> QED
      BY <3>1, <3>2
  <2> QED
    BY <2>2, <2>3, <2>4
<1>3. InHand' \subseteq readings'
  BY <1>1 DEF InHand
<1> QED
  BY <1>1, <1>2, <1>3 DEF NewsInv, WalkIsBounded

\* A step of the watcher that has less in hand, and needs no more time for it.
LEMMA LessKeepsNews ==
  ASSUME TypeInv, NewsInv, InHand' \subseteq InHand, Rest' \in Nat, Rest' <= Rest,
         pc' = "tick" => events' = {},
         pc' = "send" => sendStart' <= now /\ now <= sendStart' + SendTimeout,
         UNCHANGED <<now, readings, ended>>
  PROVE  NewsInv'
<1>1. Rest \in Nat /\ now \in Nat /\ Walk \in Nat
  BY RestType DEF NewsInv
<1>2. WalkIsBounded'
  BY <1>1 DEF NewsInv, WalkIsBounded
<1>3. ASSUME NEW e \in InHand, e \notin readings
      PROVE  InTime(e)'
  <2>1. /\ ended[e] # Never /\ now + Rest <= ended[e] + Walk
        /\ ended[e] \in Nat
    BY <1>3, TimesAssumption DEF NewsInv, InTime, InHand, TypeInv, TypeOK, Time
  <2> QED
    BY <1>1, <2>1 DEF InTime
<1> QED
  BY <1>2, <1>3 DEF NewsInv

\* Without an event there is less to send.
LEMMA OneEventLess ==
  ASSUME TypeInv, WalkIsBounded, NEW e \in events, events' = events \ {e}
  PROVE  /\ Cardinality(events') * (Channels * SendTimeout) \in Nat
         /\ Cardinality(events') * (Channels * SendTimeout) + Channels * SendTimeout
              = Cardinality(events) * (Channels * SendTimeout)
<1> DEFINE c == Channels * SendTimeout
           n == Cardinality(events)
<1>1. c \in Nat /\ n \in Nat /\ IsFiniteSet(events)
  BY RestType
<1>2. Cardinality(events') = n - 1 /\ Cardinality(events') \in Nat
  BY <1>1, FS_RemoveElement, FS_CardinalityType
<1> HIDE DEF c, n
<1>3. (n - 1) * c = n * c - c /\ n * c \in Nat
  BY <1>1
<1>4. Cardinality(events') * c \in Nat
  BY <1>1, <1>2
<1> QED
  BY <1>1, <1>2, <1>3, <1>4 DEF c, n

\* An event that is dropped, begun or sent to one more channel needs no more time
\* than it was given.
LEMMA RestShrinks ==
  ASSUME TypeInv, WalkIsBounded, SendOne \/ \E e \in events : Drop(e) \/ Notify(e)
  PROVE  Rest' \in Nat /\ Rest' <= Rest
<1> DEFINE c == Channels * SendTimeout
<1>0. /\ Rest \in Nat /\ now \in Nat /\ sendStart \in Nat
      /\ SendTimeout \in Nat /\ c \in Nat
      /\ Cardinality(events) * c \in Nat
  BY RestType
<1>1. ASSUME NEW e \in events, Drop(e)
      PROVE  Rest' \in Nat /\ Rest' <= Rest
  <2>1. pc = "eval" /\ pc' = "eval" /\ events' = events \ {e}
    BY <1>1 DEF Drop
  <2>2. /\ Cardinality(events') * c \in Nat
        /\ Cardinality(events') * c + c = Cardinality(events) * c
    BY <2>1, OneEventLess
  <2>3. Rest' = Cardinality(events') * c + 0 /\ Rest = Cardinality(events) * c + 0
    BY <2>1 DEF Rest
  <2> HIDE DEF c
  <2> QED
    BY <1>0, <2>2, <2>3
<1>2. ASSUME NEW e \in events, Notify(e)
      PROVE  Rest' \in Nat /\ Rest' <= Rest
  <2>1. /\ pc = "eval" /\ pc' = "send" /\ events' = events \ {e}
        /\ left' = Channels /\ sendStart' = now /\ now' = now
    BY <1>2 DEF Notify
  <2>2. /\ Cardinality(events') * c \in Nat
        /\ Cardinality(events') * c + c = Cardinality(events) * c
    BY <2>1, OneEventLess
  <2>3. /\ Rest' = Cardinality(events') * c + (c - (now - now))
        /\ Rest = Cardinality(events) * c + 0
    BY <2>1 DEF Rest
  <2> HIDE DEF c
  <2> QED
    BY <1>0, <2>2, <2>3
<1>3. CASE SendOne
  <2>1. /\ pc = "send" /\ left' = left - 1 /\ sendStart' = now
        /\ pc' = IF left = 1 THEN "eval" ELSE "send"
        /\ UNCHANGED <<now, events>>
    BY <1>3 DEF SendOne
  <2>2. /\ left \in Nat \ {0} /\ left * SendTimeout \in Nat
        /\ left * SendTimeout >= SendTimeout
        /\ sendStart <= now /\ now <= sendStart + SendTimeout
    BY <2>1, RestType DEF WalkIsBounded
  <2>3. Rest = Cardinality(events) * c + (left * SendTimeout - (now - sendStart))
    BY <2>1 DEF Rest
  <2> HIDE DEF c
  <2>4. CASE left = 1
    <3>1. Rest' = Cardinality(events) * c + 0
      BY <2>1, <2>4 DEF Rest, c
    <3> QED
      BY <1>0, <2>2, <2>3, <3>1
  <2>5. CASE left # 1
    <3>1. Rest' = Cardinality(events) * c + ((left - 1) * SendTimeout - (now - now))
      BY <2>1, <2>5 DEF Rest, c
    <3>2. (left - 1) * SendTimeout = left * SendTimeout - SendTimeout
      BY <1>0, <2>2
    <3> QED
      BY <1>0, <2>2, <2>3, <3>1, <3>2
  <2> QED
    BY <2>4, <2>5
<1> QED
  BY <1>1, <1>2, <1>3

LEMMA WatcherKeepsNews ==
  ASSUME TypeInv, NewsInv, Watcher
  PROVE  NewsInv'
<1>0. /\ WalkIsBounded /\ Rest \in Nat /\ now \in Nat /\ SendTimeout \in Nat
  BY RestType DEF NewsInv
<1>1. CASE TakeSnapshot
  BY <1>1, SnapshotKeepsNews
<1>2. CASE SnapshotFails
  <2>1. UNCHANGED <<now, readings, ended, watchVars>>
    BY <1>2 DEF SnapshotFails
  <2> QED
    BY <1>0, <2>1, LessKeepsNews DEF NewsInv, WalkIsBounded, InHand, Rest, watchVars
<1>3. CASE WalkDone
  <2>1. /\ pc = "eval" /\ pc' = "tick" /\ events = {}
        /\ UNCHANGED <<now, readings, ended, events, current, sendStart, left>>
    BY <1>3 DEF WalkDone
  <2> QED
    BY <1>0, <2>1, LessKeepsNews DEF InHand, Rest
<1>4. ASSUME NEW e \in events, Drop(e)
      PROVE  NewsInv'
  <2>1. /\ pc = "eval" /\ pc' = "eval" /\ events' = events \ {e}
        /\ UNCHANGED <<now, readings, ended, current>>
    BY <1>4 DEF Drop
  <2> QED
    BY <1>0, <1>4, <2>1, RestShrinks, LessKeepsNews DEF InHand
<1>5. ASSUME NEW e \in events, Notify(e)
      PROVE  NewsInv'
  <2>1. /\ pc = "eval" /\ pc' = "send" /\ events' = events \ {e} /\ current' = e
        /\ left' = Channels /\ sendStart' = now
        /\ UNCHANGED <<now, readings, ended>>
    BY <1>5 DEF Notify
  <2> QED
    BY <1>0, <1>5, <2>1, RestShrinks, LessKeepsNews DEF InHand
<1>6. CASE SendOne
  <2>1. /\ pc = "send" /\ left' = left - 1 /\ sendStart' = now
        /\ pc' = IF left = 1 THEN "eval" ELSE "send"
        /\ current' = IF left = 1 THEN Nothing ELSE current
        /\ UNCHANGED <<now, readings, ended, events>>
    BY <1>6 DEF SendOne
  <2> QED
    BY <1>0, <1>6, <2>1, RestShrinks, LessKeepsNews DEF InHand
<1> QED
  BY <1>1, <1>2, <1>3, <1>4, <1>5, <1>6 DEF Watcher

\* While a channel is being sent to, what is left to do shrinks as time passes.
LEMMA RestPasses ==
  ASSUME TypeInv, WalkIsBounded, pc = "send",
         now' = now + 1, UNCHANGED watchVars
  PROVE  Rest' = Rest - 1
<1> DEFINE n == Cardinality(events) * (Channels * SendTimeout)
           s == left * SendTimeout
<1>1. n \in Nat /\ s \in Nat /\ now \in Nat /\ sendStart \in Nat /\ sendStart <= now
  BY RestType DEF WalkIsBounded
<1>2. Rest = n + (s - (now - sendStart)) /\ Rest' = n + (s - (now' - sendStart))
  BY DEF Rest, watchVars
<1> HIDE DEF n, s
<1> QED
  BY <1>1, <1>2

\* Time passes only between walks, when nothing is in hand, and while a channel
\* keeps its deadline.
LEMMA TimeKeepsNews ==
  ASSUME TypeInv, NewsInv, AdvanceTime
  PROVE  NewsInv'
<1>1. /\ now' = now + 1 /\ Track(readings, rules, now')
      /\ UNCHANGED <<readings, watchVars>>
  BY DEF AdvanceTime
<1>2. InHand' = InHand
  BY <1>1 DEF InHand, watchVars
<1>3. /\ WalkIsBounded /\ Rest \in Nat /\ now \in Nat /\ sendStart \in Nat
      /\ SendTimeout \in Nat /\ Walk \in Nat
  BY RestType DEF NewsInv
<1>4. CASE pc = "tick"
  <2>1. InHand = {} /\ pc' = "tick" /\ events' = events /\ events = {}
    BY <1>1, <1>3, <1>4 DEF WalkIsBounded, InHand, watchVars, TypeInv, TypeOK
  <2>2. Rest' = Rest
    BY <1>4, <2>1 DEF Rest
  <2> QED
    BY <1>2, <1>3, <2>1, <2>2 DEF NewsInv, WalkIsBounded
<1>5. CASE pc = "send" /\ now < sendStart + SendTimeout
  <2>3. Rest' = Rest - 1
    BY <1>1, <1>3, <1>5, RestPasses
  <2>4. WalkIsBounded'
    BY <1>1, <1>3, <1>5, <2>3 DEF WalkIsBounded, watchVars
  <2>5. ASSUME NEW e \in InHand, e \notin readings
        PROVE  InTime(e)'
    <3>1. e \in Readings
      BY DEF InHand, TypeInv, TypeOK
    <3>2. ended'[e] = ended[e]
      BY <1>1, <2>5, <3>1, EndsNowOrBefore
    <3>3. ended[e] # Never /\ now + Rest <= ended[e] + Walk
      BY <2>5 DEF NewsInv, InTime
    <3>4. now' + Rest' = now + Rest
      BY <1>1, <1>3, <2>3
    <3> QED
      BY <3>2, <3>3, <3>4 DEF InTime
  <2> QED
    BY <1>1, <1>2, <2>4, <2>5 DEF NewsInv
<1> QED
  BY <1>4, <1>5 DEF AdvanceTime

LEMMA NewsStep == TypeInv /\ NewsInv /\ [Next]_vars => NewsInv'
<1> SUFFICES ASSUME TypeInv, NewsInv, [Next]_vars
             PROVE  NewsInv'
  OBVIOUS
<1>1. CASE Api \/ \E e \in Readings : Flip(e)
  BY <1>1, ApiKeepsNews
<1>2. CASE Watcher
  BY <1>2, WatcherKeepsNews
<1>3. CASE Restart
  <2>1. pc' = "tick" /\ events' = {} /\ current' = Nothing
    BY <1>3 DEF Restart
  <2>2. Cardinality(events') = 0 /\ InHand' = {}
    BY <2>1, FS_EmptySet DEF InHand
  <2>3. Rest' = 0
    BY <2>1, <2>2, TimesAssumption DEF Rest
  <2> QED
    BY <2>1, <2>2, <2>3, TimesAssumption DEF NewsInv, WalkIsBounded
<1>4. CASE AdvanceTime
  BY <1>4, TimeKeepsNews
<1>5. CASE UNCHANGED vars
  BY <1>5 DEF vars, NewsInv, WalkIsBounded, Rest, InHand, InTime
<1> QED
  BY <1>1, <1>2, <1>3, <1>4, <1>5 DEF Next

\* What is being sent was the case at most Walk ago, however many events one
\* snapshot held, whatever order they were sent in and however slow every channel
\* was within its deadline.
THEOREM NewsCorrect == Spec => []NoOldNews
<1>1. TypeInv /\ NewsInv => NoOldNews
  <2> SUFFICES ASSUME TypeInv, NewsInv, pc = "send", current \notin readings
               PROVE  now - ended[current] <= Walk
    BY DEF NoOldNews
  <2>1. current \in InHand
    BY DEF InHand, TypeInv, TypeOK
  <2>2. ended[current] # Never /\ now + Rest <= ended[current] + Walk
    BY <2>1 DEF NewsInv, InTime
  <2>3. ended[current] \in Nat
    BY <2>1, <2>2, TimesAssumption DEF InHand, TypeInv, TypeOK, Time
  <2>4. Rest \in Nat /\ now \in Nat /\ Walk \in Nat
    BY RestType DEF NewsInv
  <2> QED
    BY <2>2, <2>3, <2>4
<1> QED
  BY <1>1, TypeInvHolds, NewsInit, NewsStep, PTL DEF Spec

(***************************************************************************)
(* Silence.  The manager keeps a list of rules, in which the first that    *)
(* fits decides; a window is compared with the time of day, and that it    *)
(* means the minutes from its start round the clock to its end is          *)
(* arithmetic modulo a day.                                                *)
(***************************************************************************)

LEMMA ModuloADay ==
  ASSUME NEW d \in Nat \ {0}, NEW x \in 0..(d - 1)
  PROVE  x % d = x /\ (x + d) % d = x
<1>1. x % d = x
  OBVIOUS
<1>2. (x + d) % d = x
  OBVIOUS
<1> QED
  BY <1>1, <1>2

\* Whatever minute a window means, the comparison finds it in the window.
LEMMA WindowHoldsItsMinutes ==
  ASSUME NEW w \in Window, NEW m \in MinutesOf(w)
  PROVE  InWindow(w, m)
<1>1. Day \in Nat \ {0} /\ w.start \in 0..(Day - 1) /\ w.end \in 0..Day
  BY TimesAssumption DEF Window
<1>2. CASE w.start <= w.end
  <2>1. PICK i \in 0..(w.end - w.start - 1) : m = (w.start + i) % Day
    BY <1>2 DEF MinutesOf
  <2>2. i \in Nat /\ w.start + i < w.end /\ w.start + i \in 0..(Day - 1)
    BY <1>1, <1>2, <2>1
  <2>3. m = w.start + i
    BY <1>1, <2>1, <2>2, ModuloADay
  <2> QED
    BY <1>1, <1>2, <2>2, <2>3 DEF InWindow
<1>3. CASE w.start > w.end
  <2>1. PICK i \in 0..(Day - w.start + w.end - 1) : m = (w.start + i) % Day
    BY <1>1, <1>3 DEF MinutesOf
  <2>2. i \in Nat /\ w.start + i < w.end + Day
    BY <1>1, <2>1
  <2>3. CASE w.start + i < Day
    <3>1. m = w.start + i
      BY <1>1, <2>1, <2>2, <2>3, ModuloADay
    <3> QED
      BY <1>1, <1>3, <2>2, <3>1 DEF InWindow
  <2>4. CASE w.start + i >= Day
    <3>1. w.start + i - Day \in 0..(Day - 1) /\ w.start + i = (w.start + i - Day) + Day
      BY <1>1, <1>3, <2>2, <2>4
    <3>2. m = w.start + i - Day
      BY <1>1, <2>1, <3>1, ModuloADay
    <3> QED
      BY <1>1, <1>3, <2>2, <3>2 DEF InWindow
  <2> QED
    BY <1>1, <2>2, <2>3, <2>4
<1> QED
  BY <1>1, <1>2, <1>3

LEMMA LeastNat ==
  ASSUME NEW T \in SUBSET Nat, T # {}
  PROVE  \E x \in T : \A y \in T : x <= y
<1>1. PICK x \in T : \A y \in T : ~ (<<y, x>> \in OpToRel(<, Nat))
  BY NatLessThanWellFounded, WFMin, Zenon
<1>2. \A y \in T : ~(y < x)
  BY <1>1 DEF OpToRel
<1> QED
  BY <1>2

\* Every rank of a set of positions is that of one of them: the least position
\* with so many at or below it.
LEMMA EveryRank ==
  ASSUME NEW N \in Nat, NEW S \in SUBSET (1..N), NEW n \in 1..Cardinality(S)
  PROVE  \E x \in S : Cardinality({y \in S : y <= x}) = n
<1> DEFINE below(m) == {y \in S : y <= m}
           B == {m \in Nat : Cardinality(below(m)) >= n}
<1>1. IsFiniteSet(S) /\ Cardinality(S) \in Nat /\ n \in Nat /\ n >= 1 /\ n <= Cardinality(S)
  <2>1. IsFiniteSet(1..N)
    BY FS_Interval
  <2>2. IsFiniteSet(S)
    BY <2>1, FS_Subset
  <2>3. Cardinality(S) \in Nat
    BY <2>2, FS_CardinalityType
  <2> QED
    BY <2>2, <2>3
<1>2. ASSUME NEW m
      PROVE  IsFiniteSet(below(m)) /\ Cardinality(below(m)) \in Nat
  <2>1. below(m) \subseteq S
    OBVIOUS
  <2> QED
    BY <1>1, <2>1, FS_Subset, FS_CardinalityType
<1>3. \A y \in S : y \in Nat /\ 1 <= y /\ y <= N
  OBVIOUS
<1>4. below(N) = S
  BY <1>3
<1>5. below(0) = {}
  <2>1. \A y \in S : ~(y <= 0)
    BY <1>3
  <2> QED
    BY <2>1, Zenon
<1>6. Cardinality(below(0)) = 0
  BY <1>5, FS_EmptySet
<1>7. ASSUME NEW m \in Nat \ {0}
      PROVE  /\ m \notin S => below(m) = below(m - 1)
             /\ m \in S => below(m) = below(m - 1) \cup {m}
             /\ m \notin below(m - 1)
  <2>1. \A y \in S : y <= m <=> y <= m - 1 \/ y = m
    BY <1>3
  <2>2. ~(m <= m - 1)
    OBVIOUS
  <2> QED
    BY <2>1, <2>2, Zenon
<1> HIDE DEF below
<1>8. B # {}
  BY <1>1, <1>4
<1>9. PICK m \in B : \A k \in B : m <= k
  BY <1>8, LeastNat
<1>10. m \in Nat \ {0} /\ Cardinality(below(m)) >= n
  BY <1>1, <1>6, <1>9
<1>11. m - 1 \in Nat /\ m - 1 \notin B
  BY <1>9, <1>10
<1>12. Cardinality(below(m - 1)) < n /\ Cardinality(below(m - 1)) \in Nat
  <2>1. Cardinality(below(m - 1)) \in Nat
    BY <1>2
  <2>2. ~(Cardinality(below(m - 1)) >= n)
    BY <1>11
  <2> QED
    BY <1>1, <2>1, <2>2
<1>13. m \in S
  BY <1>1, <1>7, <1>10, <1>12
<1>14. Cardinality(below(m)) = Cardinality(below(m - 1)) + 1
  BY <1>2, <1>7, <1>10, <1>13, FS_AddElement
<1>15. Cardinality(below(m)) = n
  BY <1>1, <1>10, <1>12, <1>14
<1> QED
  BY <1>13, <1>15 DEF below

\* The rules of a list are those the manager started with or was given, and their
\* silence_until is a time.
RulesIn(S) == rules \in Seq(S) /\ \A rule \in S : rule.silenceUntil \in Int

RulesInv == \E S : RulesIn(S)

LEMMA SetKeepsRules ==
  ASSUME NEW S, NEW rs \in Seq(S), NEW rule
  PROVE  WithRule(rs, rule) \in Seq(S \cup {rule})
<1> DEFINE T == S \cup {rule}
<1>1. rs \in Seq(T) /\ rule \in T
  OBVIOUS
<1> HIDE DEF T
<1>2. [i \in DOMAIN rs |-> IF rs[i].key = rule.key THEN rule ELSE rs[i]] \in Seq(T)
  <2>1. DOMAIN rs = 1..Len(rs) /\ Len(rs) \in Nat /\ \A i \in DOMAIN rs : rs[i] \in T
    BY <1>1
  <2>2. [i \in 1..Len(rs) |-> IF rs[i].key = rule.key THEN rule ELSE rs[i]]
          \in [1..Len(rs) -> T]
    BY <1>1, <2>1
  <2> QED
    BY <2>1, <2>2
<1>3. Append(rs, rule) \in Seq(T)
  BY <1>1
<1> QED
  BY <1>2, <1>3 DEF WithRule, T

LEMMA DeleteKeepsRules ==
  ASSUME NEW S, NEW rs \in Seq(S), NEW k
  PROVE  WithoutKey(rs, k) \in Seq(S)
<1> DEFINE P == {i \in DOMAIN rs : rs[i].key # k}
           f == Ascending(P)
<1>1. Len(rs) \in Nat /\ DOMAIN rs = 1..Len(rs) /\ P \in SUBSET (1..Len(rs))
  OBVIOUS
<1>2. Cardinality(P) \in Nat
  <2>1. IsFiniteSet(1..Len(rs))
    BY <1>1, FS_Interval
  <2> QED
    BY <1>1, <2>1, FS_Subset, FS_CardinalityType
<1>3. DOMAIN f = 1..Cardinality(P)
  BY DEF Ascending
<1>4. \A n \in 1..Cardinality(P) : f[n] \in P
  <2> SUFFICES ASSUME NEW n \in 1..Cardinality(P)
               PROVE  f[n] \in P
    OBVIOUS
  <2> HIDE DEF P
  <2>1. \E x \in P : Cardinality({y \in P : y <= x}) = n
    BY <1>1, EveryRank
  <2>2. f[n] = CHOOSE x \in P : Cardinality({y \in P : y <= x}) = n
    BY DEF Ascending
  <2> QED
    BY <2>1, <2>2
<1>5. WithoutKey(rs, k) = [j \in 1..Cardinality(P) |-> rs[f[j]]]
  BY <1>3 DEF WithoutKey
<1>6. \A j \in 1..Cardinality(P) : rs[f[j]] \in S
  BY <1>1, <1>4
<1> HIDE DEF P, f
<1> QED
  BY <1>2, <1>5, <1>6

LEMMA RulesInit == Init => RulesInv
<1> SUFFICES ASSUME Init
             PROVE  RulesIn(Among(InitRules))
  BY DEF RulesInv
<1> QED
  BY RulesAssumption DEF Init, RulesIn

LEMMA RulesStep == RulesInv /\ [Next]_vars => RulesInv'
<1> SUFFICES ASSUME RulesInv, [Next]_vars
             PROVE  RulesInv'
  OBVIOUS
<1>1. PICK S : RulesIn(S)
  BY DEF RulesInv
<1>2. CASE rules' = rules
  BY <1>1, <1>2 DEF RulesInv, RulesIn
<1>3. ASSUME NEW rule \in RuleChoices, SetRule(rule)
      PROVE  RulesInv'
  <2>1. rules' \in Seq(S \cup {rule})
    BY <1>1, <1>3, SetKeepsRules DEF RulesIn, SetRule, ChangeRules
  <2>2. \A r \in S \cup {rule} : r.silenceUntil \in Int
    BY <1>1, RulesAssumption DEF RulesIn
  <2> QED
    BY <2>1, <2>2 DEF RulesInv, RulesIn
<1>4. ASSUME NEW k, DeleteRule(k)
      PROVE  RulesInv'
  <2>1. rules' \in Seq(S)
    BY <1>1, <1>4, DeleteKeepsRules DEF RulesIn, DeleteRule, ChangeRules
  <2> QED
    BY <1>1, <2>1 DEF RulesInv, RulesIn
<1>5. CASE Api
  BY <1>3, <1>4, <1>5 DEF Api
<1>6. CASE \/ \E e \in Readings : Flip(e)
           \/ Watcher \/ Restart \/ AdvanceTime \/ UNCHANGED vars
  BY <1>2, <1>6 DEF vars, Flip, Watcher, TakeSnapshot, SnapshotFails, WalkDone, SendOne, Drop,
                    Notify, Restart, AdvanceTime
<1> QED
  BY <1>5, <1>6 DEF Next

\* The rule that lets an event through is the first that fits, and is not silent.
LEMMA SpokenByTheFirst ==
  ASSUME NEW S, RulesIn(S), NEW e, NEW t \in Int, RulesSpeak(rules, e, t)
  PROVE  \E i \in DOMAIN rules :
           /\ Fits(rules[i], e)
           /\ \A j \in DOMAIN rules : Fits(rules[j], e) => i <= j
           /\ t >= rules[i].silenceUntil
           /\ \A w \in rules[i].muteWindows \cap Window : MinuteOfDay(t) \notin MinutesOf(w)
<1> DEFINE fitting == {r \in Among(rules) : Fits(r, e)}
<1>1. DOMAIN rules = 1..Len(rules) /\ Len(rules) \in Nat /\ \A i \in DOMAIN rules : rules[i] \in S
  BY DEF RulesIn
<1>2. PICK i \in DOMAIN rules : /\ rules[i] \in fitting
                                /\ \A h \in 1..(i - 1) : rules[h] \notin fitting
                                /\ ~Silenced(rules[i], t)
  BY DEF RulesSpeak, FirstFit
<1>3. \A j \in DOMAIN rules : rules[j] \in fitting <=> Fits(rules[j], e)
  BY DEF Among
<1> HIDE DEF fitting
<1>4. \A j \in DOMAIN rules : Fits(rules[j], e) => i <= j
  <2> SUFFICES ASSUME NEW j \in DOMAIN rules, Fits(rules[j], e), j < i
               PROVE  FALSE
    BY <1>1
  <2>1. j \in 1..(i - 1)
    BY <1>1
  <2> QED
    BY <1>2, <1>3, <2>1
<1>5. rules[i].silenceUntil \in Int
  BY <1>1 DEF RulesIn
<1>6. t >= rules[i].silenceUntil
  BY <1>2, <1>5 DEF Silenced
<1>7. \A w \in rules[i].muteWindows \cap Window : MinuteOfDay(t) \notin MinutesOf(w)
  BY <1>2, WindowHoldsItsMinutes DEF Silenced
<1> QED
  BY <1>2, <1>3, <1>4, <1>6, <1>7

\* A notification begins only when the rule that decides on it speaks: it is past
\* its silence_until and outside of all its windows, whatever the rules have become
\* since the snapshot was taken.
THEOREM MutedCorrect == Spec => NothingWhileMuted
<1> DEFINE Speaks ==
             \E i \in DOMAIN rules :
               /\ Fits(rules[i], current')
               /\ \A j \in DOMAIN rules : Fits(rules[j], current') => i <= j
               /\ now >= rules[i].silenceUntil
               /\ \A w \in rules[i].muteWindows \cap Window : MinuteOfDay(now) \notin MinutesOf(w)
<1>1. TypeInv /\ RulesInv /\ [Next]_vars
        => [current = Nothing /\ current' # Nothing => Speaks]_vars
  <2> SUFFICES ASSUME TypeInv, RulesInv, [Next]_vars, current = Nothing, current' # Nothing
               PROVE  Speaks
    OBVIOUS
  <2>1. PICK e \in events : Notify(e)
    BY DEF Next, vars, watchVars, Flip, Api, SetRule, DeleteRule, ChangeRules, Watcher,
           TakeSnapshot, SnapshotFails, WalkDone, SendOne, Drop, Restart, AdvanceTime
  <2>2. RulesSpeak(rules, e, now) /\ current' = e
    BY <2>1 DEF Notify, Passes
  <2>3. PICK S : RulesIn(S)
    BY DEF RulesInv
  <2>4. now \in Int
    BY TimesAssumption DEF TypeInv, TypeOK, Time
  <2> HIDE DEF Speaks
  <2>5. Speaks
    BY <2>2, <2>3, <2>4, SpokenByTheFirst DEF Speaks
  <2> QED
    BY <2>5
<1> QED
  BY <1>1, TypeInvHolds, RulesInit, RulesStep, PTL DEF Spec, NothingWhileMuted
(***************************************************************************)
(* Promptness.  Wait is how long the next tick may still take.  What is in *)
(* hand is reached by the end of the walk under way; what is not is asked  *)
(* for by the next tick, or by the end of the walk when the tick comes     *)
(* during it, and then there is a walk for it.  Time does not change       *)
(* either sum: it passes only while Rest or Wait shrinks.                  *)
(***************************************************************************)

Wait == IF tick THEN 0 ELSE TickEvery - ((now - boot) % TickEvery)

\* CalledFor, in terms of what the manager remembers.
Called(e) ==
  Later(due[e], IF lastSent[Key(e)] = Never THEN boot ELSE lastSent[Key(e)] + Cooldown)

\* When e has to be in hand.
PromptBy(e) == Called(e) + Later(TickEvery, Walk) + failures * TickEvery

Prompt(e) ==
  IF e \in events THEN now + Rest <= PromptBy(e) + Walk
  ELSE now + Rest <= PromptBy(e) /\ now + Wait <= PromptBy(e)

\* The memory is of a notification of this life of the server.
MemoryIsSent == \A k \in Keys : lastSent[k] # Never => lastSent[k] \in sent[k]

\* What is due is the case, wanted, and was so from a time that has passed.
DueIsWanted ==
  \A e \in Readings :
    due[e] # Never => e \in readings /\ Wanted(rules, e, now) /\ due[e] <= now

PromptInv ==
  /\ failures \in Nat
  /\ MemoryIsSent
  /\ DueIsWanted
  /\ Channels > 0 => \A e \in Readings : due[e] # Never => Prompt(e)

\* What the earlier invariants say.
Known == TypeInv /\ DedupInv /\ NewsInv /\ RulesInv

\* The remainder is the only one there is.
LEMMA OneRemainder ==
  ASSUME NEW t \in Nat \ {0}, NEW q \in Int, NEW p \in Int,
         NEW r \in 0..(t - 1), NEW s \in 0..(t - 1), t * q + r = t * p + s
  PROVE  r = s
<1>1. t * (q - p) = s - r
  BY SMT
<1>2. CASE q - p >= 1
  <2>1. PICK d \in Nat : q - p = d + 1
    <3>1. q - p - 1 \in Nat /\ q - p = (q - p - 1) + 1
      BY <1>2
    <3> QED
      BY <3>1
  <2>2. t * d \in Nat /\ t * (d + 1) = t * d + t
    BY <2>1
  <2> QED
    BY <1>1, <2>1, <2>2
<1>3. CASE p - q >= 1
  <2>1. PICK d \in Nat : p - q = d + 1
    <3>1. p - q - 1 \in Nat /\ p - q = (p - q - 1) + 1
      BY <1>3
    <3> QED
      BY <3>1
  <2>2. t * d \in Nat /\ t * (d + 1) = t * d + t /\ t * (p - q) = r - s
    BY <1>1, <2>1
  <2> QED
    BY <2>1, <2>2
<1>4. CASE q = p
  BY <1>4
<1> QED
  BY <1>2, <1>3, <1>4

\* One unit later the remainder is one more, or starts again.
LEMMA NextRemainder ==
  ASSUME NEW t \in Nat \ {0}, NEW x \in Nat
  PROVE  /\ x % t \in 0..(t - 1)
         /\ (x + 1) % t = IF x % t = t - 1 THEN 0 ELSE (x % t) + 1
<1> DEFINE q == x \div t
           r == x % t
           p == (x + 1) \div t
           s == (x + 1) % t
<1>1. q \in Int /\ r \in 0..(t - 1) /\ x = t * q + r
  OBVIOUS
<1>2. p \in Int /\ s \in 0..(t - 1) /\ x + 1 = t * p + s
  OBVIOUS
<1> HIDE DEF q, r, p, s
<1>3. CASE r = t - 1
  <2>1. t * (q + 1) + 0 = t * p + s
    BY <1>1, <1>2, <1>3
  <2>2. 0 = s
    BY <1>1, <1>2, <2>1, OneRemainder
  <2> QED
    BY <1>1, <1>3, <2>2 DEF r, s
<1>4. CASE r # t - 1
  <2>1. t * q + (r + 1) = t * p + s /\ r + 1 \in 0..(t - 1)
    BY <1>1, <1>2, <1>4
  <2>2. r + 1 = s
    BY <1>1, <1>2, <2>1, OneRemainder
  <2> QED
    BY <1>1, <1>4, <2>2 DEF r, s
<1> QED
  BY <1>3, <1>4

\* The times and periods that promptness is about.
LEMMA PromptTypes ==
  Known => /\ now \in Nat /\ boot \in Nat /\ boot <= now
           /\ Rest \in Nat /\ Walk \in Nat /\ Rest <= Walk
           /\ TickEvery \in Nat \ {0} /\ Cooldown \in Nat
           /\ Later(TickEvery, Walk) \in Nat
           /\ Later(TickEvery, Walk) >= TickEvery /\ Later(TickEvery, Walk) >= Walk
           /\ Wait \in Nat /\ Wait <= TickEvery
<1> SUFFICES ASSUME Known
             PROVE  /\ now \in Nat /\ boot \in Nat /\ boot <= now
                    /\ Rest \in Nat /\ Walk \in Nat /\ Rest <= Walk
                    /\ TickEvery \in Nat \ {0} /\ Cooldown \in Nat
                    /\ Later(TickEvery, Walk) \in Nat
                    /\ Later(TickEvery, Walk) >= TickEvery /\ Later(TickEvery, Walk) >= Walk
                    /\ Wait \in Nat /\ Wait <= TickEvery
  OBVIOUS
<1>1. /\ now \in Nat /\ boot \in Nat /\ boot <= now /\ Rest \in Nat /\ Walk \in Nat
      /\ TickEvery \in Nat \ {0} /\ Cooldown \in Nat /\ Rest <= Walk
  BY RestType, TimesAssumption DEF Known, NewsInv, WalkIsBounded, TypeInv, TypeOK
<1>2. now - boot \in Nat
  BY <1>1
<1>3. (now - boot) % TickEvery \in 0..(TickEvery - 1)
  BY <1>1, <1>2, NextRemainder
<1>4. Wait \in Nat /\ Wait <= TickEvery
  BY <1>1, <1>3 DEF Wait
<1> QED
  BY <1>1, <1>4 DEF Later

\* What is due is called for at a time.
LEMMA CalledType ==
  Known => \A e \in Readings :
             due[e] # Never =>
               /\ due[e] \in Nat /\ Called(e) \in Nat /\ Called(e) >= due[e]
               /\ lastSent[Key(e)] = Never => Called(e) >= boot
               /\ lastSent[Key(e)] # Never => /\ lastSent[Key(e)] \in Nat
                                              /\ Called(e) >= lastSent[Key(e)] + Cooldown
<1> SUFFICES ASSUME Known, NEW e \in Readings, due[e] # Never
             PROVE  /\ due[e] \in Nat /\ Called(e) \in Nat /\ Called(e) >= due[e]
                    /\ lastSent[Key(e)] = Never => Called(e) >= boot
                    /\ lastSent[Key(e)] # Never => /\ lastSent[Key(e)] \in Nat
                                                   /\ Called(e) >= lastSent[Key(e)] + Cooldown
  OBVIOUS
<1>1. Key(e) \in Keys
  BY KeyOfReading
<1>2. due[e] \in Nat /\ (lastSent[Key(e)] # Never => lastSent[Key(e)] \in Nat)
  BY <1>1, TimesAssumption DEF Known, TypeInv, TypeOK, Time
<1> QED
  BY <1>2, PromptTypes DEF Called, Later

\* The same, a step later.
LEMMA CalledLater ==
  ASSUME Known', NEW f \in Readings, due'[f] # Never
  PROVE  /\ due'[f] \in Nat /\ Called(f)' \in Nat /\ Called(f)' >= due'[f]
         /\ lastSent'[Key(f)] = Never => Called(f)' >= boot'
         /\ lastSent'[Key(f)] # Never => /\ lastSent'[Key(f)] \in Nat
                                         /\ Called(f)' >= lastSent'[Key(f)] + Cooldown
<1>1. (Known => \A e \in Readings :
             due[e] # Never =>
               /\ due[e] \in Nat /\ Called(e) \in Nat /\ Called(e) >= due[e]
               /\ lastSent[Key(e)] = Never => Called(e) >= boot
               /\ lastSent[Key(e)] # Never => /\ lastSent[Key(e)] \in Nat
                                              /\ Called(e) >= lastSent[Key(e)] + Cooldown)'
  BY CalledType, PTL
<1> QED
  BY <1>1 DEF Key

\* What is called for from now on, or later, is in time.
LEMMA FreshIsPrompt ==
  Known /\ failures \in Nat
    => \A e \in Readings : due[e] # Never /\ Called(e) >= now => Prompt(e)
<1> SUFFICES ASSUME Known, failures \in Nat, NEW e \in Readings, due[e] # Never, Called(e) >= now
             PROVE  Prompt(e)
  OBVIOUS
<1> DEFINE f == failures * TickEvery
           l == Later(TickEvery, Walk)
<1>1. f \in Nat
  BY PromptTypes
<1>2. PromptBy(e) = Called(e) + l + f
  BY DEF PromptBy
<1>3. l \in Nat /\ l >= TickEvery /\ l >= Walk
  BY PromptTypes
<1> HIDE DEF f, l
<1> QED
  BY <1>1, <1>2, <1>3, PromptTypes, CalledType DEF Prompt

\* The same, a step later.
LEMMA FreshLater ==
  ASSUME Known', failures' \in Nat, NEW f \in Readings, due'[f] # Never, Called(f)' >= now'
  PROVE  Prompt(f)'
<1>1. (Known /\ failures \in Nat
        => \A e \in Readings : due[e] # Never /\ Called(e) >= now => Prompt(e))'
  BY FreshIsPrompt, PTL
<1> QED
  BY <1>1

\* Track starts what is newly due now, and keeps the rest.
LEMMA TrackKeepsDue ==
  ASSUME TypeInv, DueIsWanted, NEW t \in Time, now <= t,
         now' = t, Track(readings', rules', t)
  PROVE  /\ DueIsWanted'
         /\ \A e \in Readings :
              due'[e] # Never => due'[e] = t \/ (due[e] # Never /\ due'[e] = due[e])
<1>1. t \in Int /\ t # Never /\ now \in Int
  BY TimesAssumption, NeverAssumption DEF Time, TypeInv, TypeOK
<1>2. ASSUME NEW e \in Readings, due'[e] # Never
      PROVE  /\ due'[e] = t \/ (due[e] # Never /\ due'[e] = due[e])
             /\ e \in readings' /\ Wanted(rules', e, t) /\ due'[e] <= t
  <2>1. e \in readings' /\ Wanted(rules', e, t)
    BY <1>2 DEF Track
  <2>2. due'[e] = IF due[e] = Never THEN t ELSE due[e]
    BY <2>1 DEF Track
  <2>3. due[e] # Never => due[e] <= t
    <3>1. due[e] # Never => due[e] \in Int /\ due[e] <= now
      BY TimesAssumption DEF TypeInv, TypeOK, Time, DueIsWanted
    <3> QED
      BY <1>1, <3>1
  <2> QED
    BY <1>1, <2>1, <2>2, <2>3
<1> QED
  BY <1>2 DEF DueIsWanted

\* What is neither taken up nor newly due stays in time when no time passes, the
\* tick does not come and nothing more has to be done.
LEMMA CalmKeepsPrompt ==
  ASSUME Known, Known', failures \in Nat, NEW e \in Readings, due[e] # Never, Prompt(e),
         e \in events' <=> e \in events, now' = now, Rest' <= Rest,
         UNCHANGED <<tick, boot, failures, Called(e)>>
  PROVE  Prompt(e)'
<1>1. PromptBy(e)' = PromptBy(e) /\ Wait' = Wait
  BY DEF PromptBy, Wait
<1>2. PromptBy(e) \in Nat
  BY PromptTypes, CalledType DEF PromptBy
<1>3. Rest \in Nat /\ Rest' \in Nat /\ now \in Nat /\ Walk \in Nat
  <2>1. (Known => Rest \in Nat)'
    BY PromptTypes, PTL
  <2> QED
    BY <2>1, PromptTypes
<1> QED
  BY <1>1, <1>2, <1>3 DEF Prompt

\* Changes of the readings and of the rules only make events newly due.
LEMMA ApiKeepsPrompt ==
  ASSUME Known, Known', PromptInv, Api \/ \E e \in Readings : Flip(e)
  PROVE  PromptInv'
<1>1. /\ Track(readings', rules', now)
      /\ UNCHANGED <<now, tick, lastSent, watchVars, boot, failures, sent>>
  BY DEF Api, SetRule, DeleteRule, ChangeRules, Flip
<1>2. now \in Time /\ now <= now
  BY TimesAssumption DEF Known, TypeInv, TypeOK, Time
<1>3. DueIsWanted' /\ \A e \in Readings :
                        due'[e] # Never => due'[e] = now \/ (due[e] # Never /\ due'[e] = due[e])
  BY <1>1, <1>2, TrackKeepsDue DEF Known, PromptInv
<1>4. ASSUME NEW f \in Readings, due'[f] # Never, Channels > 0
      PROVE  Prompt(f)'
  <2>1. CASE due[f] # Never /\ due'[f] = due[f]
    <3>1. Prompt(f) /\ Called(f)' = Called(f)
      BY <1>1, <1>4, <2>1 DEF PromptInv, Called
    <3>2. Rest' = Rest
      BY <1>1 DEF Rest, watchVars
    <3>3. Rest' <= Rest
      BY <3>2, PromptTypes
    <3> QED
      BY <1>1, <2>1, <3>1, <3>3, CalmKeepsPrompt DEF PromptInv, watchVars
  <2>2. CASE due'[f] = now
    <3>1. Called(f)' >= due'[f]
      BY <1>4, CalledLater
    <3> QED
      BY <1>1, <1>4, <2>2, <3>1, FreshLater DEF PromptInv
  <2> QED
    BY <1>3, <1>4, <2>1, <2>2
<1> QED
  BY <1>1, <1>3, <1>4 DEF PromptInv, MemoryIsSent

\* What is due stays so, and by what it is due, while the readings, the rules and
\* the time do.
LEMMA CalmKeepsDue ==
  ASSUME PromptInv, UNCHANGED <<now, readings, rules, due>>
  PROVE  DueIsWanted' /\ \A e \in Readings : due'[e] # Never => due[e] # Never
BY DEF PromptInv, DueIsWanted

\* A snapshot takes up all that is the case, when the tick is there.
LEMMA SnapshotKeepsPrompt ==
  ASSUME Known, Known', PromptInv, TakeSnapshot
  PROVE  PromptInv'
<1>1. /\ tick /\ events' = readings
      /\ UNCHANGED <<now, readings, rules, lastSent, boot, failures, due, sent>>
  BY DEF TakeSnapshot, budgets
<1>2. DueIsWanted' /\ \A e \in Readings : due'[e] # Never => due[e] # Never
  BY <1>1, CalmKeepsDue
<1>3. Rest' \in Nat /\ Rest' <= Walk
  <2>1. (Known => Rest \in Nat /\ Rest <= Walk)'
    BY PromptTypes, PTL
  <2> QED
    BY <2>1
<1>4. ASSUME NEW e \in Readings, due[e] # Never, Channels > 0
      PROVE  Prompt(e)'
  <2>1. e \in events'
    BY <1>1, <1>4 DEF PromptInv, DueIsWanted
  <2>2. now <= PromptBy(e)
    <3>1. Prompt(e) /\ Rest \in Nat /\ Wait = 0 /\ now \in Nat /\ e \notin events
      BY <1>1, <1>4, PromptTypes
         DEF PromptInv, Wait, Known, NewsInv, WalkIsBounded, TakeSnapshot
    <3> QED
      BY <3>1 DEF Prompt
  <2>3. PromptBy(e)' = PromptBy(e) /\ PromptBy(e) \in Nat /\ now \in Nat /\ Walk \in Nat
    <3>1. PromptBy(e)' = PromptBy(e)
      BY <1>1 DEF PromptBy, Called
    <3> QED
      BY <1>4, <3>1, PromptTypes, CalledType DEF PromptBy, PromptInv
  <2> QED
    BY <1>1, <1>3, <2>1, <2>2, <2>3 DEF Prompt
<1> QED
  BY <1>1, <1>2, <1>4 DEF PromptInv, MemoryIsSent

\* A snapshot that fails puts everything off until the next tick.
LEMMA FailureKeepsPrompt ==
  ASSUME Known, Known', PromptInv, SnapshotFails
  PROVE  PromptInv'
<1>1. /\ tick /\ pc = "tick" /\ failures' = failures + 1
      /\ UNCHANGED <<now, readings, rules, lastSent, watchVars, boot, due, sent>>
  BY DEF SnapshotFails
<1>2. DueIsWanted' /\ \A e \in Readings : due'[e] # Never => due[e] # Never
  BY <1>1, CalmKeepsDue
<1>3. Wait' \in Nat /\ Wait' <= TickEvery
  <2>1. (Known => Wait \in Nat /\ Wait <= TickEvery)'
    BY PromptTypes, PTL
  <2> QED
    BY <2>1
<1>4. ASSUME NEW e \in Readings, due[e] # Never, Channels > 0
      PROVE  Prompt(e)'
  <2>1. e \notin events /\ e \notin events'
    BY <1>1 DEF Known, NewsInv, WalkIsBounded, watchVars
  <2>2. now + Rest <= PromptBy(e) /\ Rest' = Rest
    BY <1>1, <1>4, <2>1 DEF PromptInv, Prompt, Rest, watchVars
  <2>3. PromptBy(e)' = PromptBy(e) + TickEvery /\ PromptBy(e) \in Nat
    <3> DEFINE f == failures * TickEvery
               l == Later(TickEvery, Walk)
    <3>1. PromptBy(e) = Called(e) + l + f
      BY DEF PromptBy
    <3>2. PromptBy(e)' = Called(e) + l + (failures + 1) * TickEvery
      BY <1>1 DEF PromptBy, Called
    <3>3. /\ failures \in Nat /\ TickEvery \in Nat /\ f \in Nat
          /\ (failures + 1) * TickEvery = f + TickEvery
      BY PromptTypes DEF PromptInv
    <3>4. l \in Nat /\ Called(e) \in Nat
      BY <1>4, PromptTypes, CalledType
    <3> HIDE DEF f, l
    <3> QED
      BY <3>1, <3>2, <3>3, <3>4
  <2> QED
    BY <1>1, <1>3, <2>1, <2>2, <2>3, PromptTypes DEF Prompt
<1> QED
  BY <1>1, <1>2, <1>4 DEF PromptInv, MemoryIsSent

\* The rules do speak for what they should speak for.
LEMMA WantedIsSpoken ==
  ASSUME RulesInv, NEW e, NEW t, Wanted(rules, e, t)
  PROVE  RulesSpeak(rules, e, t)
<1> DEFINE fitting == {r \in Among(rules) : Fits(r, e)}
<1>1. DOMAIN rules = 1..Len(rules) /\ Len(rules) \in Nat
  BY DEF RulesInv, RulesIn
<1>2. PICK i \in DOMAIN rules : /\ Fits(rules[i], e) /\ ~Silenced(rules[i], t)
                                /\ \A j \in DOMAIN rules : Fits(rules[j], e) => i <= j
  BY DEF Wanted
<1>3. \A j \in DOMAIN rules : rules[j] \in fitting <=> Fits(rules[j], e)
  BY DEF Among
<1> HIDE DEF fitting
<1>4. \A h \in 1..(i - 1) : rules[h] \notin fitting
  <2> SUFFICES ASSUME NEW h \in 1..(i - 1), rules[h] \in fitting
               PROVE  FALSE
    OBVIOUS
  <2>1. h \in DOMAIN rules /\ ~(i <= h)
    BY <1>1
  <2> QED
    BY <1>2, <1>3, <2>1
<1>5. rules[i] \in FirstFit(rules, fitting)
  BY <1>2, <1>3, <1>4 DEF FirstFit
<1> QED
  BY <1>2, <1>5 DEF RulesSpeak, fitting

\* What is due is dropped only within the cooldown.
LEMMA DropKeepsPrompt ==
  ASSUME Known, Known', PromptInv, NEW d \in events, Drop(d)
  PROVE  PromptInv'
<1>1. /\ events' = events \ {d} /\ ~Passes(d)
      /\ UNCHANGED <<now, tick, readings, rules, lastSent, boot, failures, due, sent>>
  BY DEF Drop, budgets
<1>2. DueIsWanted' /\ \A e \in Readings : due'[e] # Never => due[e] # Never
  BY <1>1, CalmKeepsDue
<1>3. ASSUME NEW e \in Readings, due[e] # Never, Channels > 0
      PROVE  Prompt(e)'
  <2>1. CASE e = d
    <3>1. RulesSpeak(rules, e, now)
      BY <1>3, WantedIsSpoken DEF Known, PromptInv, DueIsWanted
    <3>2. lastSent[Key(e)] # Never /\ now - lastSent[Key(e)] < Cooldown
      BY <1>1, <1>3, <2>1, <3>1 DEF Passes, Cooling
    <3>3. lastSent'[Key(e)] # Never /\ lastSent'[Key(e)] \in Nat /\ now' = now
      BY <1>1, <1>3, <3>2, CalledType
    <3>4. Called(e)' \in Nat /\ Called(e)' >= lastSent'[Key(e)] + Cooldown
      BY <1>1, <1>3, <3>3, CalledLater
    <3>5. Called(e)' >= now'
      BY <1>1, <3>2, <3>3, <3>4, PromptTypes
    <3> QED
      BY <1>1, <1>3, <3>5, FreshLater DEF PromptInv
  <2>2. CASE e # d
    <3>1. /\ Rest' <= Rest /\ Prompt(e) /\ Called(e)' = Called(e)
          /\ (e \in events' <=> e \in events)
      BY <1>1, <1>3, <2>2, RestShrinks DEF PromptInv, Called, Known, NewsInv
    <3> QED
      BY <1>1, <1>3, <3>1, CalmKeepsPrompt DEF PromptInv
  <2> QED
    BY <2>1, <2>2
<1> QED
  BY <1>1, <1>2, <1>3 DEF PromptInv, MemoryIsSent

\* A notification is one for all readings of its key.
LEMMA NotifyKeepsPrompt ==
  ASSUME Known, Known', PromptInv, NEW d \in events, Notify(d)
  PROVE  PromptInv'
<1>1. /\ events' = events \ {d}
      /\ lastSent' = [lastSent EXCEPT ![Key(d)] = now]
      /\ sent' = [sent EXCEPT ![Key(d)] = @ \cup {now}]
      /\ UNCHANGED <<now, tick, readings, rules, boot, failures, due>>
  BY DEF Notify, budgets
<1>2. DueIsWanted' /\ \A e \in Readings : due'[e] # Never => due[e] # Never
  BY <1>1, CalmKeepsDue
<1>3. /\ lastSent'[Key(d)] = now /\ sent'[Key(d)] = sent[Key(d)] \cup {now}
      /\ \A k \in Keys \ {Key(d)} : lastSent'[k] = lastSent[k] /\ sent'[k] = sent[k]
  BY <1>1, KeyOfReading DEF Known, TypeInv, TypeOK
<1>4. MemoryIsSent'
  BY <1>3 DEF PromptInv, MemoryIsSent
<1>5. ASSUME NEW e \in Readings, due[e] # Never, Channels > 0
      PROVE  Prompt(e)'
  <2>1. CASE Key(e) = Key(d)
    <3>1. lastSent'[Key(e)] = now /\ now # Never
      BY <1>3, <2>1, PromptTypes, NeverAssumption
    <3>2. Called(e)' \in Nat /\ Called(e)' >= now + Cooldown
      BY <1>1, <1>5, <3>1, CalledLater
    <3>3. Called(e)' >= now'
      BY <1>1, <3>2, PromptTypes
    <3> QED
      BY <1>1, <1>5, <3>3, FreshLater DEF PromptInv
  <2>2. CASE Key(e) # Key(d)
    <3>1. lastSent'[Key(e)] = lastSent[Key(e)]
      BY <1>3, <2>2, KeyOfReading
    <3>2. Called(e)' = Called(e)
      BY <1>1, <3>1 DEF Called
    <3>3. Rest' <= Rest /\ Prompt(e) /\ (e \in events' <=> e \in events)
      BY <1>1, <1>5, <2>2, RestShrinks DEF PromptInv, Known, NewsInv
    <3> QED
      BY <1>1, <1>5, <3>2, <3>3, CalmKeepsPrompt DEF PromptInv
  <2> QED
    BY <2>1, <2>2
<1> QED
  BY <1>1, <1>2, <1>4, <1>5 DEF PromptInv

LEMMA WatcherKeepsPrompt ==
  ASSUME Known, Known', PromptInv, Watcher
  PROVE  PromptInv'
<1>1. CASE TakeSnapshot
  BY <1>1, SnapshotKeepsPrompt
<1>2. CASE SnapshotFails
  BY <1>2, FailureKeepsPrompt
<1>3. CASE WalkDone \/ SendOne
  <2>1. UNCHANGED <<now, tick, readings, rules, lastSent, boot, events, failures, due, sent>>
    BY <1>3 DEF WalkDone, SendOne, budgets
  <2>2. DueIsWanted' /\ \A e \in Readings : due'[e] # Never => due[e] # Never
    BY <2>1, CalmKeepsDue
  <2>3. Rest' <= Rest
    <3>1. CASE SendOne
      BY <3>1, RestShrinks DEF Known, NewsInv
    <3>2. CASE WalkDone
      <4>1. Rest' = Rest
        BY <3>2 DEF WalkDone, Rest
      <4> QED
        BY <4>1, PromptTypes
    <3> QED
      BY <1>3, <3>1, <3>2
  <2>4. ASSUME NEW e \in Readings, due[e] # Never, Channels > 0
        PROVE  Prompt(e)'
    <3>1. Prompt(e) /\ Called(e)' = Called(e)
      BY <2>1, <2>4 DEF PromptInv, Called
    <3> QED
      BY <2>1, <2>3, <2>4, <3>1, CalmKeepsPrompt DEF PromptInv
  <2> QED
    BY <2>1, <2>2, <2>4 DEF PromptInv, MemoryIsSent
<1>4. CASE \E e \in events : Drop(e) \/ Notify(e)
  BY <1>4, DropKeepsPrompt, NotifyKeepsPrompt
<1> QED
  BY <1>1, <1>2, <1>3, <1>4 DEF Watcher

\* While no tick is there the next one comes nearer.
LEMMA WaitPasses ==
  ASSUME Known, ~tick, now' = now + 1, boot' = boot,
         tick' = ((now' - boot) % TickEvery = 0)
  PROVE  now' + Wait' = now + Wait
<1> DEFINE x == now - boot
           t == TickEvery
<1>1. x \in Nat /\ t \in Nat \ {0} /\ now \in Nat /\ now' - boot = x + 1
  BY PromptTypes
<1>2. Wait = t - (x % t)
  BY DEF Wait
<1>3. Wait' = IF (x + 1) % t = 0 THEN 0 ELSE t - ((x + 1) % t)
  BY <1>1 DEF Wait
<1> HIDE DEF x, t
<1>4. x % t \in 0..(t - 1) /\ (x + 1) % t = IF x % t = t - 1 THEN 0 ELSE (x % t) + 1
  BY <1>1, NextRemainder
<1> QED
  BY <1>1, <1>2, <1>3, <1>4

\* Time passes while the watcher waits for the tick, or for a channel.
LEMMA TimeKeepsPrompt ==
  ASSUME Known, Known', PromptInv, AdvanceTime
  PROVE  PromptInv'
<1>1. /\ now' = now + 1 /\ Track(readings', rules', now')
      /\ tick' = (tick \/ (now' - boot) % TickEvery = 0)
      /\ UNCHANGED <<readings, rules, lastSent, watchVars, boot, failures, sent>>
  BY DEF AdvanceTime, budgets
<1>2. now' \in Time /\ now <= now'
  BY <1>1, PromptTypes DEF Known, TypeInv, TypeOK
<1>3. DueIsWanted' /\ \A e \in Readings :
                        due'[e] # Never => due'[e] = now' \/ (due[e] # Never /\ due'[e] = due[e])
  BY <1>1, <1>2, TrackKeepsDue DEF Known, PromptInv
<1>4. Rest' \in Nat /\ Wait' \in Nat
  <2>1. (Known => Rest \in Nat /\ Wait \in Nat)'
    BY PromptTypes, PTL
  <2> QED
    BY <2>1
<1>5. ASSUME NEW e \in Readings, due[e] # Never, due'[e] = due[e], Channels > 0
      PROVE  Prompt(e)'
  <2>1. /\ Prompt(e) /\ PromptBy(e)' = PromptBy(e) /\ PromptBy(e) \in Nat
        /\ (e \in events' <=> e \in events)
    <3>1. PromptBy(e)' = PromptBy(e)
      BY <1>1, <1>5 DEF PromptBy, Called
    <3> QED
      BY <1>1, <1>5, <3>1, PromptTypes, CalledType DEF PromptBy, PromptInv, watchVars
  <2>2. CASE pc = "tick" /\ ~tick
    <3>1. now' + Wait' = now + Wait
      BY <1>1, <2>2, WaitPasses
    <3>2. e \notin events /\ Rest' = 0
      <4>1. events = {} /\ Rest' = Cardinality(events) * (Channels * SendTimeout) + 0
        BY <1>1, <2>2 DEF Known, NewsInv, WalkIsBounded, Rest, watchVars
      <4>2. Cardinality(events) = 0
        BY <4>1, FS_EmptySet
      <4> QED
        BY <4>1, <4>2, TimesAssumption
    <3> QED
      BY <1>1, <1>4, <2>1, <3>1, <3>2, PromptTypes DEF Prompt
  <2>3. CASE pc = "send"
    <3>1. Rest' = Rest - 1
      BY <1>1, <2>3, RestPasses DEF Known, NewsInv
    <3>2. now' + Rest' = now + Rest
      BY <1>1, <3>1, PromptTypes
    <3>3. CASE e \in events
      BY <2>1, <3>2, <3>3 DEF Prompt
    <3>4. CASE e \notin events
      <4>1. now + Rest <= PromptBy(e) /\ now + Wait <= PromptBy(e)
        BY <2>1, <3>4 DEF Prompt
      <4>2. now' + Wait' <= PromptBy(e)
        <5>1. CASE ~tick
          BY <1>1, <4>1, <5>1, WaitPasses
        <5>2. CASE tick
          <6>1. Wait' = 0
            BY <1>1, <5>2 DEF Wait
          <6>2. now' \in Nat
            BY <1>1, PromptTypes
          <6> QED
            BY <1>4, <2>1, <3>2, <4>1, <6>1, <6>2
        <5> QED
          BY <5>1, <5>2
      <4> QED
        BY <2>1, <3>2, <3>4, <4>1, <4>2 DEF Prompt
    <3> QED
      BY <3>3, <3>4
  <2> QED
    BY <2>2, <2>3 DEF AdvanceTime
<1>6. ASSUME NEW e \in Readings, due'[e] # Never, Channels > 0
      PROVE  Prompt(e)'
  <2>1. CASE due'[e] = now'
    <3>1. Called(e)' >= due'[e]
      BY <1>6, CalledLater
    <3> QED
      BY <1>1, <1>6, <2>1, <3>1, FreshLater DEF PromptInv
  <2> QED
    BY <1>3, <1>5, <1>6, <2>1
<1> QED
  BY <1>1, <1>3, <1>6 DEF PromptInv, MemoryIsSent

\* After a restart nothing is called for from before it.
LEMMA RestartKeepsPrompt ==
  ASSUME Known, Known', PromptInv, Restart
  PROVE  PromptInv'
<1>1. /\ boot' = now /\ lastSent' = [k \in Keys |-> Never]
      /\ UNCHANGED <<now, readings, rules, failures, due>>
  BY DEF Restart
<1>2. DueIsWanted'
  BY <1>1, CalmKeepsDue
<1>3. ASSUME NEW e \in Readings, due'[e] # Never
      PROVE  Prompt(e)'
  <2>1. lastSent'[Key(e)] = Never
    BY <1>1, KeyOfReading
  <2>2. Called(e)' >= now'
    BY <1>1, <1>3, <2>1, CalledLater
  <2> QED
    BY <1>1, <1>3, <2>2, FreshLater DEF PromptInv
<1> QED
  BY <1>1, <1>2, <1>3 DEF PromptInv, MemoryIsSent

\* At first nothing is due.
LEMMA PromptInit == Init => PromptInv
BY DEF Init, PromptInv, MemoryIsSent, DueIsWanted

LEMMA PromptStep == Known /\ Known' /\ PromptInv /\ [Next]_vars => PromptInv'
<1> SUFFICES ASSUME Known, Known', PromptInv, [Next]_vars
             PROVE  PromptInv'
  OBVIOUS
<1>1. CASE UNCHANGED vars
  BY <1>1 DEF vars, PromptInv, MemoryIsSent, DueIsWanted, Prompt, PromptBy, Called, Rest, Wait
<1> QED
  BY <1>1, ApiKeepsPrompt, WatcherKeepsPrompt, RestartKeepsPrompt, TimeKeepsPrompt DEF Next

\* What the manager remembers of a key is the latest of its notifications, or that
\* there is none in this life of the server.
LEMMA CalledIsCalledFor ==
  ASSUME Known, MemoryIsSent, NEW e \in Readings
  PROVE  CalledFor(e) = Called(e)
<1> DEFINE k == Key(e)
<1>1. k \in Keys /\ sent[k] \subseteq Nat
  BY KeyOfReading, TimesAssumption DEF Known, TypeInv, TypeOK, Time
<1>2. \A s \in sent[k] : lastSent[k] # Never /\ s <= lastSent[k]
  BY <1>1 DEF Known, DedupInv, Remembered
<1>3. CASE lastSent[k] = Never
  BY <1>2, <1>3 DEF CalledFor, Called
<1>4. CASE lastSent[k] # Never
  <2>1. lastSent[k] \in sent[k]
    BY <1>1, <1>4 DEF MemoryIsSent
  <2>2. LatestSent(k) \in sent[k] /\ \A s \in sent[k] : s <= LatestSent(k)
    BY <1>2, <2>1 DEF LatestSent
  <2>3. LatestSent(k) = lastSent[k]
    BY <1>1, <1>2, <2>1, <2>2
  <2> QED
    BY <1>4, <2>1, <2>3 DEF CalledFor, Called
<1> QED
  BY <1>3, <1>4

\* What is the case and wanted is notified, and notified again after the cooldown,
\* within a tick or the walk under way and the walk after it, and a tick more for
\* every snapshot that failed; whatever else is sent, however slow every channel is
\* within its deadline, and whatever the rules were in between.
THEOREM NotifiedCorrect == Spec => []NotifiedInTime
<1>1. Known /\ PromptInv => NotifiedInTime
  <2> SUFFICES ASSUME Known, PromptInv, NEW e \in Readings, due[e] # Never, Channels > 0
               PROVE  now - CalledFor(e)
                        <= Later(TickEvery, Walk) + Walk + failures * TickEvery
    BY DEF NotifiedInTime
  <2> DEFINE f == failures * TickEvery
             l == Later(TickEvery, Walk)
  <2>1. CalledFor(e) = Called(e) /\ Called(e) \in Nat
    BY CalledIsCalledFor, CalledType DEF PromptInv
  <2>2. PromptBy(e) = Called(e) + l + f
    BY DEF PromptBy
  <2>3. f \in Nat /\ l \in Nat /\ Walk \in Nat /\ now \in Nat /\ Rest \in Nat
    BY PromptTypes DEF PromptInv
  <2>4. Prompt(e)
    BY DEF PromptInv
  <2> HIDE DEF f, l
  <2>5. now + Rest <= PromptBy(e) + Walk
    BY <2>1, <2>2, <2>3, <2>4 DEF Prompt
  <2>6. now - CalledFor(e) <= l + Walk + f
    BY <2>1, <2>2, <2>3, <2>5
  <2> QED
    BY <2>6 DEF f, l
<1>2. Spec => []Known
  BY TypeInvHolds, DedupInit, DedupStep, NewsInit, NewsStep, RulesInit, RulesStep, PTL
     DEF Spec, Known
<1> QED
  BY <1>1, <1>2, PromptInit, PromptStep, PTL DEF Spec
===============================================================================
