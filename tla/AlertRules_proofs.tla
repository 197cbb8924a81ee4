--------------------------- MODULE AlertRules_proofs ---------------------------
(***************************************************************************)
(* Theorems about AlertRules: types, one rule per key, the agreement of    *)
(* the manager and the table on every clean key, and the registry that the *)
(* two implement, for any keys, values, defaults and requests.             *)
(***************************************************************************)
EXTENDS AlertRules, FiniteSetTheorems, SequenceTheorems, TLAPS

(***************************************************************************)
(* A set in order.  The rank of a number in S is how many of S are not     *)
(* above it; ranks of different numbers differ, so that there are as many  *)
(* as S has members, and each number from 1 to Cardinality(S) is one.      *)
(***************************************************************************)

Rank(S, x) == Cardinality({y \in S : y <= x})

LEMMA RankType ==
  ASSUME NEW S \in SUBSET Int, IsFiniteSet(S), NEW x \in S
  PROVE  Rank(S, x) \in 1..Cardinality(S)
<1> DEFINE L == {y \in S : y <= x}
<1>1. L \in SUBSET S /\ x \in L
  OBVIOUS
<1>2. IsFiniteSet(L) /\ Cardinality(L) <= Cardinality(S)
  BY <1>1, FS_Subset
<1>3. Cardinality(L) \in Nat /\ Cardinality(S) \in Nat
  BY <1>2, FS_CardinalityType
<1>4. Cardinality(L) # 0
  BY <1>1, <1>2, FS_EmptySet
<1> QED
  BY <1>2, <1>3, <1>4 DEF Rank

LEMMA RankGrows ==
  ASSUME NEW S \in SUBSET Int, IsFiniteSet(S), NEW x \in S, NEW z \in S, x < z
  PROVE  Rank(S, x) < Rank(S, z)
<1> DEFINE L == {y \in S : y <= x}
           M == {y \in S : y <= z}
<1>1. L \in SUBSET M /\ M \in SUBSET S /\ z \in M /\ z \notin L
  <2>1. S \subseteq Int /\ \A y \in S : y <= x => y <= z
    OBVIOUS
  <2>2. \A y \in L : y \in M
    BY <2>1
  <2>3. z \in M /\ z \notin L
    BY <2>1
  <2> QED
    BY <2>2, <2>3
<1>2. IsFiniteSet(M)
  BY <1>1, FS_Subset
<1>3. IsFiniteSet(L) /\ Cardinality(L) <= Cardinality(M) /\ Cardinality(L) # Cardinality(M)
  <2> HIDE DEF L, M
  <2> QED BY <1>1, <1>2, FS_Subset
<1>4. Cardinality(L) \in Nat /\ Cardinality(M) \in Nat
  BY <1>2, <1>3, FS_CardinalityType
<1> QED
  BY <1>3, <1>4 DEF Rank

LEMMA RankIsOnto ==
  ASSUME NEW S \in SUBSET Int, IsFiniteSet(S), NEW n \in 1..Cardinality(S)
  PROVE  \E x \in S : Rank(S, x) = n
<1> SUFFICES ASSUME \A x \in S : Rank(S, x) # n
             PROVE  FALSE
  OBVIOUS
<1> DEFINE N == Cardinality(S)
           T == (1..N) \ {n}
           f == [x \in S |-> Rank(S, x)]
<1>1. N \in Nat
  BY FS_CardinalityType
<1>2. IsFiniteSet(1..N) /\ Cardinality(1..N) = N
  BY <1>1, FS_Interval
<1>3. IsFiniteSet(T) /\ Cardinality(T) = N - 1
  <2> DEFINE U == 1..N
  <2>1. IsFiniteSet(U) /\ Cardinality(U) = N /\ n \in U /\ T = U \ {n}
    BY <1>2
  <2> HIDE DEF U, T
  <2>2. IsFiniteSet(U \ {n}) /\ Cardinality(U \ {n}) = Cardinality(U) - 1
    BY <2>1, FS_RemoveElement, Zenon
  <2> QED
    BY <2>1, <2>2
<1>4. f \in [S -> T]
  BY RankType
<1>5. Cardinality(T) < Cardinality(S)
  BY <1>1, <1>3
<1>6. PICK x \in S, z \in S : x # z /\ f[x] = f[z]
  <2> HIDE DEF T, f
  <2> QED BY <1>3, <1>4, <1>5, FS_PigeonHole
<1>7. Rank(S, x) = Rank(S, z)
  BY <1>6
<1>8. Rank(S, x) \in Int /\ Rank(S, z) \in Int
  BY RankType
<1>9. CASE x < z
  BY <1>7, <1>8, <1>9, RankGrows
<1>10. CASE z < x
  BY <1>7, <1>8, <1>10, RankGrows
<1> QED
  BY <1>6, <1>9, <1>10

\* Ascending is the enumeration of S in order.
LEMMA AscendingEnumerates ==
  ASSUME NEW S \in SUBSET Int, IsFiniteSet(S)
  PROVE  /\ Cardinality(S) \in Nat
         /\ Ascending(S) \in [1..Cardinality(S) -> S]
         /\ \A m, n \in 1..Cardinality(S) : m < n => Ascending(S)[m] < Ascending(S)[n]
         /\ \A x \in S : \E n \in 1..Cardinality(S) : Ascending(S)[n] = x
<1> DEFINE N == Cardinality(S)
           f == Ascending(S)
<1>1. N \in Nat
  BY FS_CardinalityType
<1>2. f = [n \in 1..N |-> CHOOSE x \in S : Rank(S, x) = n]
  BY DEF Ascending, Rank
<1>3. ASSUME NEW n \in 1..N
      PROVE  f[n] \in S /\ Rank(S, f[n]) = n
  BY <1>2, RankIsOnto
<1>4. f \in [1..N -> S]
  BY <1>2, <1>3
<1>5. ASSUME NEW x \in S, NEW z \in S, Rank(S, x) = Rank(S, z)
      PROVE  x = z
  <2>1. Rank(S, x) \in Int
    BY RankType
  <2>2. CASE x < z
    BY <1>5, <2>1, <2>2, RankGrows
  <2>3. CASE z < x
    BY <1>5, <2>1, <2>3, RankGrows
  <2> QED
    BY <2>2, <2>3
<1>6. ASSUME NEW m \in 1..N, NEW n \in 1..N, m < n
      PROVE  f[m] < f[n]
  <2> HIDE DEF f
  <2>1. f[m] \in S /\ f[n] \in S /\ Rank(S, f[m]) = m /\ Rank(S, f[n]) = n
    BY <1>3
  <2>2. f[m] \in Int /\ f[n] \in Int
    BY <2>1
  <2>3. CASE f[n] < f[m]
    <3>1. Rank(S, f[n]) < Rank(S, f[m])
      BY <2>1, <2>3, RankGrows
    <3> QED
      BY <1>6, <2>1, <3>1
  <2>4. CASE f[n] = f[m]
    BY <1>6, <2>1, <2>4
  <2> QED
    BY <2>2, <2>3, <2>4
<1>7. ASSUME NEW x \in S
      PROVE  \E n \in 1..N : f[n] = x
  <2>1. Rank(S, x) \in 1..N
    BY RankType
  <2>2. f[Rank(S, x)] = x
    BY <1>3, <1>5, <2>1
  <2> QED
    BY <2>1, <2>2
<1> QED
  BY <1>1, <1>4, <1>6, <1>7

(***************************************************************************)
(* Lists of rules: what is looked up in a list with one rule per key, and  *)
(* in one that SetRule, DeleteRule or a start has made.                    *)
(***************************************************************************)

LEMMA KeysOfRules ==
  ASSUME NEW rules \in Seq(Rule), NEW k, Has(rules, k)
  PROVE  k \in Keys
<1>1. PICK i \in DOMAIN rules : rules[i].key = k
  BY DEF Has
<1>2. rules[i] \in Rule
  OBVIOUS
<1> QED
  BY <1>1, <1>2 DEF Rule

LEMMA ValueAt ==
  ASSUME NEW rules, DistinctKeys(rules), NEW i \in DOMAIN rules, NEW none
  PROVE  ValueIn(rules, rules[i].key, none) = rules[i].value
<1> DEFINE j == CHOOSE h \in DOMAIN rules : rules[h].key = rules[i].key
<1>1. j \in DOMAIN rules /\ rules[j].key = rules[i].key
  OBVIOUS
<1>2. j = i
  BY <1>1 DEF DistinctKeys
<1>3. Has(rules, rules[i].key)
  BY DEF Has
<1> QED
  BY <1>2, <1>3 DEF ValueIn

LEMMA ValueOfNone ==
  ASSUME NEW rules, NEW k, NEW none, ~Has(rules, k)
  PROVE  ValueIn(rules, k, none) = none
BY DEF ValueIn

LEMMA ValueType ==
  ASSUME NEW rules \in Seq(Rule), NEW k
  PROVE  /\ Has(rules, k) => ValueIn(rules, k, NoRule) \in Values
         /\ ValueIn(rules, k, NoRule) \in Values \cup {NoRule}
<1>1. CASE Has(rules, k)
  <2>1. PICK i \in DOMAIN rules : /\ i = CHOOSE h \in DOMAIN rules : rules[h].key = k
                                  /\ rules[i].key = k
    BY <1>1 DEF Has
  <2>2. rules[i] \in Rule
    BY <2>1
  <2> QED
    BY <1>1, <2>1, <2>2 DEF ValueIn, Rule
<1> QED
  BY <1>1, ValueOfNone

\* Two lists that have the same rule for k, or none, say the same of k.
LEMMA SameValue ==
  ASSUME NEW rules, DistinctKeys(rules), NEW other, DistinctKeys(other), NEW k,
         \A i \in DOMAIN rules : rules[i].key = k => \E j \in DOMAIN other : other[j] = rules[i],
         \A j \in DOMAIN other : other[j].key = k => \E i \in DOMAIN rules : other[j] = rules[i]
  PROVE  ValueIn(rules, k, NoRule) = ValueIn(other, k, NoRule)
<1>1. CASE Has(rules, k)
  <2>1. PICK i \in DOMAIN rules : rules[i].key = k
    BY <1>1 DEF Has
  <2>2. PICK j \in DOMAIN other : other[j] = rules[i]
    BY <2>1
  <2>3. ValueIn(rules, k, NoRule) = rules[i].value
    BY <2>1, ValueAt
  <2>4. ValueIn(other, k, NoRule) = other[j].value
    BY <2>1, <2>2, ValueAt
  <2> QED
    BY <2>2, <2>3, <2>4
<1>2. CASE ~Has(rules, k)
  <2>1. ~Has(other, k)
    BY <1>2 DEF Has
  <2> QED
    BY <1>2, <2>1, ValueOfNone
<1> QED
  BY <1>1, <1>2

\* SetRule gives its key the new value, and touches no other.
LEMMA SetOne ==
  ASSUME NEW rules \in Seq(Rule), DistinctKeys(rules), NEW rule \in Rule
  PROVE  /\ WithRule(rules, rule) \in Seq(Rule)
         /\ DistinctKeys(WithRule(rules, rule))
         /\ ValueIn(WithRule(rules, rule), rule.key, NoRule) = rule.value
         /\ \A k : k # rule.key =>
              ValueIn(WithRule(rules, rule), k, NoRule) = ValueIn(rules, k, NoRule)
<1> DEFINE out == WithRule(rules, rule)
<1>0. Len(rules) \in Nat /\ DOMAIN rules = 1..Len(rules)
  OBVIOUS
<1>1. /\ out \in Seq(Rule)
      /\ DistinctKeys(out)
      /\ \E i \in DOMAIN out : out[i] = rule
      /\ \A k : k # rule.key =>
           /\ \A i \in DOMAIN rules : rules[i].key = k => \E j \in DOMAIN out : out[j] = rules[i]
           /\ \A j \in DOMAIN out : out[j].key = k => \E i \in DOMAIN rules : out[j] = rules[i]
  <2>1. CASE Has(rules, rule.key)
    <3>1. out = [i \in DOMAIN rules |-> IF rules[i].key = rule.key THEN rule ELSE rules[i]]
      BY <2>1 DEF WithRule
    <3>2. DOMAIN out = DOMAIN rules
      BY <3>1
    <3>3. \A i \in DOMAIN rules : out[i] = IF rules[i].key = rule.key THEN rule ELSE rules[i]
      BY <3>1
    <3>4. out \in Seq(Rule)
      BY <1>0, <3>1
    <3> HIDE DEF out
    <3>5. \A i \in DOMAIN rules : out[i].key = rules[i].key
      BY <3>3
    <3>6. DistinctKeys(out)
      BY <3>2, <3>5 DEF DistinctKeys
    <3>7. \E i \in DOMAIN out : out[i] = rule
      BY <2>1, <3>2, <3>3 DEF Has
    <3> QED
      BY <3>2, <3>3, <3>4, <3>6, <3>7
  <2>2. CASE ~Has(rules, rule.key)
    <3>1. out = Append(rules, rule)
      BY <2>2 DEF WithRule
    <3>2. /\ DOMAIN out = 1..(Len(rules) + 1)
          /\ out[Len(rules) + 1] = rule
          /\ \A i \in 1..Len(rules) : out[i] = rules[i]
          /\ out \in Seq(Rule)
      BY <1>0, <3>1
    <3> HIDE DEF out
    <3>3. \A i \in DOMAIN out : i \in DOMAIN rules \/ i = Len(rules) + 1
      BY <1>0, <3>2
    <3>4. DistinctKeys(out)
      BY <1>0, <2>2, <3>2, <3>3 DEF DistinctKeys, Has
    <3>5. Len(rules) + 1 \in DOMAIN out /\ \A i \in DOMAIN rules : i \in DOMAIN out
      BY <1>0, <3>2
    <3> QED
      BY <1>0, <3>2, <3>3, <3>4, <3>5
  <2> QED
    BY <2>1, <2>2
<1> HIDE DEF out
<1>2. ValueIn(out, rule.key, NoRule) = rule.value
  <2>1. PICK i \in DOMAIN out : out[i] = rule
    BY <1>1
  <2>2. ValueIn(out, out[i].key, NoRule) = out[i].value
    BY <1>1, ValueAt
  <2> QED
    BY <2>1, <2>2
<1>3. ASSUME NEW k, k # rule.key
      PROVE  ValueIn(out, k, NoRule) = ValueIn(rules, k, NoRule)
  <2>1. /\ DistinctKeys(out)
        /\ \A i \in DOMAIN rules : rules[i].key = k => \E j \in DOMAIN out : out[j] = rules[i]
        /\ \A j \in DOMAIN out : out[j].key = k => \E i \in DOMAIN rules : out[j] = rules[i]
    BY <1>1, <1>3
  <2> QED
    BY <2>1, SameValue, Zenon
<1> QED
  BY <1>1, <1>2, <1>3 DEF out

\* DeleteRule takes its key away, and touches no other.
LEMMA DeleteOne ==
  ASSUME NEW rules \in Seq(Rule), DistinctKeys(rules), NEW key
  PROVE  /\ WithoutKey(rules, key) \in Seq(Rule)
         /\ DistinctKeys(WithoutKey(rules, key))
         /\ ValueIn(WithoutKey(rules, key), key, NoRule) = NoRule
         /\ \A k : k # key =>
              ValueIn(WithoutKey(rules, key), k, NoRule) = ValueIn(rules, k, NoRule)
<1> DEFINE S == {i \in DOMAIN rules : rules[i].key # key}
           N == Cardinality(S)
           kept == Ascending(S)
           out == WithoutKey(rules, key)
<1>1. S \in SUBSET Int /\ IsFiniteSet(S) /\ S \subseteq DOMAIN rules
  <2>1. Len(rules) \in Nat /\ DOMAIN rules = 1..Len(rules)
    OBVIOUS
  <2>2. S \in SUBSET (1..Len(rules)) /\ IsFiniteSet(1..Len(rules))
    BY <2>1, FS_Interval
  <2>3. IsFiniteSet(S)
    <3> HIDE DEF S
    <3> QED BY <2>2, FS_Subset
  <2> QED
    BY <2>1, <2>2, <2>3
<1>2. /\ N \in Nat
      /\ kept \in [1..N -> S]
      /\ \A m, n \in 1..N : m < n => kept[m] < kept[n]
      /\ \A x \in S : \E n \in 1..N : kept[n] = x
  <2> HIDE DEF S
  <2> QED BY <1>1, AscendingEnumerates
<1>3. out = [j \in 1..N |-> rules[kept[j]]]
  <2>1. DOMAIN kept = 1..N
    BY <1>2
  <2>2. out = [j \in DOMAIN kept |-> rules[kept[j]]]
    BY DEF WithoutKey
  <2> QED
    BY <2>1, <2>2
<1> HIDE DEF N, kept, out
<1>4. /\ \A j \in 1..N : kept[j] \in DOMAIN rules /\ rules[kept[j]].key # key
      /\ \A i \in DOMAIN rules : rules[i].key # key => \E j \in 1..N : kept[j] = i
  BY <1>2
<1> HIDE DEF S
<1>5. out \in Seq(Rule)
  <2>1. \A j \in 1..N : rules[kept[j]] \in Rule
    BY <1>4
  <2> QED
    BY <1>2, <1>3, <2>1
<1>6. DOMAIN out = 1..N /\ \A j \in 1..N : out[j] = rules[kept[j]]
  BY <1>3
<1>7. DistinctKeys(out)
  <2> SUFFICES ASSUME NEW m \in 1..N, NEW n \in 1..N, out[m].key = out[n].key
               PROVE  m = n
    BY <1>6 DEF DistinctKeys
  <2>1. kept[m] = kept[n]
    BY <1>4, <1>6 DEF DistinctKeys
  <2>2. kept[m] \in Int /\ kept[n] \in Int
    BY <1>1, <1>2
  <2> QED
    BY <1>2, <2>1, <2>2
<1>8. ~Has(out, key)
  BY <1>4, <1>6 DEF Has
<1>9. ASSUME NEW k, k # key
      PROVE  ValueIn(out, k, NoRule) = ValueIn(rules, k, NoRule)
  <2>1. \A i \in DOMAIN rules : rules[i].key = k => \E j \in DOMAIN out : out[j] = rules[i]
    BY <1>4, <1>6, <1>9
  <2>2. \A j \in DOMAIN out : \E i \in DOMAIN rules : out[j] = rules[i]
    BY <1>4, <1>6
  <2> QED
    BY <1>7, <2>1, <2>2, SameValue
<1> QED
  BY <1>5, <1>7, <1>8, <1>9, ValueOfNone DEF out

\* What a start loads is a list of one rule per key, and says what the table says.
LEMMA StoredIsTheTable ==
  ASSUME db \in [Keys -> Values \cup {NoRule}]
  PROVE  /\ Stored \in Seq(Rule)
         /\ DistinctKeys(Stored)
         /\ \A k \in Keys : ValueIn(Stored, k, NoRule) = db[k]
<1> DEFINE S == {k \in Keys : db[k] # NoRule}
           N == Cardinality(S)
           ks == Ascending(S)
           out == Stored
<1>1. S \in SUBSET Keys /\ S \in SUBSET Int /\ IsFiniteSet(S)
  <2>1. S \in SUBSET Keys /\ Keys \subseteq Int /\ IsFiniteSet(Keys)
    BY KeysAssumption
  <2> HIDE DEF S
  <2> QED BY <2>1, FS_Subset
<1>2. /\ N \in Nat
      /\ ks \in [1..N -> S]
      /\ \A m, n \in 1..N : m < n => ks[m] < ks[n]
      /\ \A x \in S : \E n \in 1..N : ks[n] = x
  <2> HIDE DEF S
  <2> QED BY <1>1, AscendingEnumerates
<1>3. out = [i \in 1..N |-> [key |-> ks[i], value |-> db[ks[i]]]]
  <2>1. DOMAIN ks = 1..N
    BY <1>2
  <2>2. out = [i \in DOMAIN ks |-> [key |-> ks[i], value |-> db[ks[i]]]]
    BY DEF Stored, RuleFor
  <2> QED
    BY <2>1, <2>2
<1>4. \A k \in S : k \in Keys /\ db[k] \in Values
  OBVIOUS
<1>5. \A k \in Keys : k \notin S => db[k] = NoRule
  OBVIOUS
<1> HIDE DEF S, N, ks, out
<1>6. out \in Seq(Rule)
  <2>1. \A i \in 1..N : [key |-> ks[i], value |-> db[ks[i]]] \in Rule
    BY <1>2, <1>4 DEF Rule
  <2> QED
    BY <1>2, <1>3, <2>1
<1>7. /\ DOMAIN out = 1..N
      /\ \A i \in 1..N : out[i].key = ks[i] /\ out[i].value = db[ks[i]]
  BY <1>3
<1>8. DistinctKeys(out)
  <2> SUFFICES ASSUME NEW m \in 1..N, NEW n \in 1..N, out[m].key = out[n].key
               PROVE  m = n
    BY <1>7 DEF DistinctKeys
  <2>1. ks[m] = ks[n] /\ ks[m] \in Int
    BY <1>1, <1>2, <1>7
  <2> QED
    BY <1>2, <2>1
<1>9. ASSUME NEW k \in Keys
      PROVE  ValueIn(out, k, NoRule) = db[k]
  <2>1. CASE k \in S
    <3>1. PICK i \in 1..N : ks[i] = k
      BY <1>2, <2>1
    <3>2. i \in DOMAIN out /\ out[i].key = k /\ out[i].value = db[k]
      BY <1>7, <3>1
    <3>3. ValueIn(out, out[i].key, NoRule) = out[i].value
      BY <1>8, <3>2, ValueAt
    <3> QED
      BY <3>2, <3>3
  <2>2. CASE k \notin S
    <3>1. ~Has(out, k)
      BY <1>2, <1>7, <2>2 DEF Has
    <3> QED
      BY <1>5, <2>2, <3>1, ValueOfNone
  <2> QED
    BY <2>1, <2>2
<1> QED
  BY <1>6, <1>8, <1>9 DEF out

\* Nor do the rows that were read before an error say anything else.
LEMMA LoadedIsStored ==
  ASSUME db \in [Keys -> Values \cup {NoRule}], NEW n \in 0..Len(Stored), NEW loaded,
         loaded = SubSeq(Stored, 1, n)
  PROVE  /\ loaded \in Seq(Rule)
         /\ DistinctKeys(loaded)
         /\ \A k : Has(loaded, k) =>
              k \in Keys /\ db[k] \in Values /\ ValueIn(loaded, k, NoRule) = db[k]
<1>1. /\ Stored \in Seq(Rule) /\ DistinctKeys(Stored)
      /\ \A k \in Keys : ValueIn(Stored, k, NoRule) = db[k]
  BY StoredIsTheTable
<1>2. /\ Len(Stored) \in Nat /\ n \in Nat /\ n <= Len(Stored)
      /\ DOMAIN Stored = 1..Len(Stored)
      /\ \A i \in 1..n : i \in DOMAIN Stored /\ Stored[i] \in Rule
  BY <1>1
<1> HIDE DEF Stored
<1>3. /\ loaded \in Seq(Rule) /\ Len(loaded) = n
      /\ \A i \in 1..n : loaded[i] = Stored[i]
  <2>1. /\ SubSeq(Stored, 1, n) \in Seq(Rule)
        /\ Len(SubSeq(Stored, 1, n)) = IF 1 <= n THEN n - 1 + 1 ELSE 0
        /\ \A i \in 1..(n - 1 + 1) : SubSeq(Stored, 1, n)[i] = Stored[1 + i - 1]
    BY <1>2, SubSeqProperties
  <2> QED
    BY <1>2, <2>1
<1>4. DOMAIN loaded = 1..n
  BY <1>3
<1>5. DistinctKeys(loaded)
  BY <1>1, <1>2, <1>3, <1>4 DEF DistinctKeys
<1>6. ASSUME NEW k, Has(loaded, k)
      PROVE  k \in Keys /\ db[k] \in Values /\ ValueIn(loaded, k, NoRule) = db[k]
  <2>1. PICK i \in 1..n : loaded[i].key = k
    BY <1>4, <1>6 DEF Has
  <2>2. Stored[i].key = k /\ i \in DOMAIN Stored /\ Stored[i] = loaded[i] /\ Stored[i] \in Rule
    BY <1>2, <1>3, <2>1
  <2>3. k \in Keys /\ Stored[i].value \in Values
    BY <2>2 DEF Rule
  <2>4. ValueIn(loaded, k, NoRule) = loaded[i].value
    BY <1>4, <1>5, <2>1, ValueAt
  <2>5. ValueIn(Stored, k, NoRule) = Stored[i].value
    BY <1>1, <2>2, ValueAt
  <2> QED
    BY <1>1, <2>2, <2>3, <2>4, <2>5
<1> QED
  BY <1>3, <1>5, <1>6

\* Lists of different keys, one after the other.
LEMMA JoinLists ==
  ASSUME NEW s \in Seq(Rule), NEW t \in Seq(Rule), DistinctKeys(s), DistinctKeys(t),
         \A i \in DOMAIN s, j \in DOMAIN t : s[i].key # t[j].key
  PROVE  /\ s \o t \in Seq(Rule)
         /\ DistinctKeys(s \o t)
         /\ \A i \in DOMAIN s : \E n \in DOMAIN (s \o t) : (s \o t)[n] = s[i]
         /\ \A j \in DOMAIN t : \E n \in DOMAIN (s \o t) : (s \o t)[n] = t[j]
         /\ \A n \in DOMAIN (s \o t) : \/ \E i \in DOMAIN s : (s \o t)[n] = s[i]
                                       \/ \E j \in DOMAIN t : (s \o t)[n] = t[j]
<1> DEFINE u == s \o t
<1>1. /\ Len(s) \in Nat /\ DOMAIN s = 1..Len(s)
      /\ Len(t) \in Nat /\ DOMAIN t = 1..Len(t)
  OBVIOUS
<1>2. /\ u \in Seq(Rule)
      /\ DOMAIN u = 1..(Len(s) + Len(t))
      /\ \A n \in DOMAIN u : u[n] = IF n <= Len(s) THEN s[n] ELSE t[n - Len(s)]
  BY <1>1, ConcatProperties
<1> HIDE DEF u
<1>3. \A n \in DOMAIN u : n \in DOMAIN s \/ n - Len(s) \in DOMAIN t
  BY <1>1, <1>2
<1>4. \A n \in DOMAIN u : /\ n \in DOMAIN s => u[n] = s[n]
                          /\ n \notin DOMAIN s => u[n] = t[n - Len(s)]
  BY <1>1, <1>2
<1>5. DistinctKeys(u)
  <2> SUFFICES ASSUME NEW m \in DOMAIN u, NEW n \in DOMAIN u, u[m].key = u[n].key
               PROVE  m = n
    BY DEF DistinctKeys
  <2>1. m \in Int /\ n \in Int
    BY <1>1, <1>2
  <2>2. CASE m \in DOMAIN s /\ n \in DOMAIN s
    BY <1>4, <2>2 DEF DistinctKeys
  <2>3. CASE m \notin DOMAIN s /\ n \notin DOMAIN s
    <3>1. m - Len(s) = n - Len(s)
      BY <1>3, <1>4, <2>3 DEF DistinctKeys
    <3> QED
      BY <1>1, <2>1, <3>1
  <2>4. CASE m \in DOMAIN s /\ n \notin DOMAIN s
    BY <1>3, <1>4, <2>4
  <2>5. CASE m \notin DOMAIN s /\ n \in DOMAIN s
    BY <1>3, <1>4, <2>5
  <2> QED
    BY <2>2, <2>3, <2>4, <2>5
<1>6. \A i \in DOMAIN s : i \in DOMAIN u
  BY <1>1, <1>2
<1>7. \A j \in DOMAIN t : Len(s) + j \in DOMAIN u /\ u[Len(s) + j] = t[j]
  BY <1>1, <1>2
<1> QED
  BY <1>2, <1>3, <1>4, <1>5, <1>6, <1>7 DEF u

LEMMA OneOrNone ==
  ASSUME NEW c \in BOOLEAN, NEW rule, c => rule \in Rule
  PROVE  /\ When(c, <<rule>>) \in Seq(Rule)
         /\ DistinctKeys(When(c, <<rule>>))
         /\ c => 1 \in DOMAIN When(c, <<rule>>) /\ When(c, <<rule>>)[1] = rule
         /\ \A i \in DOMAIN When(c, <<rule>>) : When(c, <<rule>>)[i] = rule
BY DEF When, DistinctKeys

\* The defaults are a list of one rule per key, that for latency as on the
\* command line.
LEMMA DefaultsAreRules ==
  /\ Defaults \in Seq(Rule)
  /\ DistinctKeys(Defaults)
  /\ \A k \in Keys : DefaultOf(k) \in Values \cup {NoRule}
  /\ \A k \in Keys : Has(Defaults, k) <=> DefaultOf(k) # NoRule
  /\ AlertLatency # NoRule => DefaultOf(LatencyAll) = AlertLatency
<1> DEFINE off == RuleFor(OfflineAll, OfflineValue)
           lat == RuleFor(LatencyAll, AlertLatency)
           loss == RuleFor(LossAll, LossValue)
           a == When(AlertOffline, <<off>>)
           b == When(AlertLatency # NoRule, <<lat>>)
<1>1. /\ off \in Rule /\ loss \in Rule /\ (AlertLatency # NoRule => lat \in Rule)
      /\ off.key = OfflineAll /\ lat.key = LatencyAll /\ loss.key = LossAll
      /\ lat.value = AlertLatency
      /\ OfflineAll # LatencyAll /\ OfflineAll # LossAll /\ LatencyAll # LossAll
  BY KeysAssumption, ValuesAssumption DEF Rule, RuleFor
<1>2. Defaults = a \o b \o <<loss>>
  BY DEF Defaults
<1> HIDE DEF off, lat, loss
<1>3. /\ a \in Seq(Rule) /\ DistinctKeys(a) /\ \A i \in DOMAIN a : a[i] = off
  BY <1>1, OneOrNone, ValuesAssumption
<1>4. /\ b \in Seq(Rule) /\ DistinctKeys(b) /\ \A i \in DOMAIN b : b[i] = lat
      /\ AlertLatency # NoRule => 1 \in DOMAIN b /\ b[1] = lat
  BY <1>1, OneOrNone
<1>5. /\ <<loss>> \in Seq(Rule) /\ DistinctKeys(<<loss>>)
      /\ \A i \in DOMAIN <<loss>> : <<loss>>[i] = loss
  BY <1>1 DEF DistinctKeys
<1> HIDE DEF a, b
<1>6. /\ a \o b \in Seq(Rule)
      /\ DistinctKeys(a \o b)
      /\ \A j \in DOMAIN b : \E n \in DOMAIN (a \o b) : (a \o b)[n] = b[j]
      /\ \A n \in DOMAIN (a \o b) : (a \o b)[n] \in {off, lat}
  BY <1>1, <1>3, <1>4, JoinLists
<1>7. \A i \in DOMAIN (a \o b), j \in DOMAIN <<loss>> : (a \o b)[i].key # <<loss>>[j].key
  BY <1>1, <1>5, <1>6
<1>8. /\ Defaults \in Seq(Rule)
      /\ DistinctKeys(Defaults)
      /\ AlertLatency # NoRule => \E i \in DOMAIN Defaults : Defaults[i] = lat
  <2> DEFINE ab == a \o b
             c == <<loss>>
  <2>1. ab \in Seq(Rule) /\ DistinctKeys(ab) /\ c \in Seq(Rule) /\ DistinctKeys(c)
    BY <1>5, <1>6
  <2>2. \A i \in DOMAIN ab, j \in DOMAIN c : ab[i].key # c[j].key
    BY <1>7
  <2>3. AlertLatency # NoRule => \E i \in DOMAIN ab : ab[i] = lat
    BY <1>4, <1>6
  <2>4. Defaults = ab \o c
    BY <1>2
  <2> HIDE DEF ab, c
  <2>5. /\ ab \o c \in Seq(Rule)
        /\ DistinctKeys(ab \o c)
        /\ \A i \in DOMAIN ab : \E n \in DOMAIN (ab \o c) : (ab \o c)[n] = ab[i]
    BY <2>1, <2>2, JoinLists
  <2> QED
    BY <2>3, <2>4, <2>5
<1>9. ASSUME NEW k \in Keys
      PROVE  /\ DefaultOf(k) \in Values \cup {NoRule}
             /\ Has(Defaults, k) <=> DefaultOf(k) # NoRule
  BY <1>8, ValueType, ValueOfNone, ValuesAssumption DEF DefaultOf
<1>10. ASSUME AlertLatency # NoRule
      PROVE  DefaultOf(LatencyAll) = AlertLatency
  BY <1>1, <1>8, <1>10, ValueAt DEF DefaultOf
<1> QED
  BY <1>8, <1>9, <1>10

\* What is left of a list after its first rule.
LEMMA RestOfList ==
  ASSUME NEW rules \in Seq(Rule), rules # <<>>, DistinctKeys(rules)
  PROVE  /\ Head(rules) \in Rule
         /\ Tail(rules) \in Seq(Rule)
         /\ DistinctKeys(Tail(rules))
         /\ \E i \in DOMAIN rules : Head(rules) = rules[i]
         /\ \A i \in DOMAIN Tail(rules) : \E j \in DOMAIN rules : Tail(rules)[i] = rules[j]
         /\ \A k : Has(Tail(rules), k) <=> Has(rules, k) /\ k # Head(rules).key
<1> DEFINE n == Len(rules)
           rest == Tail(rules)
<1>1. n \in Nat /\ n # 0 /\ DOMAIN rules = 1..n
  BY EmptySeq
<1>2. /\ Head(rules) = rules[1] /\ 1 \in DOMAIN rules /\ rules[1] \in Rule
      /\ rest \in Seq(Rule) /\ DOMAIN rest = 1..(n - 1)
      /\ \A i \in 1..(n - 1) : rest[i] = rules[i + 1]
  BY <1>1
<1> HIDE DEF n, rest
<1>3. \A i \in DOMAIN rest : i + 1 \in DOMAIN rules /\ i + 1 # 1 /\ i \in Int
  BY <1>1, <1>2
<1>4. DistinctKeys(rest)
  <2> SUFFICES ASSUME NEW i \in DOMAIN rest, NEW j \in DOMAIN rest, rest[i].key = rest[j].key
               PROVE  i = j
    BY DEF DistinctKeys
  <2>1. i + 1 = j + 1
    BY <1>2, <1>3 DEF DistinctKeys
  <2> QED
    BY <1>3, <2>1
<1>5. ASSUME NEW k
      PROVE  Has(rest, k) <=> Has(rules, k) /\ k # Head(rules).key
  <2>1. ASSUME Has(rest, k)
        PROVE  Has(rules, k) /\ k # Head(rules).key
    <3>1. PICK i \in DOMAIN rest : rest[i].key = k
      BY <2>1 DEF Has
    <3>2. rules[i + 1].key = k /\ i + 1 \in DOMAIN rules /\ i + 1 # 1
      BY <1>2, <1>3, <3>1
    <3> QED
      BY <1>2, <3>2 DEF Has, DistinctKeys
  <2>2. ASSUME Has(rules, k), k # Head(rules).key
        PROVE  Has(rest, k)
    <3>1. PICK j \in DOMAIN rules : rules[j].key = k
      BY <2>2 DEF Has
    <3>2. j # 1
      BY <1>2, <2>2, <3>1
    <3>3. j - 1 \in DOMAIN rest /\ rest[j - 1] = rules[j]
      BY <1>1, <1>2, <3>2
    <3> QED
      BY <3>1, <3>3 DEF Has
  <2> QED
    BY <2>1, <2>2
<1> QED
  BY <1>2, <1>3, <1>4, <1>5 DEF rest

(***************************************************************************)
(* The invariant.                                                          *)
(***************************************************************************)

OverrideHasValue == phase = "override" => AlertLatency # NoRule

TypeInv == TypeOK /\ OneRulePerKey /\ OverrideHasValue

\* Until the rules are loaded nothing has happened that a restart could undo.
LoadIsClean == phase = "load" => dirty = {}

\* The defaults are in the manager before they are in the table.
SeedsAreUsed ==
  /\ phase # "seed" => todo = <<>>
  /\ DistinctKeys(todo)
  /\ \A i \in DOMAIN todo : InMemory(todo[i].key) = todo[i].value

\* CleanKeysAgree, for the phases of the start too: a key that is neither open
\* in a request nor still to be seeded is the same in the manager and the table.
TableFollows ==
  phase # "load" =>
    \A k \in Keys \ dirty : ~Busy(k) /\ ~Has(todo, k) => InMemory(k) = db[k]

\* On a clean key there is one request at most, and what it has still to write
\* is what the manager has.
WrittenSoon ==
  \A r \in Requests : req[r].busy /\ req[r].key \notin dirty =>
    /\ InMemory(req[r].key) = req[r].value
    /\ \A s \in Requests : req[s].busy /\ req[s].key = req[r].key => s = r

RuleInv ==
  TypeInv /\ LoadIsClean /\ SeedsAreUsed /\ TableFollows /\ WrittenSoon

(***************************************************************************)
(* What the actions do to the values in use.                               *)
(***************************************************************************)

\* A request changes one key in the manager.
Edit(r, k, v) ==
  /\ Begin(r, k, v)
  /\ mem' \in Seq(Rule)
  /\ DistinctKeys(mem')
  /\ InMemory(k)' = v
  /\ \A h : h # k => InMemory(h)' = InMemory(h)

LEMMA RequestsEdit ==
  ASSUME TypeInv, NEW r \in Requests, NEW k \in Keys,
         DeleteRule(r, k) \/ \E v \in Values : SetRule(r, k, v)
  PROVE  \E v \in Values \cup {NoRule} : Edit(r, k, v)
<1>1. mem \in Seq(Rule) /\ DistinctKeys(mem)
  BY DEF TypeInv, TypeOK, OneRulePerKey
<1>2. CASE DeleteRule(r, k)
  BY <1>1, <1>2, DeleteOne DEF DeleteRule, Edit, InMemory
<1>3. ASSUME NEW v \in Values, SetRule(r, k, v)
      PROVE  Edit(r, k, v)
  <2>1. RuleFor(k, v) \in Rule /\ RuleFor(k, v).key = k /\ RuleFor(k, v).value = v
    BY DEF Rule, RuleFor
  <2> QED
    BY <1>1, <1>3, <2>1, SetOne DEF SetRule, Edit, InMemory
<1> QED
  BY <1>2, <1>3

\* A start that found rules has those of the table; one that found none has
\* the defaults, and all of them to save.
LEMMA AfterLoadStored ==
  ASSUME TypeInv, phase = "load", AfterLoad(Stored), Stored # <<>>
  PROVE  /\ mem' \in Seq(Rule) /\ DistinctKeys(mem')
         /\ \A k \in Keys : InMemory(k)' = db[k]
         /\ todo' = <<>>
         /\ \/ phase' = "run"
            \/ phase' = "override" /\ AlertLatency # NoRule
<1>1. db \in [Keys -> Values \cup {NoRule}]
  BY DEF TypeInv, TypeOK
<1>2. mem' = Stored /\ todo' = <<>>
  BY DEF AfterLoad
<1> QED
  BY <1>1, <1>2, StoredIsTheTable DEF AfterLoad, InMemory

LEMMA NothingStored ==
  ASSUME TypeInv, Stored = <<>>
  PROVE  \A k \in Keys : db[k] = NoRule
<1>1. db \in [Keys -> Values \cup {NoRule}]
  BY DEF TypeInv, TypeOK
<1>2. \A k : ~Has(Stored, k)
  BY DEF Has
<1> QED
  BY <1>1, <1>2, StoredIsTheTable, ValueOfNone

LEMMA AfterLoadEmpty ==
  ASSUME AfterLoad(<<>>)
  PROVE  /\ mem' = Defaults /\ todo' = Defaults /\ phase' = "seed"
         /\ mem' \in Seq(Rule) /\ DistinctKeys(mem')
         /\ \A k : InMemory(k)' = DefaultOf(k)
         /\ \A k \in Keys : Has(todo', k) <=> DefaultOf(k) # NoRule
BY DefaultsAreRules DEF AfterLoad, InMemory, DefaultOf

\* A start that could not read the table has some of its rules, or the defaults.
LEMMA LoadFailsLoads ==
  ASSUME TypeInv, LoadFails
  PROVE  \E loaded \in Seq(Rule) :
           /\ AfterLoad(loaded) /\ DistinctKeys(loaded)
           /\ \A k : Has(loaded, k) =>
                k \in Keys /\ db[k] \in Values /\ ValueIn(loaded, k, NoRule) = db[k]
           /\ dirty' = dirty \cup {k \in Keys : db[k] # NoRule /\ ~Has(loaded, k)}
<1>1. db \in [Keys -> Values \cup {NoRule}]
  BY DEF TypeInv, TypeOK
<1>2. PICK n \in 0..Len(Stored) :
        /\ AfterLoad(SubSeq(Stored, 1, n))
        /\ dirty' = dirty \cup {k \in Keys : db[k] # NoRule /\ ~Has(SubSeq(Stored, 1, n), k)}
  BY DEF LoadFails
<1>3. PICK loaded : loaded = SubSeq(Stored, 1, n)
  OBVIOUS
<1> QED
  BY <1>1, <1>2, <1>3, LoadedIsStored

LEMMA AfterLoadSome ==
  ASSUME NEW loaded, loaded # <<>>, AfterLoad(loaded)
  PROVE  /\ mem' = loaded /\ todo' = <<>>
         /\ \/ phase' = "run"
            \/ phase' = "override" /\ AlertLatency # NoRule
BY DEF AfterLoad

(***************************************************************************)
(* Types, and one rule per key.                                            *)
(***************************************************************************)

LEMMA TypeInit == Init => TypeInv
BY RuleBoundsAssumption DEF Init, TypeInv, TypeOK, OneRulePerKey, OverrideHasValue, DistinctKeys, Idle

LEMMA TypeStep == TypeInv /\ [Next]_vars => TypeInv'
<1> SUFFICES ASSUME TypeInv, [Next]_vars
             PROVE  TypeInv'
  OBVIOUS
<1> USE RuleBoundsAssumption, KeysAssumption, ValuesAssumption
<1>0. /\ TypeOK /\ mem \in Seq(Rule) /\ DistinctKeys(mem)
      /\ db \in [Keys -> Values \cup {NoRule}]
  BY DEF TypeInv, TypeOK, OneRulePerKey, OverrideHasValue
<1>f. ASSUME NEW s, Fault(s)
      PROVE  faults' \in 0..MaxFaults
  <2>1. MaxFaults \in Nat /\ faults \in 0..MaxFaults
    BY <1>0 DEF TypeOK
  <2> QED
    BY <1>f, <2>1 DEF Fault
<1>1. CASE Load
  <2>1. CASE Stored # <<>>
    <3>1. /\ mem' \in Seq(Rule) /\ DistinctKeys(mem') /\ todo' = <<>>
          /\ \/ phase' = "run"
             \/ phase' = "override" /\ AlertLatency # NoRule
      BY <1>1, <2>1, AfterLoadStored DEF Load
    <3> QED
      BY <1>0, <1>1, <3>1 DEF Load, TypeInv, TypeOK, OneRulePerKey, OverrideHasValue
  <2>2. CASE Stored = <<>>
    <3>1. mem' \in Seq(Rule) /\ DistinctKeys(mem') /\ todo' = mem' /\ phase' = "seed"
      BY <1>1, <2>2, AfterLoadEmpty DEF Load
    <3> QED
      BY <1>0, <1>1, <3>1 DEF Load, TypeInv, TypeOK, OneRulePerKey, OverrideHasValue
  <2> QED
    BY <2>1, <2>2
<1>2. CASE LoadFails
  <2>f. faults' \in 0..MaxFaults
    BY <1>f, <1>2 DEF LoadFails
  <2>1. PICK loaded \in Seq(Rule) :
          /\ AfterLoad(loaded) /\ DistinctKeys(loaded)
          /\ dirty' = dirty \cup {k \in Keys : db[k] # NoRule /\ ~Has(loaded, k)}
    BY <1>2, LoadFailsLoads
  <2>2. /\ mem' \in Seq(Rule) /\ DistinctKeys(mem') /\ todo' \in Seq(Rule)
        /\ \/ phase' \in {"seed", "run"}
           \/ phase' = "override" /\ AlertLatency # NoRule
    <3>1. CASE loaded = <<>>
      BY <2>1, <3>1, AfterLoadEmpty
    <3>2. CASE loaded # <<>>
      <4>1. /\ mem' = loaded /\ todo' = <<>>
            /\ \/ phase' = "run"
               \/ phase' = "override" /\ AlertLatency # NoRule
        BY <2>1, <3>2, AfterLoadSome, Zenon
      <4>2. <<>> \in Seq(Rule)
        BY EmptySeq
      <4> QED
        BY <2>1, <4>1, <4>2
    <3> QED
      BY <3>1, <3>2
  <2>3. dirty' \subseteq Keys
    BY <1>0, <2>1 DEF TypeOK
  <2> QED
    BY <1>0, <1>2, <2>f, <2>2, <2>3
       DEF LoadFails, TypeInv, TypeOK, OneRulePerKey, OverrideHasValue
<1>3. CASE SeedRule
  <2>1. Head(todo) \in Rule /\ Tail(todo) \in Seq(Rule)
    BY <1>0, <1>3, EmptySeq DEF SeedRule, TypeOK
  <2>2. Head(todo).key \in Keys /\ Head(todo).value \in Values
    BY <2>1 DEF Rule
  <2> QED
    BY <1>0, <1>3, <2>1, <2>2 DEF SeedRule, TypeInv, TypeOK, OneRulePerKey, OverrideHasValue
<1>4. CASE SeedFails
  <2>f. faults' \in 0..MaxFaults
    BY <1>f, <1>4 DEF SeedFails
  <2>1. Head(todo) \in Rule /\ Tail(todo) \in Seq(Rule)
    BY <1>0, <1>4, EmptySeq DEF SeedFails, TypeOK
  <2>2. Head(todo).key \in Keys
    BY <2>1 DEF Rule
  <2> QED
    BY <1>0, <1>4, <2>f, <2>1, <2>2 DEF SeedFails, TypeInv, TypeOK, OneRulePerKey, OverrideHasValue
<1>5. CASE Seeded
  BY <1>0, <1>5 DEF Seeded, TypeInv, TypeOK, OneRulePerKey, OverrideHasValue
<1>6. CASE OverrideLatency
  <2>1. RuleFor(LatencyAll, AlertLatency) \in Rule
    BY <1>0, <1>6 DEF OverrideLatency, OverrideHasValue, TypeInv, RuleFor, Rule
  <2>2. mem' \in Seq(Rule) /\ DistinctKeys(mem')
    BY <1>0, <1>6, <2>1, SetOne DEF OverrideLatency
  <2>3. /\ db' \in [Keys -> Values \cup {NoRule}]
        /\ dirty' \subseteq Keys
        /\ faults' \in 0..MaxFaults
    BY <1>0, <1>f, <1>6 DEF OverrideLatency, TypeOK
  <2> QED
    BY <1>0, <1>6, <2>2, <2>3 DEF OverrideLatency, TypeInv, TypeOK, OneRulePerKey, OverrideHasValue
<1>7. ASSUME NEW r \in Requests, NEW k \in Keys,
             DeleteRule(r, k) \/ \E v \in Values : SetRule(r, k, v)
      PROVE  TypeInv'
  <2>1. PICK v \in Values \cup {NoRule} : Edit(r, k, v)
    BY <1>7, RequestsEdit
  <2>2. Save(k, v) \in [key: Keys \cup {0}, value: Values \cup {NoRule}, busy: BOOLEAN]
    BY DEF Save
  <2>3. req' \in [Requests -> [key: Keys \cup {0}, value: Values \cup {NoRule}, busy: BOOLEAN]]
    BY <1>0, <2>1, <2>2 DEF Edit, Begin, TypeOK
  <2>4. \A s \in Requests : req'[s].busy => req'[s].key \in Keys
    BY <1>0, <2>1 DEF Edit, Begin, Save, TypeOK
  <2> QED
    BY <1>0, <2>1, <2>3, <2>4 DEF Edit, Begin, TypeInv, TypeOK, OneRulePerKey, OverrideHasValue
<1>8. ASSUME NEW r \in Requests, WriteRule(r)
      PROVE  TypeInv'
  <2>1. Idle \in [key: Keys \cup {0}, value: Values \cup {NoRule}, busy: BOOLEAN] /\ ~Idle.busy
    BY DEF Idle
  <2>2. /\ req' \in [Requests -> [key: Keys \cup {0}, value: Values \cup {NoRule}, busy: BOOLEAN]]
        /\ \A s \in Requests : req'[s].busy => req[s].busy /\ req'[s].key = req[s].key
    BY <1>0, <1>8, <2>1 DEF WriteRule, TypeOK
  <2>3. req[r].key \in Keys /\ req[r].value \in Values \cup {NoRule}
    BY <1>0, <1>8 DEF WriteRule, TypeOK
  <2> QED
    BY <1>0, <1>8, <2>2, <2>3 DEF WriteRule, Written, TypeInv, TypeOK, OneRulePerKey, OverrideHasValue
<1>9. ASSUME NEW r \in Requests, WriteFails(r)
      PROVE  TypeInv'
  <2>f. faults' \in 0..MaxFaults
    BY <1>f, <1>9 DEF WriteFails
  <2>1. Idle \in [key: Keys \cup {0}, value: Values \cup {NoRule}, busy: BOOLEAN] /\ ~Idle.busy
    BY DEF Idle
  <2>2. /\ req' \in [Requests -> [key: Keys \cup {0}, value: Values \cup {NoRule}, busy: BOOLEAN]]
        /\ \A s \in Requests : req'[s].busy => req[s].busy /\ req'[s].key = req[s].key
    BY <1>0, <1>9, <2>1 DEF WriteFails, TypeOK
  <2>3. req[r].key \in Keys
    BY <1>0, <1>9 DEF WriteFails, TypeOK
  <2> QED
    BY <1>0, <1>9, <2>f, <2>2, <2>3 DEF WriteFails, TypeInv, TypeOK, OneRulePerKey, OverrideHasValue
<1>10. CASE Restart
  BY <1>0, <1>10 DEF Restart, Idle, TypeInv, TypeOK, OneRulePerKey, OverrideHasValue, DistinctKeys
<1>11. CASE UNCHANGED vars
  BY <1>0, <1>11 DEF vars, TypeInv, TypeOK, OneRulePerKey, OverrideHasValue
<1> QED
  BY <1>1, <1>2, <1>3, <1>4, <1>5, <1>6, <1>7, <1>8, <1>9, <1>10, <1>11 DEF Next

\* The manager holds rules of their types, the table one value or none per key.
THEOREM TypeCorrect == Spec => []TypeOK
<1>1. TypeInv => TypeOK
  BY DEF TypeInv
<1> QED
  BY TypeInit, TypeStep, <1>1, PTL DEF Spec

\* No order of loading, seeding, overriding and requests leaves two rules of one
\* kind and node in the manager.
THEOREM OneRuleCorrect == Spec => []OneRulePerKey
<1>1. TypeInv => OneRulePerKey
  BY DEF TypeInv
<1> QED
  BY TypeInit, TypeStep, <1>1, PTL DEF Spec

(***************************************************************************)
(* The manager and the table.                                              *)
(***************************************************************************)

LEMMA RuleInit == Init => RuleInv
<1> SUFFICES ASSUME Init
             PROVE  RuleInv
  OBVIOUS
<1>1. SeedsAreUsed
  BY DEF Init, SeedsAreUsed, DistinctKeys
<1> QED
  BY <1>1, TypeInit DEF Init, RuleInv, LoadIsClean, TableFollows, WrittenSoon, Idle

\* While the server starts, no request is under way.
LEMMA NoneBusy ==
  ASSUME TypeInv, phase # "run"
  PROVE  (\A r \in Requests : ~req[r].busy) /\ \A k : ~Busy(k)
BY DEF TypeInv, TypeOK, Busy

\* An edit makes its key clean, or dirty when there was a request on it.
LEMMA EditKeeps ==
  ASSUME RuleInv, TypeInv', NEW r \in Requests, NEW k \in Keys,
         NEW v \in Values \cup {NoRule}, Edit(r, k, v)
  PROVE  RuleInv'
<1>1. /\ phase = "run" /\ phase' = "run" /\ todo = <<>> /\ todo' = <<>> /\ db' = db
      /\ ~req[r].busy
      /\ dirty' = IF Busy(k) THEN dirty \cup {k} ELSE dirty \ {k}
  BY DEF Edit, Begin, RuleInv, SeedsAreUsed
<1>2. /\ req'[r].key = k /\ req'[r].value = v /\ req'[r].busy
      /\ \A s \in Requests : s # r => req'[s] = req[s]
  BY DEF Edit, Begin, Save, RuleInv, TypeInv, TypeOK
<1>3. InMemory(k)' = v /\ \A h : h # k => InMemory(h)' = InMemory(h)
  BY DEF Edit
<1>4. Busy(k)' /\ \A h : h # k => (Busy(h)' <=> Busy(h))
  BY <1>1, <1>2 DEF Busy
<1>5. SeedsAreUsed'
  BY <1>1 DEF SeedsAreUsed, DistinctKeys
<1>6. TableFollows'
  <2> SUFFICES ASSUME NEW h \in Keys \ dirty', ~Busy(h)'
               PROVE  InMemory(h)' = db'[h]
    BY DEF TableFollows
  <2>1. h # k /\ h \notin dirty /\ ~Busy(h) /\ ~Has(todo, h)
    BY <1>1, <1>4 DEF Has
  <2> QED
    BY <1>1, <1>3, <2>1 DEF RuleInv, TableFollows, InMemory
<1>7. WrittenSoon'
  <2> SUFFICES ASSUME NEW s \in Requests, (req[s].busy /\ req[s].key \notin dirty)'
               PROVE  (/\ InMemory(req[s].key) = req[s].value
                       /\ \A t \in Requests : req[t].busy /\ req[t].key = req[s].key => t = s)'
    BY DEF WrittenSoon
  <2>1. CASE s = r
    <3>1. ~Busy(k)
      BY <1>1, <1>2, <2>1
    <3> QED
      BY <1>2, <1>3, <2>1, <3>1 DEF Busy, InMemory
  <2>2. CASE s # r
    <3>1. req'[s] = req[s]
      BY <1>2, <2>2
    <3>2. req[s].key # k
      BY <1>1, <3>1 DEF Busy
    <3>3. /\ InMemory(req[s].key) = req[s].value
          /\ \A t \in Requests : req[t].busy /\ req[t].key = req[s].key => t = s
      BY <1>1, <3>1, <3>2 DEF RuleInv, WrittenSoon
    <3> QED
      BY <1>2, <1>3, <3>1, <3>2, <3>3 DEF InMemory
  <2> QED
    BY <2>1, <2>2
<1> QED
  BY <1>1, <1>5, <1>6, <1>7 DEF RuleInv, LoadIsClean

\* A request that has ended leaves the others as they were.
LEMMA RequestEnds ==
  ASSUME TypeInv, NEW r \in Requests, req[r].busy, req' = [req EXCEPT ![r] = Idle]
  PROVE  /\ ~req'[r].busy
         /\ \A s \in Requests : s # r => req'[s] = req[s]
         /\ \A s \in Requests : req'[s].busy => s # r /\ req[s].busy
         /\ \A h : h # req[r].key => (Busy(h)' <=> Busy(h))
         /\ phase = "run" /\ req[r].key \in Keys /\ req[r].value \in Values \cup {NoRule}
<1>1. /\ ~req'[r].busy
      /\ \A s \in Requests : s # r => req'[s] = req[s]
  BY DEF TypeInv, TypeOK, Idle
<1>2. \A h : h # req[r].key => (Busy(h)' <=> Busy(h))
  BY <1>1 DEF Busy
<1> QED
  BY <1>1, <1>2 DEF TypeInv, TypeOK

LEMMA RuleStep == RuleInv /\ TypeInv' /\ [Next]_vars => RuleInv'
<1> SUFFICES ASSUME RuleInv, TypeInv', [Next]_vars
             PROVE  RuleInv'
  OBVIOUS
<1>0. /\ TypeInv /\ LoadIsClean /\ SeedsAreUsed /\ TableFollows /\ WrittenSoon
      /\ todo \in Seq(Rule) /\ DistinctKeys(todo)
      /\ db \in [Keys -> Values \cup {NoRule}]
  BY DEF RuleInv, SeedsAreUsed, TypeInv, TypeOK
<1>b. ASSUME phase # "run", req' = req
      PROVE  /\ \A k : ~Busy(k)
             /\ WrittenSoon'
  BY <1>0, <1>b, NoneBusy DEF WrittenSoon
<1>e. ASSUME AfterLoad(<<>>), phase = "load", req' = req, db' = db,
             \A k \in Keys \ dirty' : db[k] = NoRule
      PROVE  RuleInv'
  <2>1. /\ mem' = Defaults /\ todo' = Defaults /\ phase' = "seed"
        /\ DistinctKeys(Defaults)
        /\ \A k : InMemory(k)' = DefaultOf(k)
        /\ \A k \in Keys : Has(todo', k) <=> DefaultOf(k) # NoRule
    BY <1>e, AfterLoadEmpty
  <2>2. \A i \in DOMAIN Defaults : DefaultOf(Defaults[i].key) = Defaults[i].value
    BY <2>1, ValueAt DEF DefaultOf
  <2>3. SeedsAreUsed'
    BY <2>1, <2>2 DEF SeedsAreUsed
  <2>4. TableFollows'
    <3> SUFFICES ASSUME NEW k \in Keys \ dirty', ~Has(todo', k)
                 PROVE  InMemory(k)' = db'[k]
      BY DEF TableFollows
    <3> QED
      BY <1>e, <2>1
  <2> QED
    BY <1>b, <1>e, <2>1, <2>3, <2>4 DEF RuleInv, LoadIsClean
<1>1. CASE Load
  <2>1. CASE Stored # <<>>
    <3>1. /\ \A k \in Keys : InMemory(k)' = db[k]
          /\ todo' = <<>>
          /\ phase' \in {"run", "override"}
      BY <1>0, <1>1, <2>1, AfterLoadStored DEF Load
    <3>2. SeedsAreUsed'
      BY <3>1 DEF SeedsAreUsed, DistinctKeys
    <3>3. TableFollows'
      BY <1>1, <3>1 DEF Load, TableFollows
    <3> QED
      BY <1>b, <1>1, <3>1, <3>2, <3>3 DEF Load, RuleInv, LoadIsClean
  <2>2. CASE Stored = <<>>
    BY <1>e, <1>0, <1>1, <2>2, NothingStored DEF Load
  <2> QED
    BY <2>1, <2>2
<1>2. CASE LoadFails
  <2>1. PICK loaded \in Seq(Rule) :
          /\ AfterLoad(loaded) /\ DistinctKeys(loaded)
          /\ \A k : Has(loaded, k) =>
               k \in Keys /\ db[k] \in Values /\ ValueIn(loaded, k, NoRule) = db[k]
          /\ dirty' = dirty \cup {k \in Keys : db[k] # NoRule /\ ~Has(loaded, k)}
    BY <1>0, <1>2, LoadFailsLoads
  <2>2. phase = "load" /\ req' = req /\ db' = db
    BY <1>2 DEF LoadFails
  <2>3. CASE loaded = <<>>
    <3>1. \A k : ~Has(loaded, k)
      BY <2>3 DEF Has
    <3> QED
      BY <1>e, <2>1, <2>2, <2>3, <3>1
  <2>4. CASE loaded # <<>>
    <3>1. /\ mem' = loaded /\ todo' = <<>> /\ phase' \in {"run", "override"}
      BY <2>1, <2>4, AfterLoadSome
    <3>2. SeedsAreUsed'
      BY <3>1 DEF SeedsAreUsed, DistinctKeys
    <3>3. TableFollows'
      <4> SUFFICES ASSUME NEW k \in Keys \ dirty'
                   PROVE  InMemory(k)' = db'[k]
        BY DEF TableFollows
      <4>1. CASE Has(loaded, k)
        BY <2>1, <2>2, <3>1, <4>1 DEF InMemory
      <4>2. CASE ~Has(loaded, k)
        BY <2>1, <2>2, <3>1, <4>2, ValueOfNone DEF InMemory
      <4> QED
        BY <4>1, <4>2
    <3> QED
      BY <1>b, <2>2, <3>1, <3>2, <3>3 DEF RuleInv, LoadIsClean
  <2> QED
    BY <2>3, <2>4
<1>3. CASE SeedRule
  <2>1. /\ todo # <<>> /\ todo' = Tail(todo) /\ mem' = mem /\ dirty' = dirty /\ req' = req
        /\ phase = "seed" /\ phase' = "seed"
        /\ db' = [db EXCEPT ![Head(todo).key] = Head(todo).value]
    BY <1>3 DEF SeedRule
  <2>2. SeedsAreUsed'
    BY <1>0, <2>1, RestOfList DEF SeedsAreUsed, InMemory
  <2>3. TableFollows'
    <3> SUFFICES ASSUME NEW k \in Keys \ dirty', ~Has(todo', k)
                 PROVE  InMemory(k)' = db'[k]
      BY DEF TableFollows
    <3>1. CASE k = Head(todo).key
      <4>1. InMemory(Head(todo).key) = Head(todo).value
        BY <1>0, <2>1, RestOfList DEF SeedsAreUsed
      <4> QED
        BY <1>0, <2>1, <3>1, <4>1 DEF InMemory
    <3>2. CASE k # Head(todo).key
      <4>1. ~Has(todo, k) /\ ~Busy(k) /\ k \notin dirty
        BY <1>0, <1>b, <2>1, <3>2, RestOfList
      <4> QED
        BY <1>0, <2>1, <3>2, <4>1 DEF TableFollows, InMemory
    <3> QED
      BY <3>1, <3>2
  <2> QED
    BY <1>b, <2>1, <2>2, <2>3 DEF RuleInv, LoadIsClean
<1>4. CASE SeedFails
  <2>1. /\ todo # <<>> /\ todo' = Tail(todo) /\ mem' = mem /\ req' = req /\ db' = db
        /\ phase = "seed" /\ phase' = "seed" /\ dirty' = dirty \cup {Head(todo).key}
    BY <1>4 DEF SeedFails
  <2>2. SeedsAreUsed'
    BY <1>0, <2>1, RestOfList DEF SeedsAreUsed, InMemory
  <2>3. TableFollows'
    <3> SUFFICES ASSUME NEW k \in Keys \ dirty', ~Has(todo', k)
                 PROVE  InMemory(k)' = db'[k]
      BY DEF TableFollows
    <3>1. ~Has(todo, k) /\ ~Busy(k) /\ k \notin dirty
      BY <1>0, <1>b, <2>1, RestOfList
    <3> QED
      BY <1>0, <2>1, <3>1 DEF TableFollows, InMemory
  <2> QED
    BY <1>b, <2>1, <2>2, <2>3 DEF RuleInv, LoadIsClean
<1>5. CASE Seeded
  <2>1. phase = "seed" /\ phase' = "run" /\ UNCHANGED <<mem, db, todo, req, dirty>> /\ todo = <<>>
    BY <1>5 DEF Seeded
  <2>2. SeedsAreUsed'
    BY <1>0, <2>1 DEF SeedsAreUsed, InMemory
  <2>3. TableFollows'
    BY <1>0, <2>1 DEF TableFollows, InMemory, Busy
  <2> QED
    BY <1>b, <2>1, <2>2, <2>3 DEF RuleInv, LoadIsClean
<1>6. CASE OverrideLatency
  <2>1. /\ phase = "override" /\ phase' = "run" /\ req' = req /\ todo' = todo /\ todo = <<>>
        /\ mem' = WithRule(mem, RuleFor(LatencyAll, AlertLatency))
        /\ \/ db' = [db EXCEPT ![LatencyAll] = AlertLatency] /\ dirty' = dirty
           \/ db' = db /\ dirty' = dirty \cup {LatencyAll}
    BY <1>0, <1>6 DEF OverrideLatency, SeedsAreUsed
  <2>2. /\ InMemory(LatencyAll)' = AlertLatency
        /\ \A k : k # LatencyAll => InMemory(k)' = InMemory(k)
    <3>1. LatencyAll \in Keys /\ AlertLatency \in Values
      BY <1>0, <2>1, KeysAssumption, ValuesAssumption DEF TypeInv, OverrideHasValue
    <3>2. /\ RuleFor(LatencyAll, AlertLatency) \in Rule
          /\ RuleFor(LatencyAll, AlertLatency).key = LatencyAll
          /\ RuleFor(LatencyAll, AlertLatency).value = AlertLatency
      BY <3>1 DEF RuleFor, Rule
    <3> QED
      BY <1>0, <2>1, <3>2, SetOne DEF TypeInv, TypeOK, OneRulePerKey, InMemory
  <2>3. SeedsAreUsed'
    BY <1>0, <2>1 DEF SeedsAreUsed
  <2>4. TableFollows'
    <3> SUFFICES ASSUME NEW k \in Keys \ dirty'
                 PROVE  InMemory(k)' = db'[k]
      BY DEF TableFollows
    <3>1. ~Has(todo, k) /\ ~Busy(k) /\ k \notin dirty
      BY <1>b, <2>1 DEF Has
    <3>2. CASE k = LatencyAll
      BY <1>0, <2>1, <2>2, <3>2
    <3>3. CASE k # LatencyAll
      BY <1>0, <2>1, <2>2, <3>1, <3>3 DEF TableFollows
    <3> QED
      BY <3>2, <3>3
  <2> QED
    BY <1>b, <2>1, <2>3, <2>4 DEF RuleInv, LoadIsClean
<1>7. ASSUME NEW r \in Requests, NEW k \in Keys,
             DeleteRule(r, k) \/ \E v \in Values : SetRule(r, k, v)
      PROVE  RuleInv'
  BY <1>0, <1>7, RequestsEdit, EditKeeps
<1>8. ASSUME NEW r \in Requests, WriteRule(r) \/ WriteFails(r)
      PROVE  RuleInv'
  <2> DEFINE k == req[r].key
  <2>1. /\ req[r].busy /\ req' = [req EXCEPT ![r] = Idle]
        /\ mem' = mem /\ phase' = phase /\ todo' = todo
        /\ \/ dirty' = dirty /\ db' = [db EXCEPT ![k] = req[r].value]
           \/ dirty' = dirty \cup {k} /\ db' = db
    BY <1>8 DEF WriteRule, WriteFails, Written
  <2>2. /\ ~req'[r].busy
        /\ \A s \in Requests : s # r => req'[s] = req[s]
        /\ \A s \in Requests : req'[s].busy => s # r /\ req[s].busy
        /\ \A h : h # k => (Busy(h)' <=> Busy(h))
        /\ phase = "run" /\ k \in Keys
    BY <1>0, <2>1, RequestEnds
  <2> HIDE DEF k
  <2>3. SeedsAreUsed'
    BY <1>0, <2>1 DEF SeedsAreUsed, InMemory
  <2>4. TableFollows'
    <3> SUFFICES ASSUME NEW h \in Keys \ dirty', ~Busy(h)', ~Has(todo', h)
                 PROVE  InMemory(h)' = db'[h]
      BY DEF TableFollows
    <3>1. CASE h = k
      <4>1. k \notin dirty /\ db' = [db EXCEPT ![k] = req[r].value]
        BY <2>1, <3>1
      <4>2. InMemory(k) = req[r].value
        BY <1>0, <2>1, <4>1 DEF WrittenSoon, k
      <4> QED
        BY <1>0, <2>1, <2>2, <3>1, <4>1, <4>2 DEF InMemory
    <3>2. CASE h # k
      <4>1. h \notin dirty /\ ~Busy(h) /\ ~Has(todo, h) /\ db'[h] = db[h]
        BY <1>0, <2>1, <2>2, <3>2
      <4> QED
        BY <1>0, <2>1, <2>2, <4>1 DEF TableFollows, InMemory
    <3> QED
      BY <3>1, <3>2
  <2>5. WrittenSoon'
    <3> SUFFICES ASSUME NEW s \in Requests, (req[s].busy /\ req[s].key \notin dirty)'
                 PROVE  (/\ InMemory(req[s].key) = req[s].value
                         /\ \A t \in Requests : req[t].busy /\ req[t].key = req[s].key => t = s)'
      BY DEF WrittenSoon
    <3>1. req'[s] = req[s] /\ req[s].busy /\ req[s].key \notin dirty
      BY <2>1, <2>2
    <3>2. /\ InMemory(req[s].key) = req[s].value
          /\ \A t \in Requests : req[t].busy /\ req[t].key = req[s].key => t = s
      BY <1>0, <3>1 DEF WrittenSoon
    <3>3. \A t \in Requests : req'[t].busy => req[t].busy /\ req'[t] = req[t]
      BY <2>2
    <3> QED
      BY <2>1, <3>1, <3>2, <3>3 DEF InMemory
  <2> QED
    BY <2>1, <2>2, <2>3, <2>4, <2>5 DEF RuleInv, LoadIsClean
<1>9. CASE Restart
  <2>1. SeedsAreUsed'
    BY <1>9 DEF Restart, SeedsAreUsed, DistinctKeys
  <2>2. WrittenSoon'
    BY <1>9 DEF Restart, WrittenSoon, Idle
  <2> QED
    BY <1>9, <2>1, <2>2 DEF Restart, RuleInv, LoadIsClean, TableFollows
<1>10. CASE UNCHANGED vars
  BY <1>0, <1>10 DEF vars, RuleInv, LoadIsClean, SeedsAreUsed, TableFollows, WrittenSoon,
                     InMemory, Busy
<1> QED
  BY <1>1, <1>2, <1>3, <1>4, <1>5, <1>6, <1>7, <1>8, <1>9, <1>10 DEF Next

\* A key whose requests did not overlap and none of whose statements failed is
\* the same in the manager and in the table whenever no request on it is under
\* way.
THEOREM CleanKeysCorrect == Spec => []CleanKeysAgree
<1>1. RuleInv => CleanKeysAgree
  <2> SUFFICES ASSUME RuleInv, phase = "run", NEW k \in Keys \ dirty, ~Busy(k)
               PROVE  InMemory(k) = db[k]
    BY DEF CleanKeysAgree
  <2>1. ~Has(todo, k)
    BY DEF RuleInv, SeedsAreUsed, Has
  <2> QED
    BY <2>1 DEF RuleInv, TableFollows
<1> QED
  BY TypeInit, TypeStep, RuleInit, RuleStep, <1>1, PTL DEF Spec

(***************************************************************************)
(* The registry.                                                           *)
(***************************************************************************)

InUse == [k \in Keys |-> IF phase = "load" THEN db[k] ELSE InMemory(k)]

Open == dirty \cup {k \in Keys : Busy(k)} \cup {todo[i].key : i \in DOMAIN todo}

LEMMA RegistryVars ==
  /\ Registry!vars = <<InUse, Open>>
  /\ Registry!vars' = <<InUse', Open'>>
BY DEF Registry!vars, InUse, Open

\* A key is open when it is dirty, or has a request, or is to be seeded.
LEMMA OpenKeys ==
  /\ \A k : k \in Open <=> k \in dirty \/ (k \in Keys /\ Busy(k)) \/ Has(todo, k)
  /\ \A k : k \in Open' <=> k \in dirty' \/ (k \in Keys /\ Busy(k)') \/ Has(todo', k)
BY DEF Open, Has

\* The values of the keys in use.
LEMMA ValuesInUse == TypeInv => InUse \in [Keys -> Values \cup {NoRule}]
<1> SUFFICES ASSUME TypeInv
             PROVE  InUse \in [Keys -> Values \cup {NoRule}]
  OBVIOUS
<1>1. \A k \in Keys : InMemory(k) \in Values \cup {NoRule} /\ db[k] \in Values \cup {NoRule}
  BY ValueType DEF TypeInv, TypeOK, InMemory
<1> QED
  BY <1>1 DEF InUse

LEMMA NextValuesInUse == TypeInv' => (InUse \in [Keys -> Values \cup {NoRule}])'
BY ValuesInUse, PTL

LEMMA ValuesInUseNext ==
  InUse' = [k \in Keys |-> IF phase' = "load" THEN db'[k] ELSE ValueIn(mem', k, NoRule)]
BY DEF InUse, InMemory

Forced == IF AlertLatency = NoRule THEN {} ELSE {LatencyAll}

\* The steps of the registry, in terms of InUse and Open.
LEMMA RegistrySteps ==
  /\ Registry!Init <=> InUse = [k \in Keys |-> NoRule] /\ Open = {}
  /\ \A k, v : Registry!Request(k, v) <=> /\ InUse' = [InUse EXCEPT ![k] = v]
                                          /\ Open' = Open \cup {k}
  /\ \A k : Registry!Settle(k) <=> InUse' = InUse /\ Open' = Open \ {k}
  /\ Registry!Recover <=> /\ InUse' \in [Keys -> Values \cup {NoRule}]
                          /\ \A k \in Keys \ Open : InUse'[k] = InUse[k]
                          /\ Open' = {}
  /\ Registry!Fill <=> /\ InUse = [k \in Keys |-> NoRule] \/ "load" \in Fallible
                       /\ InUse' = [k \in Keys |-> DefaultOf(k)]
                       /\ Open' = {k \in Keys : InUse[k] # NoRule
                                     \/ [h \in Keys |-> DefaultOf(h)][k] # NoRule}
BY DEF Registry!Init, Registry!Empty, Registry!Request, Registry!Settle, Registry!Recover,
       Registry!Fill, InUse, Open

\* The keys with a value in use.
Held == {k \in Keys : InUse[k] # NoRule}

LEMMA RegistryLose ==
  Registry!Lose <=>
    /\ "load" \in Fallible
    /\ \E lost \in SUBSET Held :
         /\ lost # Held
         /\ InUse' = [k \in Keys |-> IF k \in lost THEN NoRule ELSE InUse[k]]
         /\ Open' = Open \cup lost
BY DEF Registry!Lose, InUse, Open, Held

LEMMA RegistryForce ==
  \A k : Registry!Force(k) <=>
    /\ InUse' = [InUse EXCEPT ![k] = [h \in Keys |-> DefaultOf(h)][k]]
    /\ Open' \in {Open, Open \cup {k}}
BY DEF Registry!Force, InUse, Open

LEMMA RegistryNext ==
  Registry!Next <=>
    \/ \E k \in Keys : Registry!Settle(k) \/ \E v \in Values \cup {NoRule} : Registry!Request(k, v)
    \/ \E k \in Forced : Registry!Force(k)
    \/ Registry!Recover
    \/ Registry!Fill
    \/ Registry!Lose
BY DEF Registry!Next, Forced

LEMMA RegistryInit == Init => Registry!Init
<1> SUFFICES ASSUME Init
             PROVE  Registry!Init
  OBVIOUS
<1>1. InUse = [k \in Keys |-> NoRule]
  BY DEF Init, InUse
<1>2. Open = {}
  BY DEF Init, Open, Busy, Idle
<1> QED
  BY <1>1, <1>2, RegistrySteps

\* A start that finds no rule, or cannot read them, fills the registry.
LEMMA EmptyLoadFills ==
  ASSUME RuleInv, phase = "load", AfterLoad(<<>>), req' = req, db' = db,
         (\A k \in Keys : db[k] = NoRule) \/ "load" \in Fallible,
         dirty' = {k \in Keys : db[k] # NoRule}
  PROVE  Registry!Fill
<1>1. /\ mem' = Defaults /\ todo' = Defaults /\ phase' = "seed"
      /\ \A k \in Keys : Has(Defaults, k) <=> DefaultOf(k) # NoRule
      /\ \A k : ValueIn(Defaults, k, NoRule) = DefaultOf(k)
  BY AfterLoadEmpty, DefaultsAreRules DEF DefaultOf
<1>2. InUse = [k \in Keys |-> db[k]]
  BY DEF InUse
<1>3. InUse' = [k \in Keys |-> DefaultOf(k)]
  BY <1>1, ValuesInUseNext
<1>4. \A k : ~Busy(k)'
  <2>1. \A k : ~Busy(k)
    BY NoneBusy DEF RuleInv
  <2> QED
    BY <2>1 DEF Busy
<1>5. \A k : Has(Defaults, k) => k \in Keys
  BY DefaultsAreRules, KeysOfRules
<1>6. Open' = {k \in Keys : InUse[k] # NoRule \/ [h \in Keys |-> DefaultOf(h)][k] # NoRule}
  <2>1. \A k : k \in Open' <=> k \in Keys /\ (db[k] # NoRule \/ DefaultOf(k) # NoRule)
    BY <1>1, <1>4, <1>5, OpenKeys
  <2> QED
    BY <1>2, <2>1
<1>7. InUse = [k \in Keys |-> NoRule] \/ "load" \in Fallible
  BY <1>2
<1> QED
  BY <1>3, <1>6, <1>7, RegistrySteps

\* One that could read some of them loses the others.
LEMMA PartLoadLoses ==
  ASSUME RuleInv, phase = "load", req' = req, "load" \in Fallible,
         NEW loaded, loaded # <<>>, AfterLoad(loaded),
         \A k : Has(loaded, k) =>
           k \in Keys /\ db[k] \in Values /\ ValueIn(loaded, k, NoRule) = db[k],
         dirty' = {k \in Keys : db[k] # NoRule /\ ~Has(loaded, k)},
         loaded \in Seq(Rule)
  PROVE  Registry!Lose
<1> DEFINE lost == {k \in Keys : db[k] # NoRule /\ ~Has(loaded, k)}
<1>1. mem' = loaded /\ todo' = <<>> /\ phase' # "load"
  BY AfterLoadSome
<1>2. InUse = [k \in Keys |-> db[k]] /\ Held = {k \in Keys : db[k] # NoRule}
  BY DEF InUse, Held
<1>3. lost \in SUBSET Held /\ lost # Held
  <2>1. 1 \in DOMAIN loaded
    BY EmptySeq
  <2>2. Has(loaded, loaded[1].key)
    BY <2>1 DEF Has
  <2>3. loaded[1].key \in Held /\ loaded[1].key \notin lost
    BY <1>2, <2>2, ValuesAssumption
  <2> QED
    BY <1>2, <2>3
<1>4. ASSUME NEW k \in Keys
      PROVE  ValueIn(loaded, k, NoRule) = IF k \in lost THEN NoRule ELSE db[k]
  <2>1. CASE Has(loaded, k)
    BY <2>1
  <2>2. CASE ~Has(loaded, k)
    BY <2>2, ValueOfNone
  <2> QED
    BY <2>1, <2>2
<1>5. InUse' = [k \in Keys |-> IF k \in lost THEN NoRule ELSE InUse[k]]
  <2> HIDE DEF lost
  <2>1. InUse' = [k \in Keys |-> ValueIn(loaded, k, NoRule)]
    BY <1>1, ValuesInUseNext
  <2> QED
    BY <1>2, <1>4, <2>1
<1>6. Open' = Open \cup lost
  <2>1. \A k : ~Busy(k) /\ ~Busy(k)'
    BY NoneBusy DEF RuleInv, Busy
  <2>2. dirty = {} /\ todo = <<>>
    BY DEF RuleInv, LoadIsClean, SeedsAreUsed
  <2>3. \A k : ~Has(todo, k) /\ ~Has(todo', k)
    BY <1>1, <2>2 DEF Has
  <2> QED
    BY <2>1, <2>2, <2>3, OpenKeys
<1> HIDE DEF lost
<1> QED
  BY <1>3, <1>5, <1>6, RegistryLose

LEMMA RegistryStep ==
  RuleInv /\ RuleInv' /\ [Next]_vars => [Registry!Next]_(Registry!vars)
<1> SUFFICES ASSUME RuleInv, RuleInv', [Next]_vars
             PROVE  [Registry!Next]_(Registry!vars)
  OBVIOUS
<1>0. /\ TypeInv /\ LoadIsClean /\ SeedsAreUsed /\ TableFollows /\ WrittenSoon
      /\ todo \in Seq(Rule) /\ DistinctKeys(todo) /\ dirty \subseteq Keys
      /\ db \in [Keys -> Values \cup {NoRule}]
  BY DEF RuleInv, SeedsAreUsed, TypeInv, TypeOK
<1>t. InUse' \in [Keys -> Values \cup {NoRule}]
  <2>1. TypeInv'
    BY DEF RuleInv
  <2> QED
    BY <2>1, NextValuesInUse
<1>s. ASSUME InUse' = InUse, Open' = Open
      PROVE  UNCHANGED Registry!vars
  BY <1>s, RegistryVars
<1>u. ASSUME mem' = mem, phase # "load", phase' # "load"
      PROVE  InUse' = InUse
  BY <1>u, ValuesInUseNext DEF InUse, InMemory
<1>1. CASE Load
  <2>1. CASE Stored # <<>>
    <3>1. /\ \A k \in Keys : InMemory(k)' = db[k]
          /\ todo' = <<>> /\ phase' # "load"
      BY <1>0, <1>1, <2>1, AfterLoadStored DEF Load
    <3>2. InUse' = InUse
      BY <1>1, <3>1, ValuesInUseNext DEF Load, InUse, InMemory
    <3>3. \A k : ~Busy(k) /\ ~Busy(k)'
      BY <1>0, <1>1, NoneBusy DEF Load, Busy
    <3>4. dirty = {} /\ dirty' = {} /\ todo = <<>>
      BY <1>0, <1>1 DEF Load, LoadIsClean, SeedsAreUsed
    <3>5. Open' = Open
      BY <3>1, <3>3, <3>4, OpenKeys DEF Has
    <3> QED
      BY <1>s, <3>2, <3>5
  <2>2. CASE Stored = <<>>
    <3>1. /\ \A k \in Keys : db[k] = NoRule
          /\ dirty' = {k \in Keys : db[k] # NoRule}
      BY <1>0, <1>1, <2>2, NothingStored DEF Load, LoadIsClean
    <3> QED
      BY <1>1, <2>2, <3>1, EmptyLoadFills, RegistryNext DEF Load
  <2> QED
    BY <2>1, <2>2
<1>2. CASE LoadFails
  <2>1. PICK loaded \in Seq(Rule) :
          /\ AfterLoad(loaded)
          /\ \A k : Has(loaded, k) =>
               k \in Keys /\ db[k] \in Values /\ ValueIn(loaded, k, NoRule) = db[k]
          /\ dirty' = dirty \cup {k \in Keys : db[k] # NoRule /\ ~Has(loaded, k)}
    BY <1>0, <1>2, LoadFailsLoads
  <2>2. /\ phase = "load" /\ req' = req /\ db' = db /\ dirty = {} /\ "load" \in Fallible
    BY <1>0, <1>2 DEF LoadFails, LoadIsClean, Fault
  <2>3. CASE loaded = <<>>
    <3>1. dirty' = {k \in Keys : db[k] # NoRule}
      BY <2>1, <2>2, <2>3 DEF Has
    <3> QED
      BY <2>1, <2>2, <2>3, <3>1, EmptyLoadFills, RegistryNext
  <2>4. CASE loaded # <<>>
    <3>1. dirty' = {k \in Keys : db[k] # NoRule /\ ~Has(loaded, k)}
      BY <2>1, <2>2
    <3> QED
      BY <2>1, <2>2, <2>4, <3>1, PartLoadLoses, RegistryNext
  <2> QED
    BY <2>3, <2>4
<1>3. CASE SeedRule
  <2>1. /\ todo # <<>> /\ todo' = Tail(todo) /\ mem' = mem /\ dirty' = dirty /\ req' = req
        /\ phase = "seed" /\ phase' = "seed"
    BY <1>3 DEF SeedRule
  <2> DEFINE k == Head(todo).key
  <2>2. InUse' = InUse
    BY <1>u, <2>1
  <2>3. \A h : ~Busy(h) /\ ~Busy(h)'
    BY <1>0, <2>1, NoneBusy DEF Busy
  <2>4. k \in Keys /\ \A h : Has(todo', h) <=> Has(todo, h) /\ h # k
    BY <1>0, <2>1, RestOfList DEF Rule
  <2> HIDE DEF k
  <2>5. CASE k \in dirty
    <3>1. Open' = Open
      BY <2>1, <2>3, <2>4, <2>5, OpenKeys
    <3> QED
      BY <1>s, <2>2, <3>1
  <2>6. CASE k \notin dirty
    <3>1. Open' = Open \ {k}
      BY <2>1, <2>3, <2>4, <2>6, OpenKeys
    <3> QED
      BY <2>2, <2>4, <3>1, RegistrySteps, RegistryNext
  <2> QED
    BY <2>5, <2>6
<1>4. CASE SeedFails
  <2>1. /\ todo # <<>> /\ todo' = Tail(todo) /\ mem' = mem /\ req' = req
        /\ phase = "seed" /\ phase' = "seed" /\ dirty' = dirty \cup {Head(todo).key}
    BY <1>4 DEF SeedFails
  <2>2. InUse' = InUse
    BY <1>u, <2>1
  <2>3. \A h : ~Busy(h) /\ ~Busy(h)'
    BY <1>0, <2>1, NoneBusy DEF Busy
  <2>4. /\ \A h : Has(todo', h) <=> Has(todo, h) /\ h # Head(todo).key
        /\ Has(todo, Head(todo).key)
    <3>1. /\ \E i \in DOMAIN todo : Head(todo) = todo[i]
          /\ \A h : Has(Tail(todo), h) <=> Has(todo, h) /\ h # Head(todo).key
      BY <1>0, <2>1, RestOfList
    <3>2. Has(todo, Head(todo).key)
      BY <3>1 DEF Has
    <3> QED
      BY <2>1, <3>1, <3>2
  <2>5. Open' = Open
    BY <2>1, <2>3, <2>4, OpenKeys
  <2> QED
    BY <1>s, <2>2, <2>5
<1>5. CASE Seeded
  <2>1. /\ phase = "seed" /\ phase' = "run" /\ UNCHANGED <<mem, todo, req, dirty>>
    BY <1>5 DEF Seeded
  <2>2. Open' = Open
    BY <2>1 DEF Open, Busy
  <2> QED
    BY <1>s, <1>u, <2>1, <2>2
<1>6. CASE OverrideLatency
  <2>1. /\ phase = "override" /\ phase' = "run" /\ req' = req /\ todo' = todo
        /\ mem' = WithRule(mem, RuleFor(LatencyAll, AlertLatency))
        /\ \/ dirty' = dirty
           \/ dirty' = dirty \cup {LatencyAll}
    BY <1>6 DEF OverrideLatency
  <2>2. LatencyAll \in Keys /\ AlertLatency # NoRule /\ AlertLatency \in Values
    BY <1>0, <2>1, KeysAssumption, ValuesAssumption DEF TypeInv, OverrideHasValue
  <2>3. /\ ValueIn(mem', LatencyAll, NoRule) = AlertLatency
        /\ \A k : k # LatencyAll => ValueIn(mem', k, NoRule) = InMemory(k)
    <3>1. /\ RuleFor(LatencyAll, AlertLatency) \in Rule
          /\ RuleFor(LatencyAll, AlertLatency).key = LatencyAll
          /\ RuleFor(LatencyAll, AlertLatency).value = AlertLatency
      BY <2>2 DEF RuleFor, Rule
    <3> QED
      BY <1>0, <2>1, <3>1, SetOne DEF TypeInv, TypeOK, OneRulePerKey, InMemory
  <2>4. InUse' = [InUse EXCEPT ![LatencyAll] = [h \in Keys |-> DefaultOf(h)][LatencyAll]]
    <3>1. [h \in Keys |-> DefaultOf(h)][LatencyAll] = AlertLatency
      BY <2>2, DefaultsAreRules
    <3>2. InUse = [k \in Keys |-> InMemory(k)]
      BY <2>1 DEF InUse
    <3>3. InUse' = [k \in Keys |-> ValueIn(mem', k, NoRule)]
      BY <2>1, ValuesInUseNext
    <3> QED
      BY <2>2, <2>3, <3>1, <3>2, <3>3
  <2>5. Open' \in {Open, Open \cup {LatencyAll}}
    BY <2>1 DEF Open, Busy
  <2> QED
    BY <2>2, <2>4, <2>5, RegistryForce, RegistryNext DEF Forced
<1>7. ASSUME NEW r \in Requests, NEW k \in Keys,
             DeleteRule(r, k) \/ \E v \in Values : SetRule(r, k, v)
      PROVE  Registry!Next
  <2>1. PICK v \in Values \cup {NoRule} : Edit(r, k, v)
    BY <1>0, <1>7, RequestsEdit
  <2>2. /\ phase = "run" /\ phase' = "run" /\ todo' = todo
        /\ req' = [req EXCEPT ![r] = Save(k, v)] /\ ~req[r].busy
        /\ dirty' = IF Busy(k) THEN dirty \cup {k} ELSE dirty \ {k}
        /\ ValueIn(mem', k, NoRule) = v
        /\ \A h : h # k => ValueIn(mem', h, NoRule) = InMemory(h)
    BY <2>1 DEF Edit, Begin, InMemory
  <2>3. InUse' = [InUse EXCEPT ![k] = v]
    <3>1. InUse = [h \in Keys |-> InMemory(h)]
      BY <2>2 DEF InUse
    <3>2. InUse' = [h \in Keys |-> ValueIn(mem', h, NoRule)]
      BY <2>2, ValuesInUseNext
    <3> QED
      BY <2>2, <3>1, <3>2
  <2>4. Busy(k)' /\ \A h : h # k => (Busy(h)' <=> Busy(h))
    BY <1>0, <2>2 DEF Busy, Save, TypeInv, TypeOK
  <2>5. Open' = Open \cup {k}
    BY <2>2, <2>4, OpenKeys
  <2> QED
    BY <2>3, <2>5, RegistrySteps, RegistryNext
<1>8. ASSUME NEW r \in Requests, WriteRule(r)
      PROVE  [Registry!Next]_(Registry!vars)
  <2> PICK k : k = req[r].key
    OBVIOUS
  <2>1. /\ req[r].busy /\ req' = [req EXCEPT ![r] = Idle]
        /\ mem' = mem /\ phase' = phase /\ todo' = todo /\ dirty' = dirty
    BY <1>8 DEF WriteRule
  <2>2. /\ phase = "run" /\ k \in Keys
        /\ \A h : h # k => (Busy(h)' <=> Busy(h))
    BY <1>0, <2>1, RequestEnds
  <2>3. Busy(k)
    BY <2>1 DEF Busy
  <2>4. InUse' = InUse
    BY <1>u, <2>1, <2>2
  <2>5. todo = <<>>
    BY <1>0, <2>2 DEF SeedsAreUsed
  <2>6. CASE Busy(k)' \/ k \in dirty
    <3>1. Open' = Open
      BY <2>1, <2>2, <2>3, <2>6, OpenKeys
    <3> QED
      BY <1>s, <2>4, <3>1
  <2>7. CASE ~Busy(k)' /\ k \notin dirty
    <3>1. Open' = Open \ {k}
      BY <2>1, <2>2, <2>3, <2>5, <2>7, OpenKeys DEF Has
    <3> QED
      BY <2>2, <2>4, <3>1, RegistrySteps, RegistryNext
  <2> QED
    BY <2>6, <2>7
<1>9. ASSUME NEW r \in Requests, WriteFails(r)
      PROVE  [Registry!Next]_(Registry!vars)
  <2> PICK k : k = req[r].key
    OBVIOUS
  <2>1. /\ req[r].busy /\ req' = [req EXCEPT ![r] = Idle]
        /\ mem' = mem /\ phase' = phase /\ todo' = todo /\ dirty' = dirty \cup {k}
    BY <1>9 DEF WriteFails
  <2>2. /\ phase = "run" /\ k \in Keys
        /\ \A h : h # k => (Busy(h)' <=> Busy(h))
    BY <1>0, <2>1, RequestEnds
  <2>3. Busy(k)
    BY <2>1 DEF Busy
  <2>4. InUse' = InUse
    BY <1>u, <2>1, <2>2
  <2>5. Open' = Open
    BY <2>1, <2>2, <2>3, OpenKeys
  <2> QED
    BY <1>s, <2>4, <2>5
<1>10. CASE Restart
  <2>1. /\ phase' = "load" /\ todo' = <<>> /\ dirty' = {} /\ db' = db
        /\ \A k : ~Busy(k)'
    BY <1>10 DEF Restart, Busy, Idle
  <2>2. Open' = {}
    BY <2>1, OpenKeys DEF Has
  <2>3. InUse' = [k \in Keys |-> db[k]]
    BY <2>1, ValuesInUseNext
  <2>4. ASSUME NEW k \in Keys \ Open
        PROVE  InUse'[k] = InUse[k]
    <3>1. k \notin dirty /\ ~Busy(k) /\ ~Has(todo, k)
      BY <2>4, OpenKeys
    <3> QED
      BY <1>0, <2>3, <3>1 DEF InUse, TableFollows
  <2> QED
    BY <1>t, <2>2, <2>4, RegistrySteps, RegistryNext
<1>11. CASE UNCHANGED vars
  <2>1. InUse' = InUse
    BY <1>11, ValuesInUseNext DEF vars, InUse, InMemory
  <2>2. Open' = Open
    BY <1>11 DEF vars, Open, Busy
  <2> QED
    BY <1>s, <2>1, <2>2
<1> QED
  BY <1>1, <1>2, <1>3, <1>4, <1>5, <1>6, <1>7, <1>8, <1>9, <1>10, <1>11 DEF Next

\* Loading, seeding, overriding, requests of two steps, their failures and
\* restarts are steps of a registry of one value per key, which loses nothing
\* but what a failed or overlapping request left open, or a start could not read.
THEOREM RegistryCorrect == Spec => ImplementsRegistry
BY RegistryInit, RegistryStep, TypeInit, TypeStep, RuleInit, RuleStep, PTL
  DEF Spec, ImplementsRegistry, Registry!Spec
===============================================================================
