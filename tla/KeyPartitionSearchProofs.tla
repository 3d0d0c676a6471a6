---------------------- MODULE KeyPartitionSearchProofs ----------------------
(***************************************************************************)
(* Proofs about the division of the keys: the search of KeyPartitionSearch *)
(* finds a best one, although it leaves out the buckets that look like an  *)
(* earlier one.                                                            *)
(*                                                                         *)
(* The inductive invariant follows the search in the order of placings in  *)
(* which it tries them: what lies before its position is not better than   *)
(* the best it has seen.  A bucket left out is a placing that differs from *)
(* an earlier one only by the exchange of two buckets, and a score does    *)
(* not depend on the order of the buckets.                                 *)
(***************************************************************************)
EXTENDS KeyPartitionSearch, KeyPartitionProofs

\* The placings of all keys that the capacities admit.
Placings ==
  {p \in [Names -> Buckets] : \A g \in Buckets : Cardinality(KeysOf(p, g)) <= Capacities[g]}

PlacingTotals(p) == Totals(p, GroupCount(Names, size), amount)

Partitions == [Buckets -> [keys : SUBSET Names, total : Nat]]

SearchTypeOK ==
  /\ amount \in [Names -> 1..MaxAmount]
  /\ size \in 1..MaxSize
  /\ buckets \in Partitions
  /\ keyIndex \in 1..(KeyCount + 1)
  /\ groupIndex \in [1..(KeyCount + 1) -> 1..(GroupCount(Names, size) + 1)]
  /\ best # <<>> => best \in Partitions

\* Every call on the stack has put its key into the bucket where its loop stands.
BucketsHoldPlaced ==
  /\ \A k \in 1..(keyIndex - 1) : groupIndex[k] \in Buckets
  /\ \A g \in Buckets :
       /\ buckets[g].keys = {k \in 1..(keyIndex - 1) : groupIndex[k] = g}
       /\ buckets[g].total = SumOver(buckets[g].keys, amount)
       /\ Cardinality(buckets[g].keys) <= Capacities[g]

\* The buckets of a placing.
BucketsOf(p) == [g \in Buckets |-> [keys |-> KeysOf(p, g), total |-> PlacingTotals(p)[g]]]

BestIsPlacing == best # <<>> => \E p \in Placings : best = BucketsOf(p)

\* The loops have gone past p: it agrees with the calls before some call, and there
\* it takes a bucket that the loop has left behind.
Passed(p) ==
  \E k \in Names :
    /\ k <= keyIndex
    /\ \A j \in 1..(k - 1) : p[j] = groupIndex[j]
    /\ p[k] < groupIndex[k]

BestOfPassed ==
  \A p \in Placings :
    Passed(p) => best # <<>> /\ ~Better(PlacingTotals(p), BucketTotals(best))

SearchInv ==
  SearchTypeOK /\ BucketsHoldPlaced /\ BestIsPlacing /\ BestOfPassed /\ SearchIsOptimal

----------------------------------------------------------------------------
(* Keys, buckets and capacities.                                            *)

LEMMA CountType ==
  ASSUME NEW s \in 1..MaxSize
  PROVE  /\ IsFiniteSet(Names) /\ Cardinality(Names) = KeyCount
         /\ GroupCount(Names, s) \in Nat \ {0}
<1>1. IsFiniteSet(Names) /\ Cardinality(Names) = KeyCount
  BY SearchAssumption, IntervalSize DEF Names
<1> DEFINE n == GroupCount(Names, s)
<1>2. n = (KeyCount + s - 1) \div s
  BY <1>1 DEF GroupCount
<1> HIDE DEF n
<1>3. n \in Int /\ n * s <= KeyCount + s - 1 /\ KeyCount + s - 1 < n * s + s
  BY <1>2, SearchAssumption
<1>4. n * s > 0
  BY <1>3, SearchAssumption
<1>5. n >= 1
  BY <1>3, <1>4
<1> QED BY <1>1, <1>3, <1>5 DEF n

LEMMA BucketCount ==
  ASSUME SearchTypeOK
  PROVE  /\ IsFiniteSet(Names) /\ Cardinality(Names) = KeyCount /\ KeyCount \in Nat \ {0}
         /\ GroupCount(Names, size) \in Nat \ {0}
         /\ Capacities = EvenSizes(KeyCount, GroupCount(Names, size))
         /\ \A g \in Buckets : Capacities[g] \in Nat
<1>1. /\ IsFiniteSet(Names) /\ Cardinality(Names) = KeyCount
      /\ GroupCount(Names, size) \in Nat \ {0}
  BY CountType DEF SearchTypeOK
<1>2. Capacities = EvenSizes(KeyCount, GroupCount(Names, size))
  BY DEF Capacities, EvenSizes
<1>3. \A g \in Buckets : Capacities[g] \in Nat
  BY <1>1, <1>2, SearchAssumption, EvenSizesAddUp DEF Buckets
<1> QED BY <1>1, <1>2, <1>3, SearchAssumption

LEMMA AmountType ==
  ASSUME SearchTypeOK
  PROVE  \A k \in Names : amount[k] \in Nat
BY SearchAssumption DEF SearchTypeOK

\* A step that leaves the input alone leaves what it determines alone.
LEMMA SameInput ==
  ASSUME amount' = amount, size' = size
  PROVE  /\ Buckets' = Buckets /\ Capacities' = Capacities /\ Placings' = Placings
         /\ Partitions' = Partitions
         /\ \A p : PlacingTotals(p)' = PlacingTotals(p) /\ BucketsOf(p)' = BucketsOf(p)
BY DEF Buckets, Capacities, Placings, Partitions, PlacingTotals, BucketsOf

LEMMA NextKeepsInput ==
  ASSUME [Next]_searchVars
  PROVE  amount' = amount /\ size' = size
BY DEF Next, searchVars, PlaceKey, SkipBucket, ScorePartition, LoopEnds, OrderGroups

LEMMA PlacingType ==
  ASSUME SearchTypeOK, NEW p \in [Names -> Buckets]
  PROVE  /\ PlacingTotals(p) \in [Buckets -> Nat]
         /\ \A g \in Buckets : /\ KeysOf(p, g) \in SUBSET Names
                               /\ PlacingTotals(p)[g] = SumOver(KeysOf(p, g), amount)
<1>1. p \in [Names -> 1..GroupCount(Names, size)]
  BY DEF Buckets
<1>2. /\ PlacingTotals(p) \in [Buckets -> Nat]
      /\ \A g \in Buckets : PlacingTotals(p)[g] = SumOver(KeysOf(p, g), amount)
  BY <1>1, BucketCount, AmountType, TotalsType DEF PlacingTotals, Buckets
<1> QED BY <1>2 DEF KeysOf

----------------------------------------------------------------------------
(* Types, and what the buckets hold.                                        *)

LEMMA SearchInit == Init => SearchInv
<1> SUFFICES ASSUME Init PROVE SearchInv
  OBVIOUS
<1>1. GroupCount(Names, size) \in Nat \ {0}
  BY CountType DEF Init
<1>2. SearchTypeOK
  BY <1>1, SearchAssumption DEF Init, SearchTypeOK, Partitions, Buckets
<1>3. BucketsHoldPlaced
  <2>1. ASSUME NEW g \in Buckets
        PROVE  /\ buckets[g].keys = {} /\ buckets[g].total = 0
               /\ Cardinality(buckets[g].keys) <= Capacities[g]
    <3>1. buckets[g].keys = {} /\ buckets[g].total = 0
      BY DEF Init
    <3>2. Cardinality({}) = 0 /\ Capacities[g] \in Nat
      BY <1>2, FS_EmptySet, BucketCount
    <3> QED BY <3>1, <3>2
  <2>2. keyIndex = 1
    BY DEF Init
  <2>3. 1..(keyIndex - 1) = {}
    BY <2>2
  <2> QED BY <2>1, <2>3, SumOfNone DEF BucketsHoldPlaced
<1>4. BestIsPlacing /\ SearchIsOptimal
  BY DEF Init, BestIsPlacing, SearchIsOptimal
<1>5. BestOfPassed
  <2>1. ASSUME NEW p \in Placings PROVE ~Passed(p)
    <3>1. \A k \in Names : groupIndex[k] = 1 /\ p[k] \in 1..GroupCount(Names, size)
      BY SearchAssumption DEF Init, Names, Placings, Buckets
    <3> QED BY <1>1, <3>1 DEF Passed
  <2> QED BY <2>1 DEF BestOfPassed
<1> QED BY <1>2, <1>3, <1>4, <1>5 DEF SearchInv

\* What a call puts into a bucket, and what its caller takes back.
LEMMA PutType ==
  ASSUME SearchTypeOK, BucketsHoldPlaced, NEW g \in Buckets, NEW k \in Names,
         k \notin buckets[g].keys
  PROVE  /\ Put(buckets[g], k) \in [keys : SUBSET Names, total : Nat]
         /\ Put(buckets[g], k).keys = buckets[g].keys \cup {k}
         /\ Put(buckets[g], k).total = SumOver(buckets[g].keys \cup {k}, amount)
         /\ Cardinality(buckets[g].keys \cup {k}) = Cardinality(buckets[g].keys) + 1
<1>1. buckets[g].keys \in SUBSET Names /\ buckets[g].total \in Nat /\ amount[k] \in Nat
  BY AmountType DEF SearchTypeOK, Partitions
<1>2. IsFiniteSet(buckets[g].keys)
  BY <1>1, BucketCount, FS_Subset
<1>3. SumOver(buckets[g].keys \cup {k}, amount) = SumOver(buckets[g].keys, amount) + amount[k]
  BY <1>1, <1>2, AmountType, SumAdds
<1>4. SumOver(buckets[g].keys, amount) = buckets[g].total
  BY DEF BucketsHoldPlaced
<1>5. Cardinality(buckets[g].keys \cup {k}) = Cardinality(buckets[g].keys) + 1
  BY <1>2, FS_AddElement
<1> QED BY <1>1, <1>3, <1>4, <1>5 DEF Put

LEMMA TakeBackType ==
  ASSUME SearchTypeOK, BucketsHoldPlaced, NEW g \in Buckets, NEW k \in buckets[g].keys
  PROVE  /\ TakeBack(buckets[g], k) \in [keys : SUBSET Names, total : Nat]
         /\ TakeBack(buckets[g], k).keys = buckets[g].keys \ {k}
         /\ TakeBack(buckets[g], k).total = SumOver(buckets[g].keys \ {k}, amount)
         /\ Cardinality(buckets[g].keys \ {k}) <= Cardinality(buckets[g].keys)
<1> DEFINE rest == buckets[g].keys \ {k}
<1>1. /\ buckets[g].keys \in SUBSET Names /\ buckets[g].total \in Nat
      /\ k \in Names /\ amount[k] \in Nat
  BY AmountType DEF SearchTypeOK, Partitions
<1>2. IsFiniteSet(buckets[g].keys)
  BY <1>1, BucketCount, FS_Subset
<1>3. IsFiniteSet(rest) /\ Cardinality(rest) <= Cardinality(buckets[g].keys)
  BY <1>2, FS_Subset
<1>4. SumOver(rest, amount) \in Nat
  BY <1>1, <1>3, AmountType, SumIsNat
<1>5. SumOver(rest \cup {k}, amount) = SumOver(rest, amount) + amount[k]
  BY <1>1, <1>3, AmountType, SumAdds
<1>6. rest \cup {k} = buckets[g].keys
  OBVIOUS
<1>7. SumOver(buckets[g].keys, amount) = buckets[g].total
  BY DEF BucketsHoldPlaced
<1>8. buckets[g].total - amount[k] = SumOver(rest, amount)
  <2> HIDE DEF rest
  <2>1. buckets[g].total = SumOver(rest, amount) + amount[k]
    BY <1>5, <1>6, <1>7
  <2> QED BY <1>1, <1>4, <2>1
<1> QED BY <1>1, <1>3, <1>4, <1>8 DEF TakeBack

LEMMA PlaceKeyType ==
  ASSUME SearchTypeOK, BucketsHoldPlaced, PlaceKey
  PROVE  SearchTypeOK' /\ BucketsHoldPlaced'
<1> DEFINE n == GroupCount(Names, size)
           g == groupIndex[keyIndex]
<1>1. /\ keyIndex \in Names /\ g \in Buckets /\ ~Full(g)
      /\ buckets' = [buckets EXCEPT ![g] = Put(buckets[g], keyIndex)]
      /\ keyIndex' = keyIndex + 1
      /\ groupIndex' = [groupIndex EXCEPT ![keyIndex + 1] = 1]
      /\ UNCHANGED <<amount, size, best, groups>>
  BY DEF PlaceKey, AtBucket
<1>2. n \in Nat \ {0} /\ KeyCount \in Nat \ {0} /\ n' = n
  BY <1>1, BucketCount
<1>3. Buckets' = Buckets /\ Partitions' = Partitions /\ Capacities' = Capacities
  BY <1>1, SameInput
<1>4. /\ keyIndex \in 1..KeyCount /\ keyIndex + 1 \in 1..(KeyCount + 1)
      /\ 1..(keyIndex' - 1) = (1..(keyIndex - 1)) \cup {keyIndex}
  BY <1>1, <1>2 DEF Names
<1>5. keyIndex \notin buckets[g].keys
  <2>1. buckets[g].keys = {k \in 1..(keyIndex - 1) : groupIndex[k] = g}
    BY <1>1 DEF BucketsHoldPlaced
  <2> QED BY <1>4, <2>1
<1>6. /\ Put(buckets[g], keyIndex) \in [keys : SUBSET Names, total : Nat]
      /\ Put(buckets[g], keyIndex).keys = buckets[g].keys \cup {keyIndex}
      /\ Put(buckets[g], keyIndex).total = SumOver(buckets[g].keys \cup {keyIndex}, amount)
      /\ Cardinality(buckets[g].keys \cup {keyIndex}) = Cardinality(buckets[g].keys) + 1
  BY <1>1, <1>5, PutType
<1>7. /\ groupIndex' \in [1..(KeyCount + 1) -> 1..(n + 1)]
      /\ \A k \in 1..keyIndex : groupIndex'[k] = groupIndex[k]
  BY <1>1, <1>2, <1>4 DEF SearchTypeOK
<1> HIDE DEF n, g
<1>8. SearchTypeOK'
  <2>1. buckets' \in Partitions
    BY <1>1, <1>6 DEF SearchTypeOK, Partitions
  <2> QED BY <1>1, <1>2, <1>3, <1>4, <1>7, <2>1 DEF SearchTypeOK, n
<1>9. \A k \in 1..(keyIndex' - 1) : groupIndex'[k] \in Buckets
  BY <1>1, <1>4, <1>7 DEF BucketsHoldPlaced, g
<1>10. ASSUME NEW h \in Buckets
       PROVE  /\ buckets'[h].keys = {k \in 1..(keyIndex' - 1) : groupIndex'[k] = h}
              /\ buckets'[h].total = SumOver(buckets'[h].keys, amount)
              /\ Cardinality(buckets'[h].keys) <= Capacities[h]
  <2>1. /\ buckets[h].keys = {k \in 1..(keyIndex - 1) : groupIndex[k] = h}
        /\ buckets[h].total = SumOver(buckets[h].keys, amount)
        /\ Cardinality(buckets[h].keys) <= Capacities[h]
    BY DEF BucketsHoldPlaced
  <2>2. {k \in 1..(keyIndex' - 1) : groupIndex'[k] = h}
          = buckets[h].keys \cup (IF h = g THEN {keyIndex} ELSE {})
    BY <1>4, <1>7, <2>1 DEF g
  <2>3. CASE h = g
    <3>1. buckets'[h] = Put(buckets[g], keyIndex)
      BY <1>1, <2>3 DEF SearchTypeOK, Partitions
    <3>2. Cardinality(buckets[g].keys) + 1 <= Capacities[g]
      <4>1. /\ IsFiniteSet(buckets[g].keys)
            /\ Capacities[g] \in Nat
        BY <1>1, BucketCount, FS_Subset DEF SearchTypeOK, Partitions
      <4>2. Cardinality(buckets[g].keys) \in Nat
        BY <4>1, FS_CardinalityType
      <4> QED BY <1>1, <4>1, <4>2 DEF Full
    <3> QED BY <1>6, <2>2, <2>3, <3>1, <3>2
  <2>4. CASE h # g
    <3>1. buckets'[h] = buckets[h]
      BY <1>1, <2>4 DEF SearchTypeOK, Partitions
    <3> QED BY <2>1, <2>2, <2>4, <3>1
  <2> QED BY <2>3, <2>4
<1>11. BucketsHoldPlaced'
  BY <1>1, <1>3, <1>9, <1>10 DEF BucketsHoldPlaced
<1> QED BY <1>8, <1>11

LEMMA SkipBucketType ==
  ASSUME SearchTypeOK, BucketsHoldPlaced, SkipBucket
  PROVE  SearchTypeOK' /\ BucketsHoldPlaced'
<1> DEFINE n == GroupCount(Names, size)
<1>1. /\ keyIndex \in Names /\ groupIndex[keyIndex] \in Buckets
      /\ groupIndex' = [groupIndex EXCEPT ![keyIndex] = groupIndex[keyIndex] + 1]
      /\ UNCHANGED <<amount, size, buckets, keyIndex, best, groups>>
  BY DEF SkipBucket, AtBucket
<1>2. n \in Nat \ {0} /\ KeyCount \in Nat \ {0} /\ n' = n
  BY <1>1, BucketCount
<1>3. Buckets' = Buckets /\ Partitions' = Partitions /\ Capacities' = Capacities
  BY <1>1, SameInput
<1> HIDE DEF n
<1>4. /\ groupIndex' \in [1..(KeyCount + 1) -> 1..(n + 1)]
      /\ \A k \in 1..(keyIndex - 1) : groupIndex'[k] = groupIndex[k]
  BY <1>1, <1>2 DEF SearchTypeOK, Names, Buckets, n
<1>5. SearchTypeOK'
  BY <1>1, <1>2, <1>3, <1>4 DEF SearchTypeOK, n
<1>6. \A g \in Buckets :
        {k \in 1..(keyIndex' - 1) : groupIndex'[k] = g}
          = {k \in 1..(keyIndex - 1) : groupIndex[k] = g}
  BY <1>1, <1>4
<1>7. BucketsHoldPlaced'
  BY <1>1, <1>3, <1>4, <1>6 DEF BucketsHoldPlaced
<1> QED BY <1>5, <1>7

LEMMA ReturnType ==
  ASSUME SearchTypeOK, BucketsHoldPlaced, keyIndex > 1, ReturnToCaller,
         UNCHANGED <<amount, size>>, best' # <<>> => best' \in Partitions
  PROVE  SearchTypeOK' /\ BucketsHoldPlaced'
<1> DEFINE n == GroupCount(Names, size)
           c == keyIndex - 1
           g == groupIndex[c]
<1>1. /\ buckets' = [buckets EXCEPT ![g] = TakeBack(buckets[g], c)]
      /\ keyIndex' = c
      /\ groupIndex' = [groupIndex EXCEPT ![c] = g + 1]
  BY DEF ReturnToCaller
<1>2. n \in Nat \ {0} /\ KeyCount \in Nat \ {0} /\ n' = n
  BY BucketCount
<1>3. Buckets' = Buckets /\ Partitions' = Partitions /\ Capacities' = Capacities
  BY SameInput
<1>4. /\ c \in 1..KeyCount /\ keyIndex = c + 1
      /\ 1..(keyIndex - 1) = (1..(c - 1)) \cup {c} /\ c \notin 1..(c - 1)
  BY <1>2 DEF SearchTypeOK
<1> HIDE DEF n, c, g
<1>5. g \in Buckets
  BY <1>4 DEF BucketsHoldPlaced, g
<1>6. c \in buckets[g].keys
  BY <1>4, <1>5 DEF BucketsHoldPlaced, g
<1>7. /\ TakeBack(buckets[g], c) \in [keys : SUBSET Names, total : Nat]
      /\ TakeBack(buckets[g], c).keys = buckets[g].keys \ {c}
      /\ TakeBack(buckets[g], c).total = SumOver(buckets[g].keys \ {c}, amount)
      /\ Cardinality(buckets[g].keys \ {c}) <= Cardinality(buckets[g].keys)
  BY <1>5, <1>6, TakeBackType
<1>8. /\ groupIndex' \in [1..(KeyCount + 1) -> 1..(n + 1)]
      /\ \A k \in 1..(c - 1) : groupIndex'[k] = groupIndex[k]
  BY <1>1, <1>2, <1>4, <1>5 DEF SearchTypeOK, Buckets, n
<1>9. SearchTypeOK'
  <2>1. buckets' \in Partitions
    BY <1>1, <1>7 DEF SearchTypeOK, Partitions
  <2> QED BY <1>1, <1>2, <1>3, <1>4, <1>8, <2>1 DEF SearchTypeOK, n
<1>10. \A k \in 1..(keyIndex' - 1) : groupIndex'[k] \in Buckets
  BY <1>1, <1>4, <1>8 DEF BucketsHoldPlaced
<1>11. ASSUME NEW h \in Buckets
       PROVE  /\ buckets'[h].keys = {k \in 1..(keyIndex' - 1) : groupIndex'[k] = h}
              /\ buckets'[h].total = SumOver(buckets'[h].keys, amount)
              /\ Cardinality(buckets'[h].keys) <= Capacities[h]
  <2>1. /\ buckets[h].keys = {k \in 1..(keyIndex - 1) : groupIndex[k] = h}
        /\ buckets[h].total = SumOver(buckets[h].keys, amount)
        /\ Cardinality(buckets[h].keys) <= Capacities[h]
    BY DEF BucketsHoldPlaced
  <2>2. {k \in 1..(keyIndex' - 1) : groupIndex'[k] = h} = buckets[h].keys \ {c}
    BY <1>1, <1>4, <1>8, <2>1
  <2>3. CASE h = g
    <3>1. buckets'[h] = TakeBack(buckets[g], c)
      BY <1>1, <2>3 DEF SearchTypeOK, Partitions
    <3>2. /\ Cardinality(buckets[g].keys) \in Nat /\ Capacities[g] \in Nat
          /\ Cardinality(buckets[g].keys \ {c}) \in Nat
      <4>1. IsFiniteSet(buckets[g].keys)
        BY <1>5, BucketCount, FS_Subset DEF SearchTypeOK, Partitions
      <4>2. IsFiniteSet(buckets[g].keys \ {c})
        BY <4>1, FS_Subset
      <4> QED BY <1>5, <4>1, <4>2, BucketCount, FS_CardinalityType
    <3>3. /\ buckets'[h].keys = buckets[h].keys \ {c}
          /\ buckets'[h].total = SumOver(buckets[h].keys \ {c}, amount)
      BY <1>7, <2>3, <3>1
    <3>4. Cardinality(buckets[h].keys \ {c}) <= Capacities[h]
      <4>1. Cardinality(buckets[g].keys) <= Capacities[g]
        BY <2>1, <2>3
      <4>2. Cardinality(buckets[g].keys \ {c}) <= Capacities[g]
        BY <1>7, <3>2, <4>1
      <4> QED BY <2>3, <4>2
    <3> QED BY ONLY <2>2, <3>3, <3>4
  <2>4. CASE h # g
    <3>1. buckets'[h] = buckets[h]
      BY <1>1, <2>4 DEF SearchTypeOK, Partitions
    <3>2. c \notin buckets[h].keys
      BY <2>1, <2>4 DEF g
    <3> QED BY <2>1, <2>2, <3>1, <3>2
  <2> QED BY <2>3, <2>4
<1>12. BucketsHoldPlaced'
  BY <1>3, <1>10, <1>11 DEF BucketsHoldPlaced
<1> QED BY <1>9, <1>12

----------------------------------------------------------------------------
(* Nothing that the search has passed is better than its best.              *)

\* p is no better than the best, which exists.
Covered(p) == best # <<>> /\ ~Better(PlacingTotals(p), BucketTotals(best))

\* p places the keys before k where their calls stand.
AgreesBefore(p, k) == \A j \in 1..(k - 1) : p[j] = groupIndex[j]

LEMMA NotYetPassed ==
  ASSUME NEW p, NEW k \in Names, k <= keyIndex, AgreesBefore(p, k), ~Passed(p)
  PROVE  ~(p[k] < groupIndex[k])
BY DEF Passed, AgreesBefore

LEMMA BestTotals ==
  ASSUME SearchTypeOK, BestIsPlacing, best # <<>>
  PROVE  BucketTotals(best) \in [1..GroupCount(Names, size) -> Nat]
BY DEF SearchTypeOK, Partitions, BucketTotals, Buckets

\* Placings of the same score are covered together.
LEMMA CoveredTogether ==
  ASSUME NEW p, NEW q,
         Spread(PlacingTotals(p)) = Spread(PlacingTotals(q)),
         Variance(PlacingTotals(p)) = Variance(PlacingTotals(q)), Covered(q)
  PROVE  Covered(p)
BY DEF Covered, Better

\* The keys that p still has to place are those of the calls to come.
LEMMA PlacedAndComing ==
  ASSUME SearchTypeOK, BucketsHoldPlaced, keyIndex \in Names, NEW p \in [Names -> Buckets],
         AgreesBefore(p, keyIndex), NEW g \in Buckets
  PROVE  LET coming == {k \in keyIndex..KeyCount : p[k] = g}
         IN  /\ KeysOf(p, g) = buckets[g].keys \cup coming
             /\ buckets[g].keys \cap coming = {}
             /\ IsFiniteSet(buckets[g].keys) /\ IsFiniteSet(coming)
             /\ buckets[g].keys \subseteq Names /\ coming \subseteq Names
<1> DEFINE coming == {k \in keyIndex..KeyCount : p[k] = g}
<1>1. KeyCount \in Nat \ {0} /\ keyIndex \in 1..KeyCount /\ IsFiniteSet(Names)
  BY BucketCount DEF Names
<1>2. buckets[g].keys = {k \in 1..(keyIndex - 1) : p[k] = g}
  BY DEF BucketsHoldPlaced, AgreesBefore
<1>3. KeysOf(p, g) = {k \in 1..KeyCount : p[k] = g}
  BY DEF KeysOf, Names
<1>4. 1..KeyCount = (1..(keyIndex - 1)) \cup (keyIndex..KeyCount)
  BY <1>1
<1>5. (1..(keyIndex - 1)) \cap (keyIndex..KeyCount) = {}
  BY <1>1
<1>6. buckets[g].keys \subseteq Names /\ coming \subseteq Names
  BY <1>2, <1>4 DEF Names
<1>7. IsFiniteSet(buckets[g].keys) /\ IsFiniteSet(coming)
  BY <1>1, <1>6, FS_Subset
<1>8. KeysOf(p, g) = buckets[g].keys \cup coming
  BY <1>2, <1>3, <1>4
<1>9. buckets[g].keys \cap coming = {}
  BY <1>2, <1>5
<1> QED BY <1>6, <1>7, <1>8, <1>9

\* No placing puts a key into a full bucket.
LEMMA FullIsNoLoss ==
  ASSUME SearchTypeOK, BucketsHoldPlaced, AtBucket, Full(groupIndex[keyIndex]),
         NEW p \in Placings, AgreesBefore(p, keyIndex), p[keyIndex] = groupIndex[keyIndex]
  PROVE  FALSE
<1> DEFINE g == groupIndex[keyIndex]
           coming == {k \in keyIndex..KeyCount : p[k] = g}
<1>1. keyIndex \in Names /\ g \in Buckets /\ p \in [Names -> Buckets]
  BY DEF AtBucket, Placings
<1>2. /\ KeysOf(p, g) = buckets[g].keys \cup coming
      /\ buckets[g].keys \cap coming = {}
      /\ IsFiniteSet(buckets[g].keys) /\ IsFiniteSet(coming)
  BY <1>1, PlacedAndComing
<1>3. keyIndex \in coming
  BY <1>1, BucketCount DEF Names
<1>4. Cardinality(KeysOf(p, g)) = Cardinality(buckets[g].keys) + Cardinality(coming)
  BY <1>2, DisjointUnion
<1>5. /\ Cardinality(buckets[g].keys) \in Nat /\ Cardinality(coming) \in Nat
      /\ Cardinality(coming) # 0
  BY <1>2, <1>3, FS_CardinalityType, FS_EmptySet
<1>6. Cardinality(KeysOf(p, g)) <= Capacities[g] /\ Capacities[g] \in Nat
  BY <1>1, BucketCount DEF Placings
<1>7. Cardinality(buckets[g].keys) >= Capacities[g]
  BY DEF Full
<1> HIDE DEF g, coming
<1> QED BY <1>4, <1>5, <1>6, <1>7

\* A placing that uses a bucket equivalent to an earlier one has the score of a
\* placing that uses the earlier one, which is passed.
LEMMA EquivalentIsNoLoss ==
  ASSUME SearchTypeOK, BucketsHoldPlaced, BestOfPassed,
         AtBucket, EquivalentBucket(groupIndex[keyIndex]),
         NEW p \in Placings, AgreesBefore(p, keyIndex), p[keyIndex] = groupIndex[keyIndex]
  PROVE  Covered(p)
<1> DEFINE n == GroupCount(Names, size)
           g == groupIndex[keyIndex]
           Coming(x) == {k \in keyIndex..KeyCount : p[k] = x}
<1>1. /\ keyIndex \in Names /\ g \in Buckets /\ p \in [Names -> Buckets]
      /\ n \in Nat \ {0} /\ KeyCount \in Nat \ {0} /\ Buckets = 1..n
      /\ keyIndex \in 1..KeyCount /\ Names = 1..KeyCount
  BY BucketCount DEF AtBucket, Placings, Buckets, Names
<1>2. PICK h \in 1..(g - 1) :
        /\ Capacities[h] = Capacities[g]
        /\ Cardinality(buckets[h].keys) = Cardinality(buckets[g].keys)
        /\ buckets[h].total = buckets[g].total
  BY DEF EquivalentBucket
<1>3. h \in Buckets /\ h < g
  BY <1>1
<1> DEFINE exchange == [x \in 1..n |-> IF x = g THEN h ELSE IF x = h THEN g ELSE x]
           q == [k \in Names |-> IF k < keyIndex THEN p[k] ELSE exchange[p[k]]]
<1>4. /\ \A x \in Buckets : exchange[x] \in Buckets /\ exchange[exchange[x]] = x
      /\ exchange \in Renumberings(n)
  <2>1. \A x \in 1..n : exchange[x] \in 1..n /\ exchange[exchange[x]] = x
    BY <1>1, <1>3
  <2>2. exchange \in [1..n -> 1..n]
    BY <1>1, <1>3
  <2> HIDE DEF exchange
  <2>3. exchange \in Renumberings(n)
    BY <2>1, <2>2, Fun_IsBij DEF Renumberings
  <2> QED BY <1>1, <2>1, <2>3
<1>5. q \in [Names -> Buckets]
  BY <1>1, <1>4
<1>6. AgreesBefore(q, keyIndex) /\ q[keyIndex] = h
  <2>1. \A j \in 1..(keyIndex - 1) : j \in Names /\ j < keyIndex
    BY <1>1
  <2>2. q[keyIndex] = exchange[g]
    BY <1>1
  <2> QED BY <1>1, <2>1, <2>2 DEF AgreesBefore
<1>7. ASSUME NEW x \in Buckets
      PROVE  {k \in keyIndex..KeyCount : q[k] = x} = Coming(exchange[x])
  <2>1. \A k \in keyIndex..KeyCount : q[k] = exchange[p[k]] /\ p[k] \in Buckets
    BY <1>1
  <2> HIDE DEF exchange, q
  <2> QED BY <1>4, <2>1
<1>8. \A x \in Buckets :
        /\ Capacities[exchange[x]] = Capacities[x]
        /\ Cardinality(buckets[exchange[x]].keys) = Cardinality(buckets[x].keys)
        /\ buckets[exchange[x]].total = buckets[x].total
  BY <1>1, <1>2, <1>3
<1> HIDE DEF n, g, exchange, q
<1>9. ASSUME NEW x \in Buckets
      PROVE  /\ KeysOf(q, x) = buckets[x].keys \cup Coming(exchange[x])
             /\ buckets[x].keys \cap Coming(exchange[x]) = {}
             /\ IsFiniteSet(buckets[x].keys) /\ buckets[x].keys \subseteq Names
  <2> HIDE DEF Coming
  <2>1. LET D == {k \in keyIndex..KeyCount : q[k] = x}
        IN  /\ KeysOf(q, x) = buckets[x].keys \cup D
            /\ buckets[x].keys \cap D = {}
            /\ IsFiniteSet(buckets[x].keys) /\ IsFiniteSet(D)
            /\ buckets[x].keys \subseteq Names /\ D \subseteq Names
    BY <1>1, <1>5, <1>6, PlacedAndComing
  <2> QED BY <1>7, <2>1
<1>10. ASSUME NEW x \in Buckets
      PROVE  /\ Cardinality(KeysOf(q, x)) = Cardinality(KeysOf(p, exchange[x]))
             /\ PlacingTotals(q)[x] = PlacingTotals(p)[exchange[x]]
  <2> DEFINE y == exchange[x]
             C == Coming(y)
  <2>1. y \in Buckets
    BY <1>4
  <2>2. /\ KeysOf(p, y) = buckets[y].keys \cup C
        /\ buckets[y].keys \cap C = {}
        /\ IsFiniteSet(buckets[y].keys) /\ IsFiniteSet(C)
        /\ buckets[y].keys \subseteq Names /\ C \subseteq Names
    BY <1>1, <2>1, PlacedAndComing
  <2>3. /\ KeysOf(q, x) = buckets[x].keys \cup C
        /\ buckets[x].keys \cap C = {}
        /\ IsFiniteSet(buckets[x].keys) /\ buckets[x].keys \subseteq Names
    BY <1>9
  <2> HIDE DEF y, C
  <2>4. Cardinality(KeysOf(q, x)) = Cardinality(KeysOf(p, y))
    <3>1. Cardinality(KeysOf(p, y)) = Cardinality(buckets[y].keys) + Cardinality(C)
      BY <2>2, DisjointUnion
    <3>2. Cardinality(KeysOf(q, x)) = Cardinality(buckets[x].keys) + Cardinality(C)
      BY <2>2, <2>3, DisjointUnion
    <3> QED BY <1>8, <3>1, <3>2 DEF y
  <2>5. SumOver(KeysOf(q, x), amount) = SumOver(KeysOf(p, y), amount)
    <3>1. \A k \in Names : amount[k] \in Nat
      BY AmountType
    <3>2. SumOver(buckets[y].keys \cup C, amount)
            = SumOver(buckets[y].keys, amount) + SumOver(C, amount)
      BY <2>2, <3>1, SumSplits
    <3>3. SumOver(buckets[x].keys \cup C, amount)
            = SumOver(buckets[x].keys, amount) + SumOver(C, amount)
      BY <2>2, <2>3, <3>1, SumSplits
    <3>4. /\ SumOver(buckets[y].keys, amount) = buckets[y].total
          /\ SumOver(buckets[x].keys, amount) = buckets[x].total
      BY <2>1 DEF BucketsHoldPlaced
    <3> QED BY <1>8, <2>2, <2>3, <3>2, <3>3, <3>4 DEF y
  <2>6. /\ PlacingTotals(q)[x] = SumOver(KeysOf(q, x), amount)
        /\ PlacingTotals(p)[y] = SumOver(KeysOf(p, y), amount)
    BY <1>1, <1>5, <2>1, PlacingType
  <2> QED BY <2>4, <2>5, <2>6 DEF y
<1>11. q \in Placings
  <2>1. ASSUME NEW x \in Buckets PROVE Cardinality(KeysOf(q, x)) <= Capacities[x]
    <3>1. Cardinality(KeysOf(p, exchange[x])) <= Capacities[exchange[x]]
      BY <1>4 DEF Placings
    <3> QED BY <1>8, <1>10, <3>1
  <2> QED BY <1>5, <2>1 DEF Placings
<1>12. Covered(q)
  <2>1. Passed(q)
    BY <1>1, <1>3, <1>6 DEF Passed, AgreesBefore, g
  <2> QED BY <1>11, <2>1 DEF BestOfPassed, Covered
<1>13. /\ Spread(PlacingTotals(p)) = Spread(PlacingTotals(q))
       /\ Variance(PlacingTotals(p)) = Variance(PlacingTotals(q))
  <2>1. PlacingTotals(p) \in GroupTotals(n) /\ PlacingTotals(q) \in GroupTotals(n)
    BY <1>1, <1>5, PlacingType DEF GroupTotals
  <2>2. \A x \in 1..n : PlacingTotals(p)[exchange[x]] = PlacingTotals(q)[x]
    BY <1>1, <1>10
  <2> QED BY <1>1, <1>4, <2>1, <2>2, ScoreMoves
<1> QED BY <1>12, <1>13, CoveredTogether

\* Once every key is placed, the buckets are those of a placing.
LEMMA CompletePlacing ==
  ASSUME SearchTypeOK, BucketsHoldPlaced, keyIndex = KeyCount + 1
  PROVE  LET p == [k \in Names |-> groupIndex[k]]
         IN  p \in Placings /\ buckets = BucketsOf(p) /\ BucketTotals(buckets) = PlacingTotals(p)
<1> DEFINE p == [k \in Names |-> groupIndex[k]]
<1>1. KeyCount \in Nat \ {0} /\ 1..(keyIndex - 1) = Names
  BY BucketCount DEF Names
<1>2. p \in [Names -> Buckets]
  BY <1>1 DEF BucketsHoldPlaced
<1>3. \A g \in Buckets : KeysOf(p, g) = buckets[g].keys
  BY <1>1 DEF BucketsHoldPlaced, KeysOf
<1>4. p \in Placings
  BY <1>2, <1>3 DEF Placings, BucketsHoldPlaced
<1>5. \A g \in Buckets : PlacingTotals(p)[g] = buckets[g].total
  BY <1>2, <1>3, PlacingType DEF BucketsHoldPlaced
<1>6. PlacingTotals(p) \in [Buckets -> Nat]
  BY <1>2, PlacingType
<1> HIDE DEF p
<1>7. BucketTotals(buckets) = PlacingTotals(p)
  BY <1>5, <1>6 DEF BucketTotals
<1>8. buckets = BucketsOf(p)
  <2>1. buckets \in [Buckets -> [keys : SUBSET Names, total : Nat]]
    BY DEF SearchTypeOK, Partitions
  <2>2. \A g \in Buckets : buckets[g] = [keys |-> KeysOf(p, g), total |-> PlacingTotals(p)[g]]
    BY <1>3, <1>5, <2>1
  <2> QED BY <2>1, <2>2 DEF BucketsOf
<1> QED BY <1>4, <1>7, <1>8 DEF p

LEMMA PassedByPlaceKey ==
  ASSUME SearchInv, PlaceKey, NEW p \in Placings, Passed(p)'
  PROVE  Passed(p)
<1>1. /\ keyIndex \in Names /\ keyIndex' = keyIndex + 1
      /\ groupIndex' = [groupIndex EXCEPT ![keyIndex + 1] = 1]
      /\ KeyCount \in Nat \ {0} /\ Names = 1..KeyCount
      /\ groupIndex \in [1..(KeyCount + 1) -> 1..(GroupCount(Names, size) + 1)]
      /\ p \in [Names -> Buckets]
  BY BucketCount DEF SearchInv, PlaceKey, AtBucket, Placings, Names, SearchTypeOK
<1>2. PICK k \in Names : /\ k <= keyIndex'
                         /\ \A j \in 1..(k - 1) : p[j] = groupIndex'[j]
                         /\ p[k] < groupIndex'[k]
  BY DEF Passed
<1>3. k # keyIndex + 1
  <2> SUFFICES ASSUME k = keyIndex + 1 PROVE FALSE
    OBVIOUS
  <2>1. groupIndex'[k] = 1 /\ p[k] \in 1..GroupCount(Names, size)
    BY <1>1, <1>2 DEF Buckets
  <2>2. GroupCount(Names, size) \in Nat
    BY BucketCount DEF SearchInv
  <2> QED BY <1>2, <2>1, <2>2
<1>4. k <= keyIndex /\ \A j \in 1..k : groupIndex'[j] = groupIndex[j]
  BY <1>1, <1>2, <1>3
<1>5. k \in 1..k /\ \A j \in 1..(k - 1) : j \in 1..k
  BY <1>1
<1> QED BY <1>2, <1>4, <1>5 DEF Passed

LEMMA PassedBySkip ==
  ASSUME SearchInv, SkipBucket, NEW p \in Placings, Passed(p)', ~Passed(p)
  PROVE  AgreesBefore(p, keyIndex) /\ p[keyIndex] = groupIndex[keyIndex]
<1>1. /\ keyIndex \in Names /\ keyIndex' = keyIndex
      /\ groupIndex' = [groupIndex EXCEPT ![keyIndex] = groupIndex[keyIndex] + 1]
      /\ KeyCount \in Nat \ {0} /\ Names = 1..KeyCount
      /\ groupIndex \in [1..(KeyCount + 1) -> 1..(GroupCount(Names, size) + 1)]
      /\ p \in [Names -> 1..GroupCount(Names, size)] /\ GroupCount(Names, size) \in Nat
  BY BucketCount DEF SearchInv, SkipBucket, AtBucket, Placings, Names, SearchTypeOK, Buckets
<1>2. PICK k \in Names : /\ k <= keyIndex'
                         /\ \A j \in 1..(k - 1) : p[j] = groupIndex'[j]
                         /\ p[k] < groupIndex'[k]
  BY DEF Passed
<1>3. \A j \in 1..(k - 1) : groupIndex'[j] = groupIndex[j]
  BY <1>1, <1>2
<1>4. k = keyIndex
  <2> SUFFICES ASSUME k # keyIndex PROVE FALSE
    OBVIOUS
  <2>1. groupIndex'[k] = groupIndex[k]
    BY <1>1
  <2> QED BY <1>1, <1>2, <1>3, <2>1 DEF Passed
<1>5. AgreesBefore(p, keyIndex)
  BY <1>2, <1>3, <1>4 DEF AgreesBefore
<1>6. ~(p[keyIndex] < groupIndex[keyIndex])
  <2>1. keyIndex <= keyIndex
    BY <1>1
  <2> QED BY <1>1, <1>5, <2>1, NotYetPassed
<1>7. p[keyIndex] < groupIndex[keyIndex] + 1
  BY <1>1, <1>2, <1>4
<1>8. p[keyIndex] \in Int /\ groupIndex[keyIndex] \in Int
  BY <1>1
<1> QED BY <1>5, <1>6, <1>7, <1>8

LEMMA PassedByReturn ==
  ASSUME SearchInv, keyIndex > 1, ReturnToCaller, NEW p \in Placings, Passed(p)', ~Passed(p)
  PROVE  AgreesBefore(p, keyIndex)
<1> DEFINE c == keyIndex - 1
<1>1. /\ keyIndex \in 1..(KeyCount + 1) /\ keyIndex' = c
      /\ groupIndex' = [groupIndex EXCEPT ![c] = groupIndex[c] + 1]
      /\ KeyCount \in Nat \ {0} /\ Names = 1..KeyCount
      /\ groupIndex \in [1..(KeyCount + 1) -> 1..(GroupCount(Names, size) + 1)]
      /\ p \in [Names -> 1..GroupCount(Names, size)] /\ GroupCount(Names, size) \in Nat
  BY BucketCount DEF SearchInv, ReturnToCaller, Placings, Names, SearchTypeOK, Buckets
<1>2. c \in 1..KeyCount /\ keyIndex = c + 1
  BY <1>1
<1> HIDE DEF c
<1>3. PICK k \in Names : /\ k <= keyIndex'
                         /\ \A j \in 1..(k - 1) : p[j] = groupIndex'[j]
                         /\ p[k] < groupIndex'[k]
  BY DEF Passed
<1>4. \A j \in 1..(k - 1) : groupIndex'[j] = groupIndex[j]
  BY <1>1, <1>2, <1>3
<1>5. k = c
  <2> SUFFICES ASSUME k # c PROVE FALSE
    OBVIOUS
  <2>1. groupIndex'[k] = groupIndex[k] /\ k <= keyIndex
    BY <1>1, <1>2, <1>3
  <2> QED BY <1>3, <1>4, <2>1 DEF Passed
<1>6. AgreesBefore(p, c)
  BY <1>3, <1>4, <1>5 DEF AgreesBefore
<1>7. ~(p[c] < groupIndex[c])
  <2>1. c \in Names /\ c <= keyIndex
    BY <1>1, <1>2
  <2> QED BY <1>6, <2>1, NotYetPassed
<1>8. p[c] < groupIndex[c] + 1
  BY <1>1, <1>2, <1>3, <1>5
<1>9. p[c] = groupIndex[c]
  <2>1. p[c] \in Int /\ groupIndex[c] \in Int
    BY <1>1, <1>2
  <2> QED BY <1>7, <1>8, <2>1
<1>10. 1..(keyIndex - 1) = (1..(c - 1)) \cup {c}
  BY <1>2
<1> QED BY <1>6, <1>9, <1>10 DEF AgreesBefore

LEMMA BestKept ==
  ASSUME SearchInv, amount' = amount, size' = size, best' = best,
         \A p \in Placings : Passed(p)' => Passed(p) \/ Covered(p)
  PROVE  BestIsPlacing' /\ BestOfPassed'
<1>1. /\ Placings' = Placings /\ Buckets' = Buckets
      /\ \A p : PlacingTotals(p)' = PlacingTotals(p) /\ BucketsOf(p)' = BucketsOf(p)
  BY SameInput
<1>2. BestIsPlacing'
  BY <1>1 DEF SearchInv, BestIsPlacing
<1>3. BucketTotals(best)' = BucketTotals(best)
  BY <1>1 DEF BucketTotals
<1>4. \A p \in Placings : Passed(p)' => Covered(p)
  BY DEF SearchInv, BestOfPassed, Covered
<1>5. BestOfPassed'
  BY <1>1, <1>3, <1>4 DEF BestOfPassed, Covered
<1> QED BY <1>2, <1>5

LEMMA BestAfterScore ==
  ASSUME SearchInv, ScorePartition
  PROVE  /\ BestIsPlacing' /\ BestOfPassed'
         /\ best' # <<>> => best' \in Partitions
<1> DEFINE p == [k \in Names |-> groupIndex[k]]
           T == BucketTotals(buckets)
           n == GroupCount(Names, size)
<1>1. /\ keyIndex = KeyCount + 1 /\ ReturnToCaller /\ amount' = amount /\ size' = size
      /\ best' = IF best = <<>> \/ Better(T, BucketTotals(best)) THEN buckets ELSE best
      /\ SearchTypeOK /\ BucketsHoldPlaced /\ BestIsPlacing /\ BestOfPassed
  BY DEF ScorePartition, SearchInv
<1>2. KeyCount \in Nat \ {0} /\ keyIndex > 1 /\ n \in Nat \ {0} /\ Names = 1..KeyCount
  BY <1>1, BucketCount DEF Names
<1>3. p \in Placings /\ buckets = BucketsOf(p) /\ T = PlacingTotals(p)
  BY <1>1, CompletePlacing
<1>4. /\ Placings' = Placings /\ Buckets' = Buckets
      /\ \A q : PlacingTotals(q)' = PlacingTotals(q) /\ BucketsOf(q)' = BucketsOf(q)
  BY <1>1, SameInput
<1>5. buckets \in Partitions /\ buckets # <<>>
  <2>1. buckets \in Partitions
    BY <1>1 DEF SearchTypeOK
  <2>2. 1 \in DOMAIN buckets
    BY <1>2, <2>1 DEF Partitions, Buckets
  <2> QED BY <2>1, <2>2
<1>6. best' # <<>> /\ best' \in Partitions /\ BestIsPlacing'
  BY <1>1, <1>3, <1>4, <1>5 DEF BestIsPlacing, SearchTypeOK
<1>7. T \in [1..n -> Nat]
  BY <1>3, <1>1, PlacingType DEF Placings, Buckets
<1> HIDE DEF p, T, n
<1>8. BucketTotals(best)' = BucketTotals(best')
  BY <1>4 DEF BucketTotals
<1>9. BucketTotals(buckets) = T
  BY DEF T
<1>10. ~Better(T, BucketTotals(best'))
  <2>1. ~Better(T, T)
    BY <1>2, <1>7, BetterIsIrreflexive
  <2> QED BY <1>1, <1>9, <2>1
<1>11. ASSUME NEW q \in Placings, Covered(q)
       PROVE  ~Better(PlacingTotals(q), BucketTotals(best'))
  <2>1. best # <<>> /\ ~Better(PlacingTotals(q), BucketTotals(best))
    BY <1>11 DEF Covered
  <2>2. CASE Better(T, BucketTotals(best))
    <3>1. BucketTotals(best) \in [1..n -> Nat]
      BY <1>1, <2>1, BestTotals DEF n
    <3>2. PlacingTotals(q) \in [1..n -> Nat]
      BY <1>1, PlacingType DEF n, Buckets, Placings
    <3>3. ~Better(PlacingTotals(q), T)
      BY <1>2, <1>7, <2>1, <2>2, <3>1, <3>2, BetterIsOrder
    <3> QED BY <1>1, <1>9, <2>2, <3>3
  <2>3. CASE ~Better(T, BucketTotals(best))
    BY <1>1, <2>1, <2>3
  <2> QED BY <2>2, <2>3
<1>12. ASSUME NEW q \in Placings, Passed(q)'
       PROVE  ~Better(PlacingTotals(q), BucketTotals(best'))
  <2>1. CASE Passed(q)
    BY <1>1, <1>11, <2>1 DEF BestOfPassed, Covered
  <2>2. CASE ~Passed(q)
    <3>1. AgreesBefore(q, keyIndex)
      BY <1>1, <1>2, <1>12, <2>2, PassedByReturn
    <3>2. \A k \in Names : q[k] = groupIndex[k]
      BY <1>1, <1>2, <3>1 DEF AgreesBefore
    <3>3. q = p
      BY <3>2 DEF Placings, p
    <3> QED BY <1>3, <1>10, <3>3
  <2> QED BY <2>1, <2>2
<1>13. BestOfPassed'
  BY <1>4, <1>6, <1>8, <1>12 DEF BestOfPassed
<1> QED BY <1>6, <1>13

----------------------------------------------------------------------------
(* The groups that come out.                                                *)

\* An even division under other numbers is a placing.
LEMMA EvenIsPlacing ==
  ASSUME SearchTypeOK, NEW b \in EvenlySized(Names, GroupCount(Names, size))
  PROVE  \E q \in Placings : /\ Spread(PlacingTotals(q)) = Spread(PlacingTotals(b))
                             /\ Variance(PlacingTotals(q)) = Variance(PlacingTotals(b))
<1> DEFINE n == GroupCount(Names, size)
<1>1. /\ IsFiniteSet(Names) /\ Cardinality(Names) = KeyCount
      /\ n \in Nat \ {0} /\ Capacities = EvenSizes(KeyCount, n)
      /\ \A g \in Buckets : Capacities[g] \in Nat
      /\ \A k \in Names : amount[k] \in Nat
  BY BucketCount, AmountType
<1>2. b \in [Names -> 1..n]
  BY DEF EvenlySized
<1>3. PICK move \in Renumberings(n) :
        \A g \in 1..n : Cardinality(KeysOf(b, g)) = EvenSizes(Cardinality(Names), n)[move[g]]
  BY <1>1, EvenIsWithin
<1> HIDE DEF n
<1> DEFINE q == Renumbered(b, move)
<1>4. q \in [Names -> 1..n]
  BY <1>2, <1>3, RenumberedType
<1>5. \A g \in 1..n : KeysOf(q, move[g]) = KeysOf(b, g)
  BY <1>2, <1>3, RenumberedGroup
<1>6. ASSUME NEW h \in 1..n PROVE Cardinality(KeysOf(q, h)) <= Capacities[h]
  <2>1. PICK g \in 1..n : move[g] = h
    BY <1>3 DEF Renumberings, Bijection, Surjection
  <2>2. Cardinality(KeysOf(q, h)) = Capacities[h]
    BY <1>1, <1>3, <1>5, <2>1
  <2>3. Capacities[h] \in Nat
    BY <1>1 DEF Buckets, n
  <2> QED BY <2>2, <2>3
<1>7. q \in Placings
  BY <1>4, <1>6 DEF Placings, Buckets, n
<1>8. /\ Spread(Totals(q, n, amount)) = Spread(Totals(b, n, amount))
      /\ Variance(Totals(q, n, amount)) = Variance(Totals(b, n, amount))
  BY <1>1, <1>2, <1>3, RenumberedScore
<1> QED BY <1>7, <1>8 DEF PlacingTotals, n

\* When the first loop is through, the best is best of all.
LEMMA SearchEnds ==
  ASSUME SearchInv, keyIndex = 1, groupIndex[1] \notin Buckets
  PROVE  \E p \in Placings :
           /\ best = BucketsOf(p)
           /\ p \in EvenlySized(Names, GroupCount(Names, size))
           /\ \A b \in EvenlySized(Names, GroupCount(Names, size)) :
                ~Better(PlacingTotals(b), PlacingTotals(p))
<1> DEFINE n == GroupCount(Names, size)
<1>1. /\ SearchTypeOK /\ BestIsPlacing /\ BestOfPassed
      /\ IsFiniteSet(Names) /\ Cardinality(Names) = KeyCount /\ KeyCount \in Nat \ {0}
      /\ n \in Nat \ {0} /\ Capacities = EvenSizes(KeyCount, n)
      /\ Buckets = 1..n /\ Names = 1..KeyCount
      /\ \A g \in Buckets : Capacities[g] \in Nat
  BY BucketCount DEF SearchInv, Buckets, Names
<1>2. groupIndex[1] = n + 1
  <2>1. groupIndex[1] \in 1..(n + 1)
    BY <1>1 DEF SearchTypeOK
  <2> HIDE DEF n
  <2> QED BY <1>1, <2>1
<1>3. ASSUME NEW p \in Placings PROVE Covered(p)
  <2>1. 1 \in Names /\ p[1] \in 1..n
    BY <1>1 DEF Placings
  <2> HIDE DEF n
  <2>2. p[1] < groupIndex[1]
    BY <1>1, <1>2, <2>1
  <2>3. 1 <= keyIndex /\ 1..(1 - 1) = {}
    OBVIOUS
  <2>4. Passed(p)
    BY <2>1, <2>2, <2>3 DEF Passed
  <2> QED BY <1>1, <2>4 DEF BestOfPassed, Covered
<1> HIDE DEF n
<1>4. Placings # {}
  <2>1. PICK a \in [Names -> 1..n] :
          \A g \in 1..n : Cardinality(KeysOf(a, g)) = EvenSizes(Cardinality(Names), n)[g]
    BY <1>1, EvenExists
  <2>2. \A g \in 1..n : Cardinality(KeysOf(a, g)) <= Capacities[g]
    BY <1>1, <2>1
  <2> QED BY <1>1, <2>2 DEF Placings
<1>5. PICK p \in Placings : best = BucketsOf(p)
  BY <1>1, <1>3, <1>4 DEF BestIsPlacing, Covered
<1>6. p \in EvenlySized(Names, n)
  <2>1. /\ p \in [Names -> 1..n]
        /\ \A g \in 1..n : Cardinality(KeysOf(p, g)) <= EvenSizes(Cardinality(Names), n)[g]
    BY <1>1 DEF Placings
  <2> QED BY <1>1, <2>1, WithinIsEven
<1>7. BucketTotals(best) = PlacingTotals(p)
  <2>1. PlacingTotals(p) \in [Buckets -> Nat]
    BY <1>1, PlacingType DEF Placings
  <2> QED BY <1>5, <2>1 DEF BucketTotals, BucketsOf
<1>8. ASSUME NEW b \in EvenlySized(Names, n)
      PROVE  ~Better(PlacingTotals(b), PlacingTotals(p))
  <2>1. PICK q \in Placings : /\ Spread(PlacingTotals(q)) = Spread(PlacingTotals(b))
                              /\ Variance(PlacingTotals(q)) = Variance(PlacingTotals(b))
    BY <1>1, EvenIsPlacing DEF n
  <2>2. Covered(b)
    BY <1>3, <2>1, CoveredTogether
  <2> QED BY <1>7, <2>2 DEF Covered
<1> QED BY <1>5, <1>6, <1>8 DEF n

LEMMA OptimalAfterOrder ==
  ASSUME SearchInv, OrderGroups
  PROVE  SearchIsOptimal'
<1> DEFINE n == GroupCount(Names, size)
           a == AssignmentOf(groups')
<1>1. /\ SearchTypeOK /\ amount' = amount /\ size' = size
      /\ n \in Nat \ {0} /\ n' = n /\ Buckets = 1..n
      /\ IsFiniteSet(Names) /\ \A k \in Names : amount[k] \in Nat
  BY BucketCount, AmountType DEF SearchInv, OrderGroups, Buckets
<1>2. PICK p \in Placings :
        /\ best = BucketsOf(p)
        /\ p \in EvenlySized(Names, n)
        /\ \A b \in EvenlySized(Names, n) : ~Better(PlacingTotals(b), PlacingTotals(p))
  BY SearchEnds DEF OrderGroups
<1>3. PICK order \in Bijection(Buckets, Buckets) :
        /\ InRotationOrder([g \in Buckets |-> best[order[g]].total])
        /\ groups' = [g \in Buckets |-> best[order[g]].keys]
  BY DEF OrderGroups
<1> HIDE DEF n
<1>4. /\ \A g \in Buckets : order[g] \in Buckets
      /\ \A g, h \in Buckets : order[g] = order[h] => g = h
      /\ \A h \in Buckets : \E g \in Buckets : order[g] = h
  BY DEF Bijection, Injection, IsInjective, Surjection
<1>5. p \in [Names -> Buckets]
  BY DEF Placings
<1>6. /\ DOMAIN groups' = Buckets
      /\ \A g \in Buckets : groups'[g] = {k \in Names : p[k] = order[g]}
  BY <1>2, <1>3, <1>4, <1>5 DEF BucketsOf, KeysOf
<1>7. UNION {groups'[g] : g \in DOMAIN groups'} = Names
  BY <1>4, <1>5, <1>6
<1>8. \A g, h \in DOMAIN groups' : g # h => groups'[g] \cap groups'[h] = {}
  BY <1>4, <1>6
<1>9. \A k \in Names : a[k] \in Buckets /\ order[a[k]] = p[k]
  <2> TAKE k \in Names
  <2>1. \E g \in DOMAIN groups' : k \in groups'[g]
    BY <1>4, <1>5, <1>6
  <2>2. a[k] \in DOMAIN groups' /\ k \in groups'[a[k]]
    BY <2>1 DEF AssignmentOf
  <2> QED BY <1>6, <2>2
<1>10. a \in [Names -> 1..n] /\ order \in Renumberings(n)
  BY <1>1, <1>9 DEF AssignmentOf, Renumberings
<1> HIDE DEF a
<1>11. Renumbered(a, order) = p
  BY <1>5, <1>9, <1>10 DEF Renumbered
<1>12. \A g \in 1..n : KeysOf(p, order[g]) = KeysOf(a, g)
  BY <1>10, <1>11, RenumberedGroup
<1>13. a \in EvenlySized(Names, n)
  BY <1>1, <1>2, <1>4, <1>10, <1>12 DEF EvenlySized
<1>14. InRotationOrder(Totals(a, n, amount))
  <2>1. \A g \in 1..n : best[order[g]].total = Totals(a, n, amount)[g]
    <3> TAKE g \in 1..n
    <3>1. best[order[g]].total = PlacingTotals(p)[order[g]]
      BY <1>1, <1>2, <1>4 DEF BucketsOf
    <3>2. PlacingTotals(p)[order[g]] = SumOver(KeysOf(p, order[g]), amount)
      BY <1>1, <1>4, <1>5, PlacingType
    <3>3. Totals(a, n, amount)[g] = SumOver(KeysOf(a, g), amount)
      BY DEF Totals
    <3> QED BY <1>12, <3>1, <3>2, <3>3
  <2>2. Totals(a, n, amount) = [g \in Buckets |-> best[order[g]].total]
    BY <1>1, <2>1 DEF Totals
  <2> QED BY <1>3, <2>2
<1>15. ASSUME NEW b \in EvenlySized(Names, n)
       PROVE  ~Better(Totals(b, n, amount), Totals(a, n, amount))
  <2>1. /\ Spread(Totals(p, n, amount)) = Spread(Totals(a, n, amount))
        /\ Variance(Totals(p, n, amount)) = Variance(Totals(a, n, amount))
    BY <1>1, <1>10, <1>11, RenumberedScore
  <2>2. ~Better(Totals(b, n, amount), Totals(p, n, amount))
    BY <1>2 DEF PlacingTotals, n
  <2> QED BY <2>1, <2>2 DEF Better
<1>16. a \in Rotations(Names, size, amount)
  BY <1>13, <1>14, <1>15 DEF Rotations, n
<1> QED BY <1>1, <1>7, <1>8, <1>16 DEF SearchIsOptimal, a

\* The inductive invariant: every step of the search, and the division of its result,
\* keeps it.
LEMMA SearchStep ==
  ASSUME SearchInv, [Next]_searchVars
  PROVE  SearchInv'
<1>1. SearchTypeOK /\ BucketsHoldPlaced /\ BestIsPlacing /\ BestOfPassed /\ SearchIsOptimal
  BY DEF SearchInv
<1>2. amount' = amount /\ size' = size
  BY NextKeepsInput
<1>3. ASSUME groups' = groups PROVE SearchIsOptimal'
  BY <1>1, <1>2, <1>3 DEF SearchIsOptimal, AssignmentOf
<1>4. CASE PlaceKey
  <2>1. SearchTypeOK' /\ BucketsHoldPlaced'
    BY <1>1, <1>4, PlaceKeyType
  <2>2. best' = best /\ groups' = groups
    BY <1>4 DEF PlaceKey
  <2>3. BestIsPlacing' /\ BestOfPassed'
    BY <1>2, <1>4, <2>2, PassedByPlaceKey, BestKept
  <2> QED BY <1>3, <2>1, <2>2, <2>3 DEF SearchInv
<1>5. CASE SkipBucket
  <2>1. SearchTypeOK' /\ BucketsHoldPlaced'
    BY <1>1, <1>5, SkipBucketType
  <2>2. /\ best' = best /\ groups' = groups /\ AtBucket
        /\ Full(groupIndex[keyIndex]) \/ EquivalentBucket(groupIndex[keyIndex])
    BY <1>5 DEF SkipBucket
  <2>3. ASSUME NEW p \in Placings, Passed(p)', ~Passed(p)
        PROVE  Covered(p)
    <3>1. AgreesBefore(p, keyIndex) /\ p[keyIndex] = groupIndex[keyIndex]
      BY <1>5, <2>3, PassedBySkip
    <3> QED BY <1>1, <2>2, <3>1, FullIsNoLoss, EquivalentIsNoLoss
  <2>4. BestIsPlacing' /\ BestOfPassed'
    BY <1>2, <2>2, <2>3, BestKept
  <2> QED BY <1>3, <2>1, <2>2, <2>4 DEF SearchInv
<1>6. CASE ScorePartition
  <2>1. BestIsPlacing' /\ BestOfPassed' /\ (best' # <<>> => best' \in Partitions)
    BY <1>6, BestAfterScore
  <2>2. keyIndex > 1 /\ ReturnToCaller /\ groups' = groups
    BY <1>1, <1>6, BucketCount DEF ScorePartition
  <2>3. SearchTypeOK' /\ BucketsHoldPlaced'
    BY <1>1, <1>2, <2>1, <2>2, ReturnType
  <2> QED BY <1>3, <2>1, <2>2, <2>3 DEF SearchInv
<1>7. CASE LoopEnds
  <2>1. /\ keyIndex > 1 /\ ReturnToCaller /\ best' = best /\ groups' = groups
        /\ keyIndex \in Names /\ groupIndex[keyIndex] \notin Buckets
    BY <1>7 DEF LoopEnds
  <2>2. best' # <<>> => best' \in Partitions
    BY <1>1, <2>1 DEF SearchTypeOK
  <2>3. SearchTypeOK' /\ BucketsHoldPlaced'
    BY <1>1, <1>2, <2>1, <2>2, ReturnType
  <2>4. ASSUME NEW p \in Placings, Passed(p)', ~Passed(p)
        PROVE  FALSE
    <3>1. AgreesBefore(p, keyIndex)
      BY <2>1, <2>4, PassedByReturn
    <3>2. ~(p[keyIndex] < groupIndex[keyIndex])
      <4>1. keyIndex <= keyIndex
        BY <1>1 DEF SearchTypeOK
      <4> QED BY <2>1, <2>4, <3>1, <4>1, NotYetPassed
    <3>3. /\ p[keyIndex] \in 1..GroupCount(Names, size)
          /\ groupIndex[keyIndex] \in 1..(GroupCount(Names, size) + 1)
          /\ groupIndex[keyIndex] \notin 1..GroupCount(Names, size)
          /\ GroupCount(Names, size) \in Nat
      BY <1>1, <2>1, BucketCount DEF Placings, Buckets, SearchTypeOK
    <3> QED BY <3>2, <3>3
  <2>5. BestIsPlacing' /\ BestOfPassed'
    BY <1>2, <2>1, <2>4, BestKept
  <2> QED BY <1>3, <2>1, <2>3, <2>5 DEF SearchInv
<1>8. CASE OrderGroups
  <2>1. SearchIsOptimal'
    BY <1>8, OptimalAfterOrder
  <2>2. UNCHANGED <<buckets, keyIndex, groupIndex, best>>
    BY <1>8 DEF OrderGroups
  <2>3. SearchTypeOK' /\ BucketsHoldPlaced'
    BY <1>1, <1>2, <2>2, SameInput DEF SearchTypeOK, BucketsHoldPlaced
  <2>4. \A p : Passed(p)' => Passed(p)
    BY <2>2 DEF Passed
  <2>5. BestIsPlacing' /\ BestOfPassed'
    BY <1>2, <2>2, <2>4, BestKept
  <2> QED BY <2>1, <2>3, <2>5 DEF SearchInv
<1>9. CASE UNCHANGED searchVars
  <2>1. UNCHANGED <<buckets, keyIndex, groupIndex, best, groups>>
    BY <1>9 DEF searchVars
  <2>2. SearchTypeOK' /\ BucketsHoldPlaced'
    BY <1>1, <1>2, <2>1, SameInput DEF SearchTypeOK, BucketsHoldPlaced
  <2>3. \A p : Passed(p)' => Passed(p)
    BY <2>1 DEF Passed
  <2>4. BestIsPlacing' /\ BestOfPassed'
    BY <1>2, <2>1, <2>3, BestKept
  <2> QED BY <1>3, <2>1, <2>2, <2>4 DEF SearchInv
<1> QED BY <1>4, <1>5, <1>6, <1>7, <1>8, <1>9 DEF Next

\* The search of searchPartition, which leaves out full buckets and buckets that look
\* like an earlier one, ends with an optimal division of any keys in any group size.
THEOREM SearchFindsOptimum == Spec => []SearchIsOptimal
<1>1. SearchInv => SearchIsOptimal
  BY DEF SearchInv
<1> QED BY <1>1, SearchInit, SearchStep, PTL DEF Spec
=============================================================================
