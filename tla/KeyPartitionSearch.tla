-------------------------- MODULE KeyPartitionSearch --------------------------
(***************************************************************************)
(* The search by which RebuildGroups of internal/pool/pool.go divides the  *)
(* keys: depth first over the keys, largest first, every key into every    *)
(* bucket that has room, skipping a bucket that looks like an earlier one. *)
(* Each behaviour takes the credits left on every key and a group size and *)
(* runs the search, one iteration of its loop after the other; the module  *)
(* KeyPartition says what its groups must be.                              *)
(*                                                                         *)
(* A key is its position in the order of sort.Slice.  The calls of         *)
(* searchPartition on the stack are numbered by the key that each places,  *)
(* and the call after the last key scores the partition.                   *)
(***************************************************************************)
EXTENDS KeyPartition

CONSTANTS
  KeyCount,   \* bound: the number of keys
  MaxAmount,  \* bound: the most credits a key has left
  MaxSize     \* bound: the largest key_group_size

ASSUME SearchAssumption ==
  KeyCount \in Nat \ {0} /\ MaxAmount \in Nat \ {0} /\ MaxSize \in Nat \ {0}

VARIABLES
  amount,      \* what every key can still serve
  size,        \* key_group_size
  buckets,     \* the partition under construction
  keyIndex,    \* the running call of searchPartition
  groupIndex,  \* where the loop of every call stands
  best,        \* the best partition so far, <<>> before the first
  groups       \* what RebuildGroups makes of it, <<>> until then

searchVars == <<amount, size, buckets, keyIndex, groupIndex, best, groups>>

Names == 1..KeyCount

\* groupCount
Buckets == 1..GroupCount(Names, size)

\* The first groups take one key more when the keys do not divide evenly.
Capacities ==
  LET n == GroupCount(Names, size)
  IN  [g \in 1..n |-> IF g <= KeyCount % n THEN (KeyCount \div n) + 1 ELSE KeyCount \div n]

Put(bucket, k) == [keys |-> bucket.keys \cup {k}, total |-> bucket.total + amount[k]]

TakeBack(bucket, k) == [keys |-> bucket.keys \ {k}, total |-> bucket.total - amount[k]]

BucketTotals(partition) == [g \in Buckets |-> partition[g].total]

\* A key is left, and the loop of its call is not through.
AtBucket == keyIndex \in Names /\ groupIndex[keyIndex] \in Buckets

Full(g) == Cardinality(buckets[g].keys) >= Capacities[g]

\* Mutant: buckets of different capacities are taken for the same.
EquivalentFill(g) ==
  \E h \in 1..(g - 1) : buckets[h].total = buckets[g].total

\* equivalentBucket: an earlier bucket of the same capacity, fill and total makes
\* putting the key into this one a repetition.
EquivalentBucket(g) ==
  \E h \in 1..(g - 1) :
    /\ Capacities[h] = Capacities[g]
    /\ Cardinality(buckets[h].keys) = Cardinality(buckets[g].keys)
    /\ buckets[h].total = buckets[g].total

Init ==
  /\ amount \in [Names -> 1..MaxAmount]
  /\ \A j, k \in Names : j < k => amount[j] >= amount[k]
  /\ size \in 1..MaxSize
  /\ buckets = [g \in Buckets |-> [keys |-> {}, total |-> 0]]
  /\ keyIndex = 1
  /\ groupIndex = [k \in 1..(KeyCount + 1) |-> 1]
  /\ best = <<>>
  /\ groups = <<>>

\* The key goes into the bucket, and the next call begins.
PlaceKey ==
  /\ AtBucket
  /\ LET g == groupIndex[keyIndex]
     IN  /\ ~Full(g)
         /\ ~EquivalentBucket(g)
         /\ buckets' = [buckets EXCEPT ![g] = Put(@, keyIndex)]
  /\ keyIndex' = keyIndex + 1
  /\ groupIndex' = [groupIndex EXCEPT ![keyIndex + 1] = 1]
  /\ UNCHANGED <<amount, size, best, groups>>

\* continue
SkipBucket ==
  /\ AtBucket
  /\ LET g == groupIndex[keyIndex] IN Full(g) \/ EquivalentBucket(g)
  /\ groupIndex' = [groupIndex EXCEPT ![keyIndex] = @ + 1]
  /\ UNCHANGED <<amount, size, buckets, keyIndex, best, groups>>

\* Mutant: the loop of the caller is not moved on.
ReturnToSameBucket ==
  LET caller == keyIndex - 1
      g      == groupIndex[caller]
  IN  /\ buckets' = [buckets EXCEPT ![g] = TakeBack(@, caller)]
      /\ keyIndex' = caller
      /\ groupIndex' = groupIndex

\* The caller takes its key back out of the bucket and goes on with the next one.
ReturnToCaller ==
  LET caller == keyIndex - 1
      g      == groupIndex[caller]
  IN  /\ buckets' = [buckets EXCEPT ![g] = TakeBack(@, caller)]
      /\ keyIndex' = caller
      /\ groupIndex' = [groupIndex EXCEPT ![caller] = g + 1]

\* Every key is placed.
ScorePartition ==
  /\ keyIndex = KeyCount + 1
  /\ best' = IF best = <<>> \/ Better(BucketTotals(buckets), BucketTotals(best))
             THEN buckets
             ELSE best
  /\ ReturnToCaller
  /\ UNCHANGED <<amount, size, groups>>

\* The loop of a call is through.
LoopEnds ==
  /\ keyIndex \in Names /\ groupIndex[keyIndex] \notin Buckets
  /\ keyIndex > 1
  /\ ReturnToCaller
  /\ UNCHANGED <<amount, size, best, groups>>

\* optimalGroups after the search, and orderGroupsForRotation.
OrderGroups ==
  /\ keyIndex = 1 /\ groupIndex[keyIndex] \notin Buckets
  /\ groups = <<>>
  /\ \E order \in Bijection(Buckets, Buckets) :
       /\ InRotationOrder([g \in Buckets |-> best[order[g]].total])
       /\ groups' = [g \in Buckets |-> best[order[g]].keys]
  /\ UNCHANGED <<amount, size, buckets, keyIndex, groupIndex, best>>

Next == PlaceKey \/ SkipBucket \/ ScorePartition \/ LoopEnds \/ OrderGroups

Spec == Init /\ [][Next]_searchVars

\* One goroutine runs the search, which waits for nobody.
SearchSpec == Spec /\ WF_searchVars(Next)

----------------------------------------------------------------------------
(* Properties.                                                              *)

AssignmentOf(gs) == [k \in Names |-> CHOOSE g \in DOMAIN gs : k \in gs[g]]

\* The pruned search loses nothing: its groups hold every key once, differ in size
\* by at most one, have the smallest spread of credits that any such division has
\* and at that spread the smallest variance, and the largest group comes first.
SearchIsOptimal ==
  groups # <<>> =>
    /\ UNION {groups[g] : g \in DOMAIN groups} = Names
    /\ \A g, h \in DOMAIN groups : g # h => groups[g] \cap groups[h] = {}
    /\ AssignmentOf(groups) \in Rotations(Names, size, amount)

\* RebuildGroups holds Pool.mu while it searches, and every request waits for it.
\* The search always comes back with groups: the pruning never leaves out all the
\* divisions there are, and the calls on the stack all end.
SearchReturns == <>(groups # <<>>)
=============================================================================
