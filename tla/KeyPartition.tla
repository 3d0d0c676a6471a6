---------------------------- MODULE KeyPartition ----------------------------
(***************************************************************************)
(* How a rebuild divides the usable keys into groups, stated by what the   *)
(* result is and not by how the search of internal/pool/pool.go finds it.  *)
(*                                                                         *)
(* An assignment maps every key to the number of its group; the numbers    *)
(* are the positions of the groups in rotation order.  The module          *)
(* KeyPartitionSearch runs the search itself against this definition.      *)
(***************************************************************************)
EXTENDS Integers, FiniteSets, FiniteSetsExt

\* The sum of f[x] over S, by counting: x contributes f[x] elements.
SumOver(S, f) == Cardinality(UNION {{x} \X (1..f[x]) : x \in S})

\* RebuildGroups: ceil(len(keys) / Size) groups.
GroupCount(keys, size) == (Cardinality(keys) + size - 1) \div size

KeysOf(assignment, g) == {k \in DOMAIN assignment : assignment[k] = g}

\* partitionBucket.total: what the keys of every group can still serve together.
Totals(assignment, n, amount) == [g \in 1..n |-> SumOver(KeysOf(assignment, g), amount)]

\* The capacities differ by at most one, as len(keys) divided over the groups.
EvenlySized(keys, n) ==
  {assignment \in [keys -> 1..n] :
     \A g \in 1..n :
       LET smallest == Cardinality(keys) \div n
       IN  Cardinality(KeysOf(assignment, g)) \in {smallest, smallest + 1}}

\* scorePartition of the totals of the groups.
Spread(total) ==
  LET values == {total[g] : g \in DOMAIN total}
  IN  Max(values) - Min(values)

\* The mean of n totals is sum / n: times n, a distance from it is whole.
Variance(total) ==
  LET n   == Cardinality(DOMAIN total)
      sum == SumOver(DOMAIN total, total)
  IN  SumOver(DOMAIN total,
              [g \in DOMAIN total |-> (n * total[g] - sum) * (n * total[g] - sum)])

\* betterPartition: the smaller spread, and at equal spread the smaller variance.
\* Totals are whole, so its epsilon never bridges two scores.
Better(candidate, current) ==
  \/ Spread(candidate) < Spread(current)
  \/ /\ Spread(candidate) = Spread(current)
     /\ Variance(candidate) < Variance(current)

\* orderGroupsForRotation puts the group that can serve most first.  Groups that
\* can serve the same follow the hash of the month and their key names, which is
\* an arbitrary order here.
InRotationOrder(total) ==
  \A g, h \in DOMAIN total : g < h => total[g] >= total[h]

\* The rotations a rebuild may produce from these keys.
Rotations(keys, size, amount) ==
  LET n == GroupCount(keys, size)
  IN  {a \in EvenlySized(keys, n) :
         /\ InRotationOrder(Totals(a, n, amount))
         /\ \A b \in EvenlySized(keys, n) :
              ~Better(Totals(b, n, amount), Totals(a, n, amount))}
=============================================================================
