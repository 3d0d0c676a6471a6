-------------------------- MODULE KeyPartitionProofs --------------------------
(***************************************************************************)
(* Lemmas about the operators of KeyPartition: sums, the sizes and totals  *)
(* of the groups of an assignment, and the order of scores; and the        *)
(* theorem that there always is a rotation.                                *)
(***************************************************************************)
EXTENDS KeyPartition, FiniteSetTheorems, FunctionTheorems, TLAPS

----------------------------------------------------------------------------
(* Counting.                                                                *)

LEMMA IntervalSize ==
  ASSUME NEW n \in Nat
  PROVE  IsFiniteSet(1..n) /\ Cardinality(1..n) = n
BY FS_Interval

LEMMA BijectionIs ==
  ASSUME NEW S, NEW T, NEW f \in Bijection(S, T)
  PROVE  /\ f \in [S -> T]
         /\ \A x \in S : f[x] \in T
         /\ \A x, y \in S : f[x] = f[y] => x = y
         /\ \A z \in T : \E x \in S : f[x] = z
BY DEF Bijection, Injection, IsInjective, Surjection

LEMMA DisjointUnion ==
  ASSUME NEW A, NEW B, IsFiniteSet(A), IsFiniteSet(B), A \cap B = {}
  PROVE  Cardinality(A \cup B) = Cardinality(A) + Cardinality(B)
<1>1. Cardinality(A) \in Nat /\ Cardinality(B) \in Nat
  BY FS_CardinalityType
<1>2. Cardinality(A \cap B) = 0
  BY FS_EmptySet
<1>3. Cardinality(A \cup B) = Cardinality(A) + Cardinality(B) - Cardinality(A \cap B)
  BY FS_Union
<1> QED BY <1>1, <1>2, <1>3

LEMMA PairsWithOne ==
  ASSUME NEW x, NEW S, IsFiniteSet(S)
  PROVE  Cardinality({x} \X S) = Cardinality(S)
<1>1. IsFiniteSet({x}) /\ Cardinality({x}) = 1
  BY FS_Singleton
<1>2. Cardinality({x} \X S) = Cardinality({x}) * Cardinality(S)
  BY <1>1, FS_Product
<1>3. Cardinality(S) \in Nat
  BY FS_CardinalityType
<1> QED BY <1>1, <1>2, <1>3

----------------------------------------------------------------------------
(* Sums.                                                                    *)

\* What SumOver counts.
Units(S, f) == UNION {{x} \X (1..f[x]) : x \in S}

LEMMA SumCountsUnits == \A S, f : SumOver(S, f) = Cardinality(Units(S, f))
BY DEF SumOver, Units

LEMMA UnitsAre ==
  ASSUME NEW S, NEW f, NEW u
  PROVE  u \in Units(S, f) <=> \E x \in S : \E i \in 1..f[x] : u = <<x, i>>
BY DEF Units

\* A sum of finitely many natural numbers is a natural number.
LEMMA SumIsNat ==
  ASSUME NEW S, NEW f, IsFiniteSet(S), \A x \in S : f[x] \in Nat
  PROVE  IsFiniteSet(Units(S, f)) /\ SumOver(S, f) \in Nat
<1> DEFINE Family == {{x} \X (1..f[x]) : x \in S}
           image  == [x \in S |-> {x} \X (1..f[x])]
<1>1. image \in Surjection(S, Family)
  BY DEF Surjection
<1>2. IsFiniteSet(Family)
  <2> HIDE DEF image, Family
  <2> QED BY <1>1, FS_Surjection
<1>3. \A x \in S : IsFiniteSet({x} \X (1..f[x]))
  <2>1. TAKE x \in S
  <2>2. IsFiniteSet(1..f[x])
    BY FS_Interval
  <2>3. IsFiniteSet({x})
    BY FS_Singleton
  <2> QED BY <2>2, <2>3, FS_Product
<1>4. \A T \in Family : IsFiniteSet(T)
  BY <1>3
<1>5. IsFiniteSet(UNION Family)
  <2> HIDE DEF Family
  <2> QED BY <1>2, <1>4, FS_UNION
<1> QED BY <1>5, FS_CardinalityType, SumCountsUnits DEF Units

\* The sums over disjoint sets add up.
LEMMA SumSplits ==
  ASSUME NEW S, NEW T, NEW f, IsFiniteSet(S), IsFiniteSet(T), S \cap T = {},
         \A x \in S \cup T : f[x] \in Nat
  PROVE  SumOver(S \cup T, f) = SumOver(S, f) + SumOver(T, f)
<1>1. Units(S \cup T, f) = Units(S, f) \cup Units(T, f)
  BY DEF Units
<1>2. Units(S, f) \cap Units(T, f) = {}
  BY DEF Units
<1>3. IsFiniteSet(Units(S, f)) /\ IsFiniteSet(Units(T, f))
  BY SumIsNat
<1> QED BY <1>1, <1>2, <1>3, DisjointUnion, SumCountsUnits

LEMMA SumOfNone == \A f : SumOver({}, f) = 0
BY FS_EmptySet DEF SumOver

LEMMA SumOfOne ==
  ASSUME NEW x, NEW f, f[x] \in Nat
  PROVE  SumOver({x}, f) = f[x]
<1>1. Units({x}, f) = {x} \X (1..f[x])
  BY DEF Units
<1>2. IsFiniteSet(1..f[x]) /\ Cardinality(1..f[x]) = f[x]
  BY IntervalSize
<1>3. Cardinality({x} \X (1..f[x])) = Cardinality(1..f[x])
  BY <1>2, PairsWithOne
<1> QED BY <1>1, <1>2, <1>3, SumCountsUnits

LEMMA SumAdds ==
  ASSUME NEW S, NEW x, NEW f, IsFiniteSet(S), x \notin S, \A y \in S \cup {x} : f[y] \in Nat
  PROVE  SumOver(S \cup {x}, f) = SumOver(S, f) + f[x]
<1>1. IsFiniteSet({x}) /\ S \cap {x} = {}
  BY FS_Singleton
<1>2. SumOver(S \cup {x}, f) = SumOver(S, f) + SumOver({x}, f)
  BY <1>1, SumSplits
<1> QED BY <1>2, SumOfOne

\* A sum does not depend on the order or on the names of what is added.
LEMMA SumMoves ==
  ASSUME NEW S, NEW T, NEW f, NEW h, IsFiniteSet(S),
         \A x \in S : f[x] \in Nat,
         NEW move \in Bijection(S, T), \A x \in S : h[move[x]] = f[x]
  PROVE  SumOver(T, h) = SumOver(S, f)
<1> DEFINE A == Units(S, f)
           B == Units(T, h)
           shift == [u \in A |-> <<move[u[1]], u[2]>>]
<1>1. /\ move \in [S -> T]
      /\ \A x, y \in S : move[x] = move[y] => x = y
      /\ \A y \in T : \E x \in S : move[x] = y
  BY BijectionIs
<1>2. \A u \in A : u = <<u[1], u[2]>> /\ u[1] \in S /\ u[2] \in 1..f[u[1]]
  BY UnitsAre
<1>3. shift \in [A -> B]
  <2>1. ASSUME NEW u \in A PROVE <<move[u[1]], u[2]>> \in B
    <3>1. move[u[1]] \in T /\ u[2] \in 1..h[move[u[1]]]
      BY <1>1, <1>2
    <3> QED BY <3>1, UnitsAre
  <2> QED BY <2>1
<1>4. ASSUME NEW u \in A, NEW v \in A, shift[u] = shift[v]
      PROVE  u = v
  <2>1. move[u[1]] = move[v[1]] /\ u[2] = v[2]
    BY <1>4
  <2>2. u[1] = v[1]
    BY <1>1, <1>2, <2>1
  <2> QED BY <1>2, <2>1, <2>2
<1>5. ASSUME NEW w \in B
      PROVE  \E u \in A : shift[u] = w
  <2>1. PICK y \in T : \E i \in 1..h[y] : w = <<y, i>>
    BY UnitsAre
  <2> PICK i \in 1..h[y] : w = <<y, i>>
    BY <2>1
  <2>2. PICK x \in S : move[x] = y
    BY <1>1
  <2>3. i \in 1..f[x]
    BY <2>2
  <2>4. <<x, i>> \in A
    BY <2>3, UnitsAre
  <2>5. shift[<<x, i>>] = w
    BY <2>2, <2>4
  <2> QED BY <2>4, <2>5
<1>6. shift \in Bijection(A, B)
  <2> HIDE DEF shift, A, B
  <2> QED BY <1>3, <1>4, <1>5, Fun_IsBij
<1>7. ExistsBijection(A, B)
  BY <1>6 DEF ExistsBijection
<1>8. Cardinality(B) = Cardinality(A)
  BY <1>7, SumIsNat, FS_Bijection
<1> QED BY <1>8, SumCountsUnits

\* A sum depends on the values added only.
LEMMA SumSame ==
  ASSUME NEW S, NEW f, NEW h, \A x \in S : f[x] = h[x]
  PROVE  SumOver(S, f) = SumOver(S, h)
BY DEF SumOver

----------------------------------------------------------------------------
(* Scores.                                                                  *)

LEMMA GreatestExists ==
  ASSUME NEW S \in SUBSET Int, IsFiniteSet(S), S # {}
  PROVE  Max(S) \in S /\ \A y \in S : Max(S) >= y
<1> DEFINE Above(x) == {y \in S : y > x}
           Family   == {Above(x) : x \in S}
<1>1. IsWellFoundedOn(StrictSubsetOrdering(S), SUBSET S)
  BY FS_StrictSubsetOrderingWellFounded, FS_FiniteSubsetsOfFinite
<1>2. Family \subseteq SUBSET S /\ Family # {}
  OBVIOUS
<1>3. PICK U \in Family : \A V \in Family : ~(<<V, U>> \in StrictSubsetOrdering(S))
  <2> HIDE DEF Family
  <2> QED BY <1>1, <1>2, WFMin
<1>4. PICK x \in S : U = Above(x)
  OBVIOUS
<1>5. ASSUME NEW y \in S PROVE x >= y
  <2> SUFFICES ASSUME y > x PROVE FALSE
    OBVIOUS
  <2>1. Above(y) \subseteq Above(x) /\ y \in Above(x) /\ y \notin Above(y)
    <3>1. \A z \in S : z \in Int
      OBVIOUS
    <3>2. \A z \in S : z > y => z > x
      BY <3>1
    <3>3. Above(y) \subseteq Above(x)
      BY <3>2
    <3>4. ~(y > y)
      BY <3>1
    <3>5. y \in Above(x) /\ y \notin Above(y)
      BY <3>4
    <3> QED BY <3>3, <3>5
  <2>2. <<Above(y), U>> \in StrictSubsetOrdering(S)
    BY <1>4, <2>1 DEF StrictSubsetOrdering
  <2> QED BY <1>3, <2>2
<1> QED BY <1>5 DEF Max

LEMMA SmallestExists ==
  ASSUME NEW S \in SUBSET Int, IsFiniteSet(S), S # {}
  PROVE  Min(S) \in S /\ \A y \in S : Min(S) <= y
<1> DEFINE negative == [x \in S |-> -x]
           T == {-x : x \in S}
<1>1. negative \in Surjection(S, T)
  BY DEF Surjection
<1>2. IsFiniteSet(T)
  <2> HIDE DEF negative, T
  <2> QED BY <1>1, FS_Surjection
<1>3. T \in SUBSET Int /\ T # {}
  OBVIOUS
<1>4. Max(T) \in T /\ \A y \in T : Max(T) >= y
  <2> HIDE DEF T
  <2> QED BY <1>2, <1>3, GreatestExists
<1>5. PICK x \in S : Max(T) = -x
  BY <1>4
<1>6. \A y \in S : x <= y
  <2> TAKE y \in S
  <2>1. -y \in T
    OBVIOUS
  <2>2. -x >= -y
    BY <1>4, <1>5, <2>1
  <2> QED BY <2>2
<1> QED BY <1>6 DEF Min

LEMMA SpreadType ==
  ASSUME NEW n \in Nat \ {0}, NEW total \in [1..n -> Nat]
  PROVE  Spread(total) \in Nat
<1> DEFINE values == {total[g] : g \in 1..n}
<1>1. total \in Surjection(1..n, values)
  BY DEF Surjection
<1>2. IsFiniteSet(values)
  <2> HIDE DEF values
  <2> QED BY <1>1, IntervalSize, FS_Surjection
<1>3. values \in SUBSET Int /\ values # {}
  <2>1. total[1] \in values
    OBVIOUS
  <2> QED BY <2>1
<1>4. Spread(total) = Max(values) - Min(values)
  BY DEF Spread
<1> HIDE DEF values
<1>5. /\ Max(values) \in values
      /\ Min(values) \in values /\ \A y \in values : Min(values) <= y
  BY <1>2, <1>3, GreatestExists, SmallestExists
<1>6. Min(values) <= Max(values) /\ Max(values) \in Int /\ Min(values) \in Int
  BY <1>3, <1>5
<1> QED BY <1>4, <1>6

\* The distance of a total from the mean, squared.
Squares(n, total) ==
  [g \in 1..n |-> (n * total[g] - SumOver(1..n, total)) * (n * total[g] - SumOver(1..n, total))]

LEMMA SquareIsNat == \A x \in Int : x * x \in Nat
OBVIOUS

LEMMA VarianceIs ==
  ASSUME NEW n \in Nat \ {0}, NEW total \in [1..n -> Nat]
  PROVE  /\ Variance(total) = SumOver(1..n, Squares(n, total))
         /\ \A g \in 1..n : Squares(n, total)[g] \in Nat
         /\ Variance(total) \in Nat
<1>1. DOMAIN total = 1..n /\ IsFiniteSet(1..n) /\ Cardinality(1..n) = n
  BY IntervalSize
<1>2. SumOver(1..n, total) \in Nat
  BY <1>1, SumIsNat
<1>3. Variance(total) = SumOver(1..n, Squares(n, total))
  BY <1>1 DEF Variance, Squares
<1>4. ASSUME NEW g \in 1..n PROVE Squares(n, total)[g] \in Nat
  <2>1. n * total[g] - SumOver(1..n, total) \in Int
    BY <1>2
  <2> QED BY <2>1, SquareIsNat DEF Squares
<1>5. SumOver(1..n, Squares(n, total)) \in Nat
  BY <1>1, <1>4, SumIsNat
<1> QED BY <1>3, <1>4, <1>5

Values(D, f) == {f[x] : x \in D}

LEMMA SpreadIs ==
  ASSUME NEW n, NEW total \in [1..n -> Nat]
  PROVE  Spread(total) = Max(Values(1..n, total)) - Min(Values(1..n, total))
<1>1. DOMAIN total = 1..n
  OBVIOUS
<1> QED BY <1>1 DEF Spread, Values

LEMMA ValuesMove ==
  ASSUME NEW D, NEW f, NEW h,
         NEW move \in Bijection(D, D), \A x \in D : h[move[x]] = f[x]
  PROVE  Values(D, h) = Values(D, f)
<1>1. \A x \in D : move[x] \in D
  BY DEF Bijection, Injection
<1>2. \A y \in D : \E x \in D : move[x] = y
  BY DEF Bijection, Surjection
<1>3. \A x \in D : h[x] \in {f[y] : y \in D}
  BY <1>2
<1>4. \A x \in D : f[x] \in {h[y] : y \in D}
  BY <1>1
<1> QED BY <1>3, <1>4 DEF Values

LEMMA SumPermuted ==
  ASSUME NEW D, NEW f, NEW h, IsFiniteSet(D), \A x \in D : f[x] \in Nat,
         NEW move \in Bijection(D, D), \A x \in D : h[move[x]] = f[x]
  PROVE  SumOver(D, h) = SumOver(D, f)
BY SumMoves

GroupTotals(n) == [1..n -> Nat]

Renumberings(n) == Bijection(1..n, 1..n)

\* A score does not depend on the order of the groups.
LEMMA ScoreMoves ==
  ASSUME NEW n \in Nat \ {0}, NEW total \in GroupTotals(n), NEW other \in GroupTotals(n),
         NEW move \in Renumberings(n), \A g \in 1..n : other[move[g]] = total[g]
  PROVE  Spread(other) = Spread(total) /\ Variance(other) = Variance(total)
<1> USE DEF GroupTotals, Renumberings
<1>1. /\ move \in [1..n -> 1..n]
      /\ \A h \in 1..n : \E g \in 1..n : move[g] = h
  BY DEF Bijection, Injection, Surjection
<1>2. DOMAIN total = 1..n /\ DOMAIN other = 1..n /\ IsFiniteSet(1..n)
  BY IntervalSize
<1>3. Spread(other) = Spread(total)
  <2>1. Values(1..n, other) = Values(1..n, total)
    BY ValuesMove
  <2> QED BY <2>1, SpreadIs
<1>4. SumOver(1..n, other) = SumOver(1..n, total)
  <2>1. \A g \in 1..n : total[g] \in Nat
    OBVIOUS
  <2> QED BY <1>2, <2>1, SumPermuted
<1>5. \A g \in 1..n : Squares(n, other)[move[g]] = Squares(n, total)[g]
  BY <1>1, <1>4 DEF Squares
<1>6. SumOver(1..n, Squares(n, other)) = SumOver(1..n, Squares(n, total))
  <2>1. \A g \in 1..n : Squares(n, total)[g] \in Nat
    BY VarianceIs
  <2> QED BY <1>2, <1>5, <2>1, SumPermuted
<1> QED BY <1>3, <1>6, VarianceIs

LEMMA BetterIsIrreflexive == \A n \in Nat \ {0} : \A a \in [1..n -> Nat] : ~Better(a, a)
BY SpreadType, VarianceIs DEF Better

\* What is not better than one score is not better than a better one.
LEMMA BetterIsOrder ==
  ASSUME NEW n \in Nat \ {0}, NEW a \in [1..n -> Nat], NEW b \in [1..n -> Nat],
         NEW c \in [1..n -> Nat], ~Better(a, b), Better(c, b)
  PROVE  ~Better(a, c)
<1>1. /\ Spread(a) \in Nat /\ Spread(b) \in Nat /\ Spread(c) \in Nat
      /\ Variance(a) \in Nat /\ Variance(b) \in Nat /\ Variance(c) \in Nat
  BY SpreadType, VarianceIs
<1> QED BY <1>1 DEF Better

----------------------------------------------------------------------------
(* How an assignment fills its groups.                                      *)

LEMMA GroupsAreFinite ==
  ASSUME NEW S, IsFiniteSet(S), NEW n, NEW a \in [S -> 1..n], NEW g
  PROVE  /\ KeysOf(a, g) \in SUBSET S
         /\ IsFiniteSet(KeysOf(a, g)) /\ Cardinality(KeysOf(a, g)) \in Nat
BY FS_Subset, FS_CardinalityType DEF KeysOf

Sizes(a, n) == [g \in 1..n |-> Cardinality(KeysOf(a, g))]

\* The sizes of the groups add up to the number of keys.
LEMMA SizesAddUp ==
  ASSUME NEW S, IsFiniteSet(S), NEW n \in Nat, NEW a \in [S -> 1..n]
  PROVE  SumOver(1..n, Sizes(a, n)) = Cardinality(S)
<1> DEFINE sizes == Sizes(a, n)
           list  == [g \in 1..n |-> CHOOSE b : b \in Bijection(1..sizes[g], KeysOf(a, g))]
           A     == Units(1..n, sizes)
           all   == [u \in A |-> list[u[1]][u[2]]]
<1>1. \A g \in 1..n : sizes[g] = Cardinality(KeysOf(a, g)) /\ sizes[g] \in Nat
  BY GroupsAreFinite DEF Sizes
<1>2. ASSUME NEW g \in 1..n
      PROVE  list[g] \in Bijection(1..sizes[g], KeysOf(a, g))
  <2>1. ExistsBijection(1..sizes[g], KeysOf(a, g))
    BY <1>1, GroupsAreFinite, FS_CardinalityType
  <2> QED BY <2>1 DEF ExistsBijection
<1> HIDE DEF sizes, list
<1>3. \A g \in 1..n : \A i \in 1..sizes[g] : list[g][i] \in S /\ a[list[g][i]] = g
  BY <1>2 DEF Bijection, Injection, KeysOf
<1>4. \A u \in A : u = <<u[1], u[2]>> /\ u[1] \in 1..n /\ u[2] \in 1..sizes[u[1]]
  BY UnitsAre
<1>5. all \in [A -> S]
  BY <1>3, <1>4
<1>6. ASSUME NEW u \in A, NEW v \in A, all[u] = all[v]
      PROVE  u = v
  <2>1. list[u[1]][u[2]] = list[v[1]][v[2]]
    BY <1>6
  <2>2. u[1] = v[1]
    BY <1>3, <1>4, <2>1
  <2>3. list[u[1]] \in Injection(1..sizes[u[1]], KeysOf(a, u[1]))
    BY <1>2, <1>4 DEF Bijection
  <2>4. u[2] = v[2]
    BY <1>4, <2>1, <2>2, <2>3 DEF Injection, IsInjective
  <2> QED BY <1>4, <2>2, <2>4
<1>7. ASSUME NEW k \in S
      PROVE  \E u \in A : all[u] = k
  <2>1. a[k] \in 1..n /\ k \in KeysOf(a, a[k])
    BY DEF KeysOf
  <2>2. PICK i \in 1..sizes[a[k]] : list[a[k]][i] = k
    BY <1>2, <2>1 DEF Bijection, Surjection
  <2>3. <<a[k], i>> \in A
    BY <2>1, <2>2, UnitsAre
  <2>4. all[<<a[k], i>>] = k
    BY <2>2, <2>3
  <2> QED BY <2>3, <2>4
<1>8. ExistsBijection(A, S)
  <2>1. all \in Bijection(A, S)
    <3> HIDE DEF all, A
    <3> QED BY <1>5, <1>6, <1>7, Fun_IsBij
  <2> QED BY <2>1 DEF ExistsBijection
<1>9. IsFiniteSet(A)
  BY <1>1, IntervalSize, SumIsNat
<1>10. Cardinality(S) = Cardinality(A)
  BY <1>8, <1>9, FS_Bijection
<1> QED BY <1>10, SumCountsUnits DEF sizes

\* n groups of m keys, and one key more in some of them.
LEMMA TwoLevels ==
  ASSUME NEW n \in Nat, NEW m \in Nat, NEW B \in SUBSET (1..n), NEW f,
         \A g \in 1..n : f[g] = IF g \in B THEN m + 1 ELSE m
  PROVE  SumOver(1..n, f) = n * m + Cardinality(B)
<1>1. /\ IsFiniteSet(1..n) /\ Cardinality(1..n) = n
      /\ IsFiniteSet(1..m) /\ Cardinality(1..m) = m
      /\ IsFiniteSet(B) /\ Cardinality(B) \in Nat
      /\ IsFiniteSet({m + 1}) /\ Cardinality({m + 1}) = 1
  BY IntervalSize, FS_Subset, FS_CardinalityType, FS_Singleton
<1> DEFINE Even == (1..n) \X (1..m)
           More == B \X {m + 1}
<1>2. IsFiniteSet(Even) /\ Cardinality(Even) = n * m
  <2>1. /\ IsFiniteSet((1..n) \X (1..m))
        /\ Cardinality((1..n) \X (1..m)) = Cardinality(1..n) * Cardinality(1..m)
    BY <1>1, FS_Product
  <2> QED BY <1>1, <2>1
<1>3. IsFiniteSet(More) /\ Cardinality(More) = Cardinality(B)
  <2>1. /\ IsFiniteSet(B \X {m + 1})
        /\ Cardinality(B \X {m + 1}) = Cardinality(B) * Cardinality({m + 1})
    BY <1>1, FS_Product
  <2> QED BY <1>1, <2>1
<1>4. Even \cap More = {}
  BY SMT
<1>5. Units(1..n, f) = Even \cup More
  <2>1. ASSUME NEW u \in Units(1..n, f) PROVE u \in Even \cup More
    <3>1. PICK g \in 1..n : \E i \in 1..f[g] : u = <<g, i>>
      BY UnitsAre
    <3>2. PICK i \in 1..f[g] : u = <<g, i>>
      BY <3>1
    <3>3. i \in 1..m \/ (g \in B /\ i = m + 1)
      BY <3>2
    <3> QED BY <3>2, <3>3
  <2>2. ASSUME NEW u \in Even \cup More PROVE u \in Units(1..n, f)
    <3>1. CASE u \in Even
      <4>1. PICK g \in 1..n, i \in 1..m : u = <<g, i>>
        BY <3>1
      <4>2. i \in 1..f[g]
        OBVIOUS
      <4> QED BY <4>1, <4>2, UnitsAre
    <3>2. CASE u \in More
      <4>1. u = <<u[1], u[2]>> /\ u[1] \in B /\ u[2] = m + 1
        BY <3>2
      <4> PICK g \in B, i \in {m + 1} : u = <<g, i>>
        BY <4>1
      <4>2. g \in 1..n /\ i \in 1..f[g]
        OBVIOUS
      <4> QED BY <4>2, UnitsAre
    <3> QED BY <3>1, <3>2
  <2> QED BY <2>1, <2>2
<1>6. Cardinality(Units(1..n, f)) = Cardinality(Even) + Cardinality(More)
  <2> HIDE DEF Even, More
  <2> QED BY <1>2, <1>3, <1>4, <1>5, DisjointUnion
<1> QED BY <1>2, <1>3, <1>6, SumCountsUnits

\* Groups that are within their capacities and hold as much together are full.
LEMMA FullWhenEqual ==
  ASSUME NEW n \in Nat, NEW f \in [1..n -> Nat], NEW cap \in [1..n -> Nat],
         \A g \in 1..n : f[g] <= cap[g], SumOver(1..n, f) = SumOver(1..n, cap),
         NEW h \in 1..n
  PROVE  f[h] = cap[h]
<1>1. Units(1..n, f) \in SUBSET Units(1..n, cap)
  <2>1. ASSUME NEW u \in Units(1..n, f) PROVE u \in Units(1..n, cap)
    <3>1. PICK g \in 1..n : \E i \in 1..f[g] : u = <<g, i>>
      BY UnitsAre
    <3>2. PICK i \in 1..f[g] : u = <<g, i>>
      BY <3>1
    <3>3. i \in 1..cap[g]
      OBVIOUS
    <3> QED BY <3>2, <3>3, UnitsAre
  <2> QED BY <2>1
<1>2. IsFiniteSet(Units(1..n, cap))
  BY IntervalSize, SumIsNat
<1>3. Units(1..n, f) = Units(1..n, cap)
  BY <1>1, <1>2, SumCountsUnits, FS_Subset
<1> SUFFICES ASSUME f[h] < cap[h] PROVE FALSE
  OBVIOUS
<1>4. <<h, cap[h]>> \in Units(1..n, cap)
  <2>1. cap[h] \in 1..cap[h]
    BY f[h] \in Nat /\ cap[h] \in Nat
  <2> QED BY <2>1, UnitsAre
<1>5. PICK g \in 1..n : \E i \in 1..f[g] : <<h, cap[h]>> = <<g, i>>
  BY <1>3, <1>4, UnitsAre
<1> QED BY <1>5

\* c keys over n groups: the first groups take one key more.
EvenSizes(c, n) == [g \in 1..n |-> IF g <= c % n THEN (c \div n) + 1 ELSE c \div n]

LEMMA DivisionRule ==
  ASSUME NEW c \in Nat, NEW n \in Nat \ {0}
  PROVE  /\ c \div n \in Nat /\ c % n \in 0..(n - 1)
         /\ c = n * (c \div n) + (c % n)
OBVIOUS

LEMMA EvenSizesAddUp ==
  ASSUME NEW c \in Nat, NEW n \in Nat \ {0}
  PROVE  /\ \A g \in 1..n : EvenSizes(c, n)[g] \in Nat
         /\ SumOver(1..n, EvenSizes(c, n)) = c
<1> DEFINE m == c \div n
           r == c % n
<1>1. m \in Nat /\ r \in 0..(n - 1) /\ c = n * m + r
  BY DivisionRule
<1>2. EvenSizes(c, n) = [g \in 1..n |-> IF g <= r THEN m + 1 ELSE m]
  BY DEF EvenSizes
<1> HIDE DEF m, r
<1>3. 1..r \in SUBSET (1..n) /\ Cardinality(1..r) = r
  BY <1>1, IntervalSize
<1>4. \A g \in 1..n : EvenSizes(c, n)[g] = IF g \in 1..r THEN m + 1 ELSE m
  BY <1>1, <1>2
<1>5. SumOver(1..n, EvenSizes(c, n)) = n * m + Cardinality(1..r)
  BY <1>1, <1>3, <1>4, TwoLevels
<1> QED BY <1>1, <1>3, <1>4, <1>5

\* An assignment within these sizes divides the keys evenly.
LEMMA WithinIsEven ==
  ASSUME NEW S, IsFiniteSet(S), NEW n \in Nat \ {0}, NEW a \in [S -> 1..n],
         \A g \in 1..n : Cardinality(KeysOf(a, g)) <= EvenSizes(Cardinality(S), n)[g]
  PROVE  /\ a \in EvenlySized(S, n)
         /\ \A g \in 1..n : Cardinality(KeysOf(a, g)) = EvenSizes(Cardinality(S), n)[g]
<1> DEFINE c   == Cardinality(S)
           cap == EvenSizes(c, n)
<1>1. c \in Nat
  BY FS_CardinalityType
<1>2. (\A g \in 1..n : cap[g] \in Nat) /\ SumOver(1..n, cap) = c
  BY <1>1, EvenSizesAddUp
<1>3. \A g \in 1..n : Sizes(a, n)[g] = Cardinality(KeysOf(a, g)) /\ Sizes(a, n)[g] \in Nat
  BY GroupsAreFinite DEF Sizes
<1>4. SumOver(1..n, Sizes(a, n)) = c
  BY SizesAddUp
<1> HIDE DEF cap
<1>5. \A g \in 1..n : Sizes(a, n)[g] <= cap[g]
  BY <1>3 DEF cap
<1>6. \A g \in 1..n : Sizes(a, n)[g] = cap[g]
  <2>1. TAKE g \in 1..n
  <2>2. Sizes(a, n) \in [1..n -> Nat] /\ cap \in [1..n -> Nat]
    BY <1>2, <1>3 DEF Sizes, cap, EvenSizes
  <2>3. SumOver(1..n, Sizes(a, n)) = SumOver(1..n, cap)
    BY <1>2, <1>4
  <2> QED BY <1>5, <2>2, <2>3, FullWhenEqual
<1>7. \A g \in 1..n : cap[g] \in {c \div n, (c \div n) + 1}
  BY DEF cap, EvenSizes
<1>8. a \in EvenlySized(S, n)
  BY <1>3, <1>6, <1>7 DEF EvenlySized
<1> QED BY <1>3, <1>6, <1>8 DEF cap

\* The groups of an even division can be numbered so that the larger ones come first.
LEMMA EvenIsWithin ==
  ASSUME NEW S, IsFiniteSet(S), NEW n \in Nat \ {0}, NEW a \in EvenlySized(S, n)
  PROVE  \E move \in Renumberings(n) :
            \A g \in 1..n :
              Cardinality(KeysOf(a, g)) = EvenSizes(Cardinality(S), n)[move[g]]
<1> DEFINE c == Cardinality(S)
           m == c \div n
           r == c % n
           B == {g \in 1..n : Cardinality(KeysOf(a, g)) = m + 1}
<1>1. c \in Nat
  BY FS_CardinalityType
<1>2. m \in Nat /\ r \in 0..(n - 1) /\ c = n * m + r
  BY <1>1, DivisionRule
<1>3. a \in [S -> 1..n] /\ \A g \in 1..n : Cardinality(KeysOf(a, g)) \in {m, m + 1}
  BY DEF EvenlySized
<1>4. EvenSizes(c, n) = [g \in 1..n |-> IF g <= r THEN m + 1 ELSE m]
  BY DEF EvenSizes
<1> HIDE DEF m, r, c
<1>5. B \in SUBSET (1..n)
  OBVIOUS
<1>6. \A g \in 1..n : Sizes(a, n)[g] = IF g \in B THEN m + 1 ELSE m
  BY <1>3 DEF Sizes
<1> HIDE DEF B
<1>7. SumOver(1..n, Sizes(a, n)) = n * m + Cardinality(B)
  BY <1>2, <1>5, <1>6, TwoLevels
<1>8. c = n * m + Cardinality(B)
  BY <1>3, <1>7, SizesAddUp DEF c
<1>9. IsFiniteSet(B) /\ Cardinality(B) \in Nat /\ IsFiniteSet(1..n) /\ Cardinality(1..n) = n
  BY <1>5, IntervalSize, FS_Subset, FS_CardinalityType
<1>10. Cardinality(B) = r
  <2>1. n * m \in Nat
    BY <1>2
  <2> QED BY <1>2, <1>8, <1>9, <2>1
<1> DEFINE Rest == (1..n) \ B
<1>11. IsFiniteSet(Rest) /\ Cardinality(Rest) = n - r
  <2>1. (1..n) \cap B = B
    BY <1>5
  <2> QED BY <1>9, <1>10, <2>1, FS_Difference
<1>12. PICK big \in Bijection(B, 1..r) : TRUE
  <2>1. IsFiniteSet(1..r) /\ Cardinality(1..r) = r
    BY <1>2, IntervalSize
  <2> QED BY <1>9, <1>10, <2>1, FS_SameCardinalityBij DEF ExistsBijection
<1>13. PICK small \in Bijection(Rest, (r + 1)..n) : TRUE
  <2>1. IsFiniteSet((r + 1)..n) /\ Cardinality((r + 1)..n) = n - r
    <3>1. r + 1 \in Int /\ n \in Int
      BY <1>2
    <3>2. /\ IsFiniteSet((r + 1)..n)
          /\ Cardinality((r + 1)..n) = IF r + 1 > n THEN 0 ELSE n - (r + 1) + 1
      BY <3>1, FS_Interval
    <3> QED BY <1>2, <3>2
  <2> HIDE DEF Rest
  <2> QED BY <1>11, <2>1, FS_SameCardinalityBij DEF ExistsBijection
<1> DEFINE move == [g \in 1..n |-> IF g \in B THEN big[g] ELSE small[g]]
<1>14. /\ \A g \in B : big[g] \in 1..r
       /\ \A g, h \in B : big[g] = big[h] => g = h
       /\ \A i \in 1..r : \E g \in B : big[g] = i
  BY <1>12 DEF Bijection, Injection, IsInjective, Surjection
<1>15. /\ \A g \in Rest : small[g] \in (r + 1)..n
       /\ \A g, h \in Rest : small[g] = small[h] => g = h
       /\ \A i \in (r + 1)..n : \E g \in Rest : small[g] = i
  <2> HIDE DEF Rest
  <2> QED BY <1>13 DEF Bijection, Injection, IsInjective, Surjection
<1>16. move \in [1..n -> 1..n]
  BY <1>2, <1>14, <1>15
<1>17. \A g, h \in 1..n : move[g] = move[h] => g = h
  BY <1>2, <1>14, <1>15
<1>18. ASSUME NEW i \in 1..n PROVE \E g \in 1..n : move[g] = i
  <2>1. CASE i \in 1..r
    BY <1>5, <1>14, <2>1
  <2>2. CASE i \in (r + 1)..n
    BY <1>15, <2>2
  <2> QED BY <1>2, <2>1, <2>2
<1>19. move \in Renumberings(n)
  <2> HIDE DEF move
  <2> QED BY <1>16, <1>17, <1>18, Fun_IsBij DEF Renumberings
<1>20. ASSUME NEW g \in 1..n
       PROVE  Cardinality(KeysOf(a, g)) = EvenSizes(c, n)[move[g]]
  <2>1. CASE g \in B
    <3>1. move[g] \in 1..r /\ move[g] \in 1..n
      BY <1>14, <1>16, <2>1
    <3> QED BY <1>2, <1>4, <2>1, <3>1 DEF B
  <2>2. CASE g \notin B
    <3>1. move[g] \in (r + 1)..n /\ move[g] \in 1..n
      BY <1>15, <1>16, <2>2
    <3>2. Cardinality(KeysOf(a, g)) = m
      BY <1>3, <2>2 DEF B
    <3>3. ~(move[g] <= r)
      BY <1>2, <3>1
    <3> QED BY <1>4, <3>1, <3>2, <3>3
  <2> QED BY <2>1, <2>2
<1> QED BY <1>19, <1>20 DEF c

\* There is a division of the keys into groups of these sizes.
LEMMA EvenExists ==
  ASSUME NEW S, IsFiniteSet(S), NEW n \in Nat \ {0}
  PROVE  \E a \in [S -> 1..n] :
            \A g \in 1..n : Cardinality(KeysOf(a, g)) = EvenSizes(Cardinality(S), n)[g]
<1> DEFINE cap == EvenSizes(Cardinality(S), n)
           U   == Units(1..n, cap)
<1>1. Cardinality(S) \in Nat
  BY FS_CardinalityType
<1>2. (\A g \in 1..n : cap[g] \in Nat) /\ SumOver(1..n, cap) = Cardinality(S)
  BY <1>1, EvenSizesAddUp
<1> HIDE DEF cap
<1>3. IsFiniteSet(U) /\ Cardinality(U) = Cardinality(S)
  BY <1>2, IntervalSize, SumIsNat, SumCountsUnits
<1>4. PICK place \in Bijection(S, U) : TRUE
  <2> HIDE DEF U
  <2> QED BY <1>3, FS_SameCardinalityBij DEF ExistsBijection
<1>5. /\ \A k \in S : place[k] \in U
      /\ \A k, j \in S : place[k] = place[j] => k = j
      /\ \A u \in U : \E k \in S : place[k] = u
  BY <1>4 DEF Bijection, Injection, IsInjective, Surjection
<1>6. \A u \in U : u = <<u[1], u[2]>> /\ u[1] \in 1..n /\ u[2] \in 1..cap[u[1]]
  BY UnitsAre
<1> DEFINE a == [k \in S |-> place[k][1]]
<1>7. a \in [S -> 1..n]
  BY <1>5, <1>6
<1>8. ASSUME NEW g \in 1..n
      PROVE  Cardinality(KeysOf(a, g)) <= cap[g]
  <2> DEFINE rank == [k \in KeysOf(a, g) |-> place[k][2]]
  <2>1. \A k \in KeysOf(a, g) : k \in S /\ place[k][1] = g
    BY DEF KeysOf
  <2>2. rank \in [KeysOf(a, g) -> 1..cap[g]]
    BY <1>5, <1>6, <2>1
  <2>3. ASSUME NEW k \in KeysOf(a, g), NEW j \in KeysOf(a, g), rank[k] = rank[j]
        PROVE  k = j
    <3>1. place[k][2] = place[j][2]
      BY <2>3
    <3>2. place[k] = place[j]
      BY <1>5, <1>6, <2>1, <3>1
    <3> QED BY <1>5, <2>1, <3>2
  <2>4. rank \in Injection(KeysOf(a, g), 1..cap[g])
    BY <2>2, <2>3 DEF Injection, IsInjective
  <2>5. IsFiniteSet(1..cap[g]) /\ Cardinality(1..cap[g]) = cap[g]
    BY <1>2, IntervalSize
  <2> HIDE DEF rank, a
  <2> QED BY <2>4, <2>5, FS_Injection
<1> HIDE DEF a
<1>9. \A g \in 1..n : Cardinality(KeysOf(a, g)) = EvenSizes(Cardinality(S), n)[g]
  BY <1>7, <1>8, WithinIsEven DEF cap
<1> QED BY <1>7, <1>9

----------------------------------------------------------------------------
(* What the groups of an assignment can serve.                              *)

LEMMA TotalsType ==
  ASSUME NEW S, IsFiniteSet(S), NEW n \in Nat, NEW a \in [S -> 1..n], NEW amount,
         \A k \in S : amount[k] \in Nat
  PROVE  /\ Totals(a, n, amount) \in [1..n -> Nat]
         /\ \A g \in 1..n : Totals(a, n, amount)[g] = SumOver(KeysOf(a, g), amount)
<1>1. ASSUME NEW g \in 1..n PROVE SumOver(KeysOf(a, g), amount) \in Nat
  <2>1. \A k \in KeysOf(a, g) : amount[k] \in Nat
    BY DEF KeysOf
  <2> QED BY <2>1, GroupsAreFinite, SumIsNat
<1> QED BY <1>1 DEF Totals

\* The assignment whose groups are those of a under other numbers.
Renumbered(a, move) == [k \in DOMAIN a |-> move[a[k]]]

LEMMA RenumberedType ==
  ASSUME NEW S, NEW n, NEW a \in [S -> 1..n], NEW move \in Renumberings(n)
  PROVE  Renumbered(a, move) \in [S -> 1..n]
BY DEF Renumbered, Renumberings, Bijection, Injection

LEMMA RenumberedGroup ==
  ASSUME NEW n, NEW a, \A k \in DOMAIN a : a[k] \in 1..n, NEW move \in Renumberings(n),
         NEW g \in 1..n
  PROVE  KeysOf(Renumbered(a, move), move[g]) = KeysOf(a, g)
BY DEF Renumbered, KeysOf, Renumberings, Bijection, Injection, IsInjective

\* The numbers of the groups do not matter to the score.
LEMMA RenumberedScore ==
  ASSUME NEW S, IsFiniteSet(S), NEW n \in Nat \ {0}, NEW a \in [S -> 1..n], NEW amount,
         \A k \in S : amount[k] \in Nat, NEW move \in Renumberings(n)
  PROVE  /\ Spread(Totals(Renumbered(a, move), n, amount)) = Spread(Totals(a, n, amount))
         /\ Variance(Totals(Renumbered(a, move), n, amount)) = Variance(Totals(a, n, amount))
<1>1. Renumbered(a, move) \in [S -> 1..n]
  BY RenumberedType
<1>2. \A g \in 1..n :
        Totals(Renumbered(a, move), n, amount)[move[g]] = Totals(a, n, amount)[g]
  <2>1. \A g \in 1..n : move[g] \in 1..n
    BY DEF Renumberings, Bijection, Injection
  <2>2. \A g \in 1..n : KeysOf(Renumbered(a, move), move[g]) = KeysOf(a, g)
    BY RenumberedGroup
  <2> QED BY <2>1, <2>2 DEF Totals
<1>3. /\ Totals(a, n, amount) \in GroupTotals(n)
      /\ Totals(Renumbered(a, move), n, amount) \in GroupTotals(n)
  BY <1>1, TotalsType DEF GroupTotals
<1> QED BY <1>2, <1>3, ScoreMoves

----------------------------------------------------------------------------
(* There is a rotation to be found.                                         *)

\* Some element has the smallest value.
LEMMA SmallestValueExists ==
  ASSUME NEW S, S # {}, NEW f, \A x \in S : f[x] \in Nat
  PROVE  \E x \in S : \A y \in S : f[x] <= f[y]
<1> PICK z \in S : TRUE
  OBVIOUS
<1> DEFINE V == {f[x] : x \in S} \cap 0..f[z]
<1>1. IsFiniteSet(V) /\ V \in SUBSET Int /\ f[z] \in V
  <2>1. IsFiniteSet(0..f[z])
    BY FS_Interval
  <2> QED BY <2>1, FS_Subset
<1>2. Min(V) \in V /\ \A w \in V : Min(V) <= w
  <2> HIDE DEF V
  <2> QED BY <1>1, SmallestExists
<1>3. PICK x \in S : f[x] = Min(V)
  BY <1>2
<1>4. ASSUME NEW y \in S PROVE f[x] <= f[y]
  <2>1. CASE f[y] \in V
    BY <1>2, <1>3, <2>1
  <2>2. CASE f[y] \notin V
    <3>1. f[y] > f[z]
      BY <2>2
    <3> QED BY <1>1, <1>2, <1>3, <3>1
  <2> QED BY <2>1, <2>2
<1> QED BY <1>4

\* Two groups change places.
Swap(n, g, h) == [i \in 1..n |-> IF i = g THEN h ELSE IF i = h THEN g ELSE i]

LEMMA SwapRenumbers ==
  ASSUME NEW n, NEW g \in 1..n, NEW h \in 1..n
  PROVE  Swap(n, g, h) \in Renumberings(n)
<1>1. Swap(n, g, h) \in [1..n -> 1..n]
  BY DEF Swap
<1>2. \A i, j \in 1..n : Swap(n, g, h)[i] = Swap(n, g, h)[j] => i = j
  BY DEF Swap
<1>3. \A j \in 1..n : Swap(n, g, h)[Swap(n, g, h)[j]] = j
  BY DEF Swap
<1>4. \A j \in 1..n : \E i \in 1..n : Swap(n, g, h)[i] = j
  BY <1>1, <1>3
<1> QED BY <1>1, <1>2, <1>4, Fun_IsBij DEF Renumberings

\* The larger amount weighs less at the smaller position.
LEMMA ExchangeLightens ==
  ASSUME NEW g \in Nat, NEW h \in Nat, NEW x \in Nat, NEW y \in Nat, g < h, x < y
  PROVE  g * y + h * x < g * x + h * y
<1>1. h - g \in Nat /\ y - x \in Nat /\ h - g > 0 /\ y - x > 0
  OBVIOUS
<1>2. \A d, e \in Nat : d > 0 /\ e > 0 => d * e > 0
  OBVIOUS
<1>3. (h - g) * (y - x) > 0
  BY <1>1, <1>2
<1>4. (h - g) * (y - x) = (g * x + h * y) - (g * y + h * x)
  OBVIOUS
<1>5. g * x + h * y \in Int /\ g * y + h * x \in Int
  OBVIOUS
<1> QED BY <1>3, <1>4, <1>5

\* Every total by its position: the fewer, the better the groups are in order.
Weights(n, total) == [i \in 1..n |-> i * total[i]]

LEMMA SwapLightens ==
  ASSUME NEW n \in Nat, NEW total \in GroupTotals(n), NEW other \in GroupTotals(n),
         NEW g \in 1..n, NEW h \in 1..n, g < h, total[g] < total[h],
         \A i \in 1..n : other[i] = total[Swap(n, g, h)[i]]
  PROVE  SumOver(1..n, Weights(n, other)) < SumOver(1..n, Weights(n, total))
<1> USE DEF GroupTotals
<1> DEFINE D == (1..n) \ {g, h}
<1>1. /\ 1..n = (D \cup {g}) \cup {h}
      /\ g \notin D /\ h \notin D \cup {g}
  OBVIOUS
<1>2. IsFiniteSet(D) /\ IsFiniteSet(D \cup {g})
  BY IntervalSize, FS_Subset
<1>3. ASSUME NEW f \in GroupTotals(n)
      PROVE  /\ SumOver(D, Weights(n, f)) \in Nat
             /\ SumOver(1..n, Weights(n, f)) = SumOver(D, Weights(n, f)) + g * f[g] + h * f[h]
  <2>1. \A i \in 1..n : Weights(n, f)[i] \in Nat /\ Weights(n, f)[i] = i * f[i]
    BY DEF Weights
  <2>2. SumOver(D \cup {g}, Weights(n, f)) = SumOver(D, Weights(n, f)) + Weights(n, f)[g]
    BY <1>1, <1>2, <2>1, SumAdds
  <2> DEFINE B == D \cup {g}
  <2>5. IsFiniteSet(B) /\ h \notin B /\ \A y \in B \cup {h} : Weights(n, f)[y] \in Nat
    BY <1>1, <1>2, <2>1
  <2>3. SumOver((D \cup {g}) \cup {h}, Weights(n, f))
          = SumOver(D \cup {g}, Weights(n, f)) + Weights(n, f)[h]
    <3> HIDE DEF B
    <3>1. SumOver(B \cup {h}, Weights(n, f)) = SumOver(B, Weights(n, f)) + Weights(n, f)[h]
      BY <2>5, SumAdds
    <3> QED BY <3>1 DEF B
  <2>4. SumOver(D, Weights(n, f)) \in Nat
    BY <1>2, <2>1, SumIsNat
  <2> QED BY <1>1, <2>1, <2>2, <2>3, <2>4
<1>4. other[g] = total[h] /\ other[h] = total[g] /\ \A i \in D : other[i] = total[i]
  BY DEF Swap
<1>5. SumOver(D, Weights(n, other)) = SumOver(D, Weights(n, total))
  <2>1. \A i \in D : Weights(n, other)[i] = Weights(n, total)[i]
    BY <1>4 DEF Weights
  <2> QED BY <2>1, SumSame
<1>6. g * total[h] + h * total[g] < g * total[g] + h * total[h]
  <2>1. g \in Nat /\ h \in Nat /\ total[g] \in Nat /\ total[h] \in Nat
    OBVIOUS
  <2> QED BY <2>1, ExchangeLightens
<1>7. /\ SumOver(D, Weights(n, total)) \in Nat
      /\ SumOver(1..n, Weights(n, total)) = SumOver(D, Weights(n, total)) + g * total[g] + h * total[h]
      /\ SumOver(1..n, Weights(n, other)) = SumOver(D, Weights(n, other)) + g * other[g] + h * other[h]
  BY <1>3
<1>8. /\ g * total[h] \in Nat /\ h * total[g] \in Nat
      /\ g * total[g] \in Nat /\ h * total[h] \in Nat
  OBVIOUS
<1> HIDE DEF D
<1>9. SumOver(1..n, Weights(n, other))
        = SumOver(D, Weights(n, total)) + g * total[h] + h * total[g]
  BY <1>4, <1>5, <1>7
<1>10. \A s, u, v, x, y \in Nat : u + v < x + y => s + u + v < s + x + y
  OBVIOUS
<1> QED BY <1>6, <1>7, <1>8, <1>9, <1>10

\* An even division stays even, and scores the same, when two groups change places.
LEMMA SwapKeeps ==
  ASSUME NEW S, IsFiniteSet(S), NEW n \in Nat \ {0}, NEW a \in EvenlySized(S, n), NEW amount,
         \A k \in S : amount[k] \in Nat, NEW g \in 1..n, NEW h \in 1..n
  PROVE  \E b \in EvenlySized(S, n) :
            /\ Spread(Totals(b, n, amount)) = Spread(Totals(a, n, amount))
            /\ Variance(Totals(b, n, amount)) = Variance(Totals(a, n, amount))
            /\ \A i \in 1..n : Totals(b, n, amount)[i] = Totals(a, n, amount)[Swap(n, g, h)[i]]
<1> DEFINE move == Swap(n, g, h)
           b    == Renumbered(a, move)
<1>1. a \in [S -> 1..n] /\ move \in Renumberings(n)
  BY SwapRenumbers DEF EvenlySized
<1>2. \A i \in 1..n : move[i] \in 1..n /\ move[move[i]] = i
  BY DEF Swap
<1> HIDE DEF move
<1>3. b \in [S -> 1..n]
  BY <1>1, RenumberedType
<1>4. ASSUME NEW i \in 1..n PROVE KeysOf(b, i) = KeysOf(a, move[i])
  <2>1. KeysOf(b, move[move[i]]) = KeysOf(a, move[i])
    BY <1>1, <1>2, RenumberedGroup
  <2> QED BY <1>2, <2>1
<1>5. b \in EvenlySized(S, n)
  <2>1. \A i \in 1..n : Cardinality(KeysOf(a, i))
          \in {Cardinality(S) \div n, (Cardinality(S) \div n) + 1}
    BY DEF EvenlySized
  <2>2. \A i \in 1..n : Cardinality(KeysOf(b, i))
          \in {Cardinality(S) \div n, (Cardinality(S) \div n) + 1}
    BY <1>2, <1>4, <2>1
  <2> HIDE DEF b
  <2> QED BY <1>3, <2>2 DEF EvenlySized
<1>6. \A i \in 1..n : Totals(b, n, amount)[i] = Totals(a, n, amount)[move[i]]
  <2> HIDE DEF b
  <2> QED BY <1>2, <1>4 DEF Totals
<1>7. /\ Spread(Totals(b, n, amount)) = Spread(Totals(a, n, amount))
      /\ Variance(Totals(b, n, amount)) = Variance(Totals(a, n, amount))
  BY <1>1, RenumberedScore
<1> HIDE DEF b
<1> QED BY <1>5, <1>6, <1>7 DEF move

\* Keys are divided into at least one group.
LEMMA GroupCountType ==
  ASSUME NEW S, IsFiniteSet(S), S # {}, NEW size \in Nat \ {0}
  PROVE  GroupCount(S, size) \in Nat \ {0}
<1>1. Cardinality(S) \in Nat \ {0}
  BY FS_CardinalityType, FS_EmptySet
<1>2. \A c \in Nat \ {0} : (c + size - 1) \div size \in Nat \ {0}
  OBVIOUS
<1> QED BY <1>1, <1>2 DEF GroupCount

\* Whatever keys are usable, and whatever they can serve, a rebuild has a rotation
\* to install: the definition of Rotations asks for nothing impossible.
THEOREM RotationExists ==
  ASSUME NEW S, IsFiniteSet(S), S # {}, NEW size \in Nat \ {0}, NEW amount,
         \A k \in S : amount[k] \in Nat
  PROVE  Rotations(S, size, amount) # {}
<1> DEFINE n     == GroupCount(S, size)
           E     == EvenlySized(S, n)
           T(a)  == Totals(a, n, amount)
<1>1. n \in Nat \ {0}
  BY GroupCountType
<1>2. Rotations(S, size, amount)
        = {a \in E : InRotationOrder(T(a)) /\ \A b \in E : ~Better(T(b), T(a))}
  BY DEF Rotations
<1> HIDE DEF n
<1>3. E # {}
  <2>1. PICK a \in [S -> 1..n] :
          \A g \in 1..n : Cardinality(KeysOf(a, g)) = EvenSizes(Cardinality(S), n)[g]
    BY <1>1, EvenExists
  <2>2. ASSUME NEW g \in 1..n
        PROVE  Cardinality(KeysOf(a, g)) <= EvenSizes(Cardinality(S), n)[g]
    BY <1>1, <2>1, GroupsAreFinite
  <2> QED BY <1>1, <2>2, WithinIsEven
<1>4. \A a \in E : a \in [S -> 1..n]
  BY DEF EvenlySized
<1>5. \A a \in E : T(a) \in GroupTotals(n)
  BY <1>1, <1>4, TotalsType DEF GroupTotals
<1>6. \A a \in E : Spread(T(a)) \in Nat /\ Variance(T(a)) \in Nat
  BY <1>1, <1>5, SpreadType, VarianceIs DEF GroupTotals
<1>7. \A a \in E : SumOver(1..n, Weights(n, T(a))) \in Nat
  <2> TAKE a \in E
  <2>1. T(a) \in [1..n -> Nat]
    BY <1>5 DEF GroupTotals
  <2> HIDE DEF T
  <2>2. \A i \in 1..n : Weights(n, T(a))[i] \in Nat
    BY <2>1 DEF Weights
  <2> QED BY <1>1, <2>2, IntervalSize, SumIsNat
<1>8. \A a \in E : \A g, h \in 1..n : \E b \in E :
        /\ Spread(T(b)) = Spread(T(a)) /\ Variance(T(b)) = Variance(T(a))
        /\ \A i \in 1..n : T(b)[i] = T(a)[Swap(n, g, h)[i]]
  BY <1>1, SwapKeeps
<1> DEFINE E1 == {a \in E : \A b \in E : Spread(T(a)) <= Spread(T(b))}
           E2 == {a \in E1 : \A b \in E1 : Variance(T(a)) <= Variance(T(b))}
<1> HIDE DEF E, T
<1>9. E1 # {}
  <2> DEFINE f == [a \in E |-> Spread(T(a))]
  <2>1. \E a \in E : \A b \in E : f[a] <= f[b]
    BY <1>3, <1>6, SmallestValueExists
  <2> QED BY <2>1
<1>10. E2 # {}
  <2> DEFINE f == [a \in E1 |-> Variance(T(a))]
  <2>1. \A a \in E1 : f[a] \in Nat
    BY <1>6
  <2>2. \E a \in E1 : \A b \in E1 : f[a] <= f[b]
    <3> HIDE DEF f, E1
    <3> QED BY <1>9, <2>1, SmallestValueExists
  <2> QED BY <2>2
<1>11. PICK a \in E2 : \A b \in E2 :
         SumOver(1..n, Weights(n, T(a))) <= SumOver(1..n, Weights(n, T(b)))
  <2> DEFINE f == [a \in E2 |-> SumOver(1..n, Weights(n, T(a)))]
  <2>1. \A a \in E2 : f[a] \in Nat
    BY <1>7
  <2>2. \E a \in E2 : \A b \in E2 : f[a] <= f[b]
    <3> HIDE DEF f, E2
    <3> QED BY <1>10, <2>1, SmallestValueExists
  <2> QED BY <2>2
<1>12. a \in E /\ a \in E1
  OBVIOUS
<1>13. ASSUME NEW b \in E PROVE ~Better(T(b), T(a))
  <2>1. Spread(T(a)) <= Spread(T(b)) /\ \A x \in E : Spread(T(x)) \in Nat /\ Variance(T(x)) \in Nat
    BY <1>6, <1>12
  <2>2. Spread(T(b)) = Spread(T(a)) => b \in E1
    BY <1>12
  <2>3. Spread(T(b)) = Spread(T(a)) => Variance(T(a)) <= Variance(T(b))
    BY <2>2
  <2> QED BY <1>12, <2>1, <2>3 DEF Better
<1>14. InRotationOrder(T(a))
  <2>1. DOMAIN T(a) = 1..n
    BY <1>5, <1>12 DEF GroupTotals
  <2> SUFFICES ASSUME NEW g \in 1..n, NEW h \in 1..n, g < h, ~(T(a)[g] >= T(a)[h])
               PROVE  FALSE
    BY <2>1 DEF InRotationOrder
  <2>2. PICK b \in E :
          /\ Spread(T(b)) = Spread(T(a)) /\ Variance(T(b)) = Variance(T(a))
          /\ \A i \in 1..n : T(b)[i] = T(a)[Swap(n, g, h)[i]]
    BY <1>8, <1>12
  <2>3. b \in E2
    BY <1>12, <2>2
  <2>4. T(a)[g] < T(a)[h]
    <3>1. T(a) \in [1..n -> Nat]
      BY <1>5, <1>12 DEF GroupTotals
    <3>2. T(a)[g] \in Nat /\ T(a)[h] \in Nat
      BY <3>1
    <3> QED BY <3>2
  <2>5. SumOver(1..n, Weights(n, T(b))) < SumOver(1..n, Weights(n, T(a)))
    BY <1>1, <1>5, <1>12, <2>2, <2>4, SwapLightens
  <2> QED BY <1>7, <1>11, <1>12, <2>2, <2>3, <2>5
<1> QED BY <1>2, <1>12, <1>13, <1>14
=============================================================================
