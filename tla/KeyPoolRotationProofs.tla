------------------------ MODULE KeyPoolRotationProofs -------------------------
(***************************************************************************)
(* Proofs about the rotation of KeyPool: the groups a rebuild makes fit    *)
(* the configured size, and the budgets charge the requests of the round.  *)
(***************************************************************************)
EXTENDS KeyPoolProofs

----------------------------------------------------------------------------
(* How an even division of keys fills its parts.                            *)

\* n parts with m elements each hold n times m elements.
LEMMA PartsFill ==
  ASSUME NEW S, IsFiniteSet(S), NEW n \in Nat, NEW m \in Nat, NEW a \in [S -> 1..n],
         \A g \in 1..n : Cardinality(KeysOf(a, g)) >= m
  PROVE  n * m <= Cardinality(S)
<1> DEFINE f   == [g \in 1..n |-> CHOOSE j : j \in Injection(1..m, KeysOf(a, g))]
           all == [p \in (1..n) \X (1..m) |-> f[p[1]][p[2]]]
<1>1. ASSUME NEW g \in 1..n
      PROVE  f[g] \in Injection(1..m, KeysOf(a, g))
  <2>1. KeysOf(a, g) \subseteq S
    BY DEF KeysOf
  <2>2. IsFiniteSet(KeysOf(a, g))
    BY <2>1, FS_Subset
  <2> DEFINE c == Cardinality(KeysOf(a, g))
  <2>3. c \in Nat /\ ExistsBijection(1..c, KeysOf(a, g))
    BY <2>2, FS_CardinalityType
  <2>4. PICK b \in Bijection(1..c, KeysOf(a, g)) : TRUE
    BY <2>3 DEF ExistsBijection
  <2>5. m <= c
    OBVIOUS
  <2> HIDE DEF c
  <2>6. [i \in 1..m |-> b[i]] \in Injection(1..m, KeysOf(a, g))
    BY <2>3, <2>4, <2>5 DEF Bijection, Injection, IsInjective
  <2> QED BY <2>6
<1> HIDE DEF f
<1>2. \A g \in 1..n, i \in 1..m : f[g][i] \in S /\ a[f[g][i]] = g
  BY <1>1 DEF Injection, KeysOf
<1>3. all \in [(1..n) \X (1..m) -> S]
  BY <1>2
<1>4. ASSUME NEW p \in (1..n) \X (1..m), NEW q \in (1..n) \X (1..m), all[p] = all[q]
      PROVE  p = q
  <2>1. p[1] \in 1..n /\ p[2] \in 1..m /\ q[1] \in 1..n /\ q[2] \in 1..m
    OBVIOUS
  <2>2. f[p[1]][p[2]] = f[q[1]][q[2]]
    BY <1>4
  <2>3. p[1] = q[1]
    BY <1>2, <2>1, <2>2
  <2>4. p[2] = q[2]
    BY <1>1, <2>1, <2>2, <2>3 DEF Injection, IsInjective
  <2> QED BY <2>3, <2>4
<1>5. all \in Injection((1..n) \X (1..m), S)
  BY <1>3, <1>4 DEF Injection, IsInjective
<1>6. Cardinality((1..n) \X (1..m)) <= Cardinality(S)
  <2> HIDE DEF all
  <2> QED BY <1>5, FS_Injection
<1>7. /\ IsFiniteSet(1..n) /\ Cardinality(1..n) = n
      /\ IsFiniteSet(1..m) /\ Cardinality(1..m) = m
  BY IntervalSize
<1>8. Cardinality((1..n) \X (1..m)) = n * m
  BY <1>7, FS_Product
<1> QED BY <1>6, <1>8

\* One part that holds more makes for one element more.
LEMMA PartsOverfill ==
  ASSUME NEW S, IsFiniteSet(S), NEW n \in Nat, NEW m \in Nat, NEW a \in [S -> 1..n],
         \A g \in 1..n : Cardinality(KeysOf(a, g)) >= m,
         NEW big \in 1..n, Cardinality(KeysOf(a, big)) > m
  PROVE  n * m < Cardinality(S)
<1>1. \A g : KeysOf(a, g) \subseteq S /\ IsFiniteSet(KeysOf(a, g))
  BY FS_Subset DEF KeysOf
<1>2. \A g : Cardinality(KeysOf(a, g)) \in Nat
  BY <1>1, FS_CardinalityType
<1>3. PICK e : e \in KeysOf(a, big)
  <2>1. Cardinality(KeysOf(a, big)) # 0
    BY <1>2
  <2> QED BY <1>1, <2>1, FS_EmptySet
<1> DEFINE R == S \ {e}
           b == [k \in R |-> a[k]]
<1>4. IsFiniteSet(R) /\ Cardinality(R) = Cardinality(S) - 1 /\ Cardinality(S) \in Nat
  BY <1>1, <1>3, FS_RemoveElement, FS_CardinalityType
<1>5. b \in [R -> 1..n]
  OBVIOUS
<1>6. ASSUME NEW g \in 1..n
      PROVE  Cardinality(KeysOf(b, g)) >= m
  <2>1. KeysOf(b, g) = KeysOf(a, g) \ {e}
    BY DEF KeysOf
  <2>2. CASE g = big
    <3>1. Cardinality(KeysOf(b, g)) = Cardinality(KeysOf(a, big)) - 1
      BY <1>1, <1>3, <2>1, <2>2, FS_RemoveElement
    <3>2. Cardinality(KeysOf(a, big)) \in Nat
      BY <1>2
    <3> QED BY <3>1, <3>2
  <2>3. CASE g # big
    <3>1. e \notin KeysOf(a, g)
      BY <1>3, <2>3 DEF KeysOf
    <3> QED BY <2>1, <3>1
  <2> QED BY <2>2, <2>3
<1> HIDE DEF R, b
<1>7. n * m <= Cardinality(R)
  BY <1>4, <1>5, <1>6, PartsFill
<1>8. n * m \in Nat
  OBVIOUS
<1> QED BY <1>4, <1>7, <1>8

\* ceil(c / s) parts of size s hold c keys, and no part need stay empty.
LEMMA Ceiling ==
  ASSUME NEW c \in Nat \ {0}, NEW s \in Nat \ {0}, NEW n, n = (c + s - 1) \div s
  PROVE  n \in Nat \ {0} /\ c <= n * s /\ c \div n >= 1 /\ c \div n \in Nat
<1>1. n \in Int /\ n * s <= c + s - 1 /\ c + s - 1 < n * s + s
  OBVIOUS
<1>2. c <= n * s /\ n * s > 0
  BY <1>1
<1>3. n >= 1
  BY <1>1, <1>2
<1>4. n <= c
  <2>1. c + s - 1 <= c * s
    <3>1. (c - 1) * (s - 1) >= 0
      OBVIOUS
    <3>2. (c - 1) * (s - 1) = c * s - c - s + 1
      OBVIOUS
    <3> QED BY <3>1, <3>2
  <2>2. n * s <= c * s
    BY <1>1, <2>1
  <2> QED BY <1>1, <2>2
<1>5. c \div n >= 1
  BY <1>1, <1>3, <1>4
<1> QED BY <1>1, <1>2, <1>3, <1>5

\* Every group of a new round has a key, and none has more than GroupSize.
LEMMA GroupsFitSize ==
  ASSUME NEW S \in SUBSET Keys, S # {}, GroupSize > 0, NEW n, n = GroupCount(S, GroupSize),
         NEW a \in EvenlySized(S, n), NEW g \in 1..n
  PROVE  KeysOf(a, g) # {} /\ Cardinality(KeysOf(a, g)) <= GroupSize
<1>1. IsFiniteSet(S) /\ Cardinality(S) \in Nat \ {0}
  BY KeysAssumption, FS_Subset, FS_CardinalityType, FS_EmptySet
<1>2. /\ n \in Nat \ {0} /\ Cardinality(S) <= n * GroupSize
      /\ Cardinality(S) \div n >= 1 /\ Cardinality(S) \div n \in Nat
  <2>1. GroupSize \in Nat \ {0}
    BY GroupingAssumption
  <2>2. n = (Cardinality(S) + GroupSize - 1) \div GroupSize
    BY DEF GroupCount
  <2> QED BY <1>1, <2>1, <2>2, Ceiling
<1> DEFINE m == Cardinality(S) \div n
<1>3. a \in [S -> 1..n] /\ \A h \in 1..n : Cardinality(KeysOf(a, h)) \in {m, m + 1}
  BY DEF EvenlySized
<1>4. KeysOf(a, g) # {}
  <2> SUFFICES ASSUME KeysOf(a, g) = {} PROVE FALSE
    OBVIOUS
  <2>1. Cardinality(KeysOf(a, g)) = 0
    BY FS_EmptySet
  <2>2. m >= 1 /\ Cardinality(KeysOf(a, g)) \in {m, m + 1}
    BY <1>2, <1>3
  <2> HIDE DEF m
  <2> QED BY <1>2, <2>1, <2>2 DEF m
<1>5. Cardinality(KeysOf(a, g)) <= GroupSize
  <2> SUFFICES ASSUME Cardinality(KeysOf(a, g)) > GroupSize
               PROVE  FALSE
    BY <1>2, <1>3, GroupingAssumption
  <2> HIDE DEF m
  <2>1. m >= GroupSize /\ m \in Nat
    BY <1>2, <1>3, GroupingAssumption DEF m
  <2>2. \A h \in 1..n : Cardinality(KeysOf(a, h)) >= GroupSize
    BY <1>3, <2>1, GroupingAssumption
  <2>3. n * GroupSize < Cardinality(S)
    BY <1>1, <1>2, <1>3, <2>2, GroupingAssumption, PartsOverfill
  <2> QED BY <1>1, <1>2, <2>3, GroupingAssumption
<1> QED BY <1>4, <1>5

----------------------------------------------------------------------------
(* The rotation and the requests charged to it.                             *)

RotationInv ==
  TypeOK /\ RotationIndexSafe /\ ChargedGroupOwnsKey /\ NeverOvercharged

RotationGoals == RotationIndexSafe /\ ChargedGroupOwnsKey /\ NeverOvercharged

\* The groups keep their keys, in every operation but a rebuild.
SameKeys(gs) ==
  DOMAIN gs = DOMAIN groups /\ \A g \in DOMAIN groups : gs[g].keys = groups[g].keys

LEMMA IndexKept ==
  ASSUME RotationInv, TypeOK', SameKeys(groups'),
         activeGroup' = activeGroup \/ activeGroup' \in DOMAIN groups
  PROVE  RotationIndexSafe'
<1>1. /\ Len(groups) \in Nat /\ DOMAIN groups = 1..Len(groups)
      /\ Len(groups') \in Nat /\ DOMAIN groups' = 1..Len(groups')
  BY DEF RotationInv, TypeOK
<1>2. Len(groups') = Len(groups)
  BY <1>1 DEF SameKeys
<1>3. (groups = <<>> <=> Len(groups) = 0) /\ (groups' = <<>> <=> Len(groups') = 0)
  BY DEF RotationInv, TypeOK
<1>4. /\ groups' # <<>> <=> activeGroup' > 0
      /\ activeGroup' <= Len(groups')
  BY <1>1, <1>2, <1>3 DEF RotationInv, RotationIndexSafe
<1> QED BY <1>4 DEF RotationInv, RotationIndexSafe, SameKeys

\* A set of leases that stay what they are has the credits it had.
LEMMA CreditsKept ==
  ASSUME TypeOK, NEW rs \in SUBSET DOMAIN lease, \A r \in rs : lease'[r] = lease[r]
  PROVE  Cardinality(Tokens(lease', rs)) = Credits(rs) /\ Credits(rs) \in Nat
<1>1. Tokens(lease', rs) = Tokens(lease, rs)
  BY TokensSame
<1> QED BY <1>1, CreditsType

\* Steps that admit nothing and rebuild nothing.
LEMMA ChargesShrink ==
  ASSUME RotationInv, TypeOK', SameKeys(groups'), UNCHANGED <<lease, thisRound, activeGroup>>,
         \A g \in DOMAIN groups : groups'[g].reserved <= groups[g].reserved
  PROVE  RotationGoals'
<1>1. RotationIndexSafe'
  BY IndexKept
<1>2. \A g : ChargedTo(g)' = ChargedTo(g) /\ Credits(ChargedTo(g))' = Credits(ChargedTo(g))
  BY DEF ChargedTo, Credits
<1>3. ChargedGroupOwnsKey'
  BY <1>2 DEF RotationInv, ChargedGroupOwnsKey, SameKeys
<1>4. NeverOvercharged'
  <2> SUFFICES ASSUME NEW g \in DOMAIN groups
               PROVE  groups'[g].reserved <= Credits(ChargedTo(g))
    BY <1>2 DEF NeverOvercharged, SameKeys
  <2>1. groups[g].reserved \in Nat /\ groups'[g].reserved \in Nat
    <3>1. groups \in Seq(Group) /\ groups' \in Seq(Group) /\ g \in DOMAIN groups'
      BY DEF RotationInv, TypeOK, SameKeys
    <3>2. groups[g] \in Group /\ groups'[g] \in Group
      BY <3>1
    <3> QED BY <3>2 DEF Group
  <2>2. Credits(ChargedTo(g)) \in Nat
    BY CreditsType DEF RotationInv, ChargedTo, TypeOK
  <2>3. groups[g].reserved <= Credits(ChargedTo(g))
    BY DEF RotationInv, NeverOvercharged
  <2> QED BY <2>1, <2>2, <2>3
<1> QED BY <1>1, <1>3, <1>4 DEF RotationGoals

LEMMA MarksKeepGroups ==
  ASSUME TypeOK, NEW passed, NEW t, NEW s
  PROVE  /\ SameKeys(MarkPassed(passed, t, s))
         /\ \A g \in DOMAIN groups :
              /\ MarkPassed(passed, t, s)[g] \in Group
              /\ MarkPassed(passed, t, s)[g].reserved = groups[g].reserved
<1>1. \A g \in DOMAIN groups : groups[g] \in Group
  BY GroupsAreFunction
<1>2. DOMAIN groups = 1..Len(groups)
  BY GroupsAreFunction
<1>3. \A g \in DOMAIN groups : MarkPassed(passed, t, s)[g] \in Group
  BY <1>2, MarkPassedType
<1>4. \A g \in DOMAIN groups :
        /\ MarkPassed(passed, t, s)[g].keys = groups[g].keys
        /\ MarkPassed(passed, t, s)[g].reserved = groups[g].reserved
  BY <1>1 DEF MarkPassed, Group
<1>5. DOMAIN MarkPassed(passed, t, s) = DOMAIN groups
  BY DEF MarkPassed
<1> QED BY <1>3, <1>4, <1>5 DEF SameKeys

LEMMA RemoveKeepsGroups ==
  ASSUME TypeOK, NEW r \in DOMAIN lease, RemoveAndRollback(r) \/ groups' = groups
  PROVE  /\ SameKeys(groups')
         /\ \A g \in DOMAIN groups : groups'[g].reserved <= groups[g].reserved
<1>1. \A g \in DOMAIN groups : groups[g] \in Group /\ groups[g].reserved \in Nat
  BY GroupsAreFunction DEF Group
<1>2. CASE groups' = groups
  BY <1>1, <1>2 DEF SameKeys
<1>3. CASE groups' # groups
  <2> DEFINE g == lease[r].group
  <2>1. /\ g \in DOMAIN groups
        /\ groups' = [groups EXCEPT ![g].reserved = Monus(@, lease[r].estimate)]
    BY <1>3 DEF RemoveAndRollback
  <2>2. lease[r].estimate \in Nat
    BY DEF TypeOK, Lease
  <2>3. Monus(groups[g].reserved, lease[r].estimate) <= groups[g].reserved
    BY <1>1, <2>1, <2>2 DEF Monus
  <2>4. DOMAIN groups' = DOMAIN groups
    BY <2>1
  <2>5. \A h \in DOMAIN groups :
          /\ groups'[h].keys = groups[h].keys
          /\ groups'[h].reserved = IF h = g THEN Monus(groups[g].reserved, lease[r].estimate)
                                   ELSE groups[h].reserved
    BY <1>1, <2>1 DEF Group
  <2> QED BY <1>1, <2>3, <2>4, <2>5 DEF SameKeys
<1> QED BY <1>2, <1>3

LEMMA RotationAdmit ==
  ASSUME RotationInv, TypeOK', NEW r \in Requests, NEW t \in 0..now, NEW s \in Selections,
         Admit(r, t, s)
  PROVE  RotationGoals'
<1>1. PICK g \in Nat, k \in Keys :
        /\ Grant(r, t, s, g, k)
        /\ k \in Candidates(Lends(g), t, s)
        /\ g # 0 => Grouped /\ g \in ChosenGroups(t, s)
  BY GrantedKey DEF RotationInv
<1>2. /\ r \notin DOMAIN lease /\ r \notin thisRound
      /\ thisRound' = thisRound \cup {r} /\ thisRound \subseteq DOMAIN lease
  BY DEF Admit, RotationInv, TypeOK
<1>3. /\ lease'[r].key = k /\ lease'[r].group = g /\ lease'[r].estimate = s.estimate
      /\ \A q \in DOMAIN lease : lease'[q] = lease[q]
  BY <1>1, <1>2 DEF Grant
<1>4. s.estimate \in Nat
  BY SelectionsAssumption
<1>5. \A h : ChargedTo(h)' = IF h = g THEN ChargedTo(h) \cup {r} ELSE ChargedTo(h)
  BY <1>2, <1>3 DEF ChargedTo
<1>6. \A h : ChargedTo(h) \in SUBSET DOMAIN lease /\ r \notin ChargedTo(h)
  BY <1>2 DEF ChargedTo
<1>7. \A h : Credits(ChargedTo(h))' = Cardinality(Tokens(lease', ChargedTo(h)'))
  BY DEF Credits, Tokens
<1>8. ASSUME NEW h
      PROVE  /\ Cardinality(Tokens(lease', ChargedTo(h))) = Credits(ChargedTo(h))
             /\ Credits(ChargedTo(h)) \in Nat
  BY <1>3, <1>6, CreditsKept DEF RotationInv
<1>9. Credits(ChargedTo(g))' = Credits(ChargedTo(g)) + s.estimate
  <2>1. IsFiniteSet(ChargedTo(g)) /\ IsFiniteSet({r}) /\ ChargedTo(g) \cap {r} = {}
    <3>1. IsFiniteSet(DOMAIN lease)
      BY DEF RotationInv, TypeOK
    <3>2. IsFiniteSet(ChargedTo(g))
      BY <1>6, <3>1, FS_Subset
    <3> QED BY <1>6, <3>2, FS_Singleton
  <2>2. \A q \in ChargedTo(g) \cup {r} : lease'[q].estimate \in Nat
    BY <1>3, <1>4, <1>6 DEF RotationInv, TypeOK, Lease
  <2>3. Cardinality(Tokens(lease', ChargedTo(g) \cup {r}))
          = Cardinality(Tokens(lease', ChargedTo(g))) + Cardinality(Tokens(lease', {r}))
    BY <2>1, <2>2, TokensAdd
  <2>4. Cardinality(Tokens(lease', {r})) = s.estimate
    BY <1>3, <1>4, TokensOne
  <2> QED BY <1>5, <1>7, <1>8, <2>3, <2>4
<1>10. CASE g = 0
  <2>1. groups' = groups /\ activeGroup' = activeGroup
    BY <1>1, <1>10 DEF Grant
  <2>2. SameKeys(groups') /\ RotationIndexSafe'
    BY <2>1, IndexKept DEF SameKeys
  <2>3. \A h \in DOMAIN groups : h # g
    BY <1>10, GroupsAreFunction DEF RotationInv
  <2>4. ChargedGroupOwnsKey'
    BY <1>3, <1>5, <1>6, <2>1, <2>3 DEF RotationInv, ChargedGroupOwnsKey
  <2>5. NeverOvercharged'
    BY <1>5, <1>7, <1>8, <2>1, <2>3 DEF RotationInv, NeverOvercharged
  <2> QED BY <2>2, <2>4, <2>5 DEF RotationGoals
<1>11. CASE g # 0
  <2> DEFINE mp == MarkPassed({h \in DOMAIN groups : ScanPosition(h) < ScanPosition(g)}, t, s)
  <2>1. groups' = [mp EXCEPT ![g].reserved = @ + s.estimate] /\ activeGroup' = g
    BY <1>1, <1>11 DEF Grant
  <2>2. g \in DOMAIN groups
    BY <1>1, <1>11 DEF ChosenGroups
  <2>3. /\ SameKeys(mp)
        /\ \A h \in DOMAIN groups : mp[h] \in Group /\ mp[h].reserved = groups[h].reserved
    BY MarksKeepGroups DEF RotationInv
  <2> HIDE DEF mp
  <2>4. DOMAIN mp = DOMAIN groups
    BY <2>3 DEF SameKeys
  <2>5. \A h \in DOMAIN groups :
          /\ groups'[h].keys = groups[h].keys
          /\ groups'[h].reserved = IF h = g THEN groups[h].reserved + s.estimate
                                   ELSE groups[h].reserved
    BY <2>1, <2>3, <2>4 DEF SameKeys, Group
  <2>6. SameKeys(groups')
    BY <2>1, <2>4, <2>5 DEF SameKeys
  <2>7. RotationIndexSafe'
    BY <2>1, <2>2, <2>6, IndexKept
  <2>8. k \in groups[g].keys
    BY <1>1, <1>11 DEF Candidates, Lends
  <2>9. ChargedGroupOwnsKey'
    <3> SUFFICES ASSUME NEW h \in DOMAIN groups, NEW q \in ChargedTo(h)'
                 PROVE  lease'[q].key \in groups'[h].keys
      BY <2>6 DEF ChargedGroupOwnsKey, SameKeys
    <3>1. CASE q = r
      BY <1>2, <1>3, <2>5, <2>8, <3>1 DEF ChargedTo
    <3>2. CASE q # r
      <4>1. q \in ChargedTo(h) /\ q \in DOMAIN lease
        BY <1>5, <1>6, <3>2
      <4> QED BY <1>3, <2>5, <4>1 DEF RotationInv, ChargedGroupOwnsKey
    <3> QED BY <3>1, <3>2
  <2>10. NeverOvercharged'
    <3> SUFFICES ASSUME NEW h \in DOMAIN groups
                 PROVE  groups'[h].reserved <= Credits(ChargedTo(h))'
      BY <2>6 DEF NeverOvercharged, SameKeys
    <3>1. /\ groups[h].reserved <= Credits(ChargedTo(h)) /\ Credits(ChargedTo(h)) \in Nat
          /\ groups[h].reserved \in Nat
      BY <1>8, <2>3 DEF RotationInv, NeverOvercharged, Group
    <3>2. CASE h = g
      BY <1>4, <1>9, <2>5, <3>1, <3>2
    <3>3. CASE h # g
      <4>1. Credits(ChargedTo(h))' = Credits(ChargedTo(h))
        BY <1>5, <1>7, <1>8, <3>3
      <4> QED BY <2>5, <3>1, <3>3, <4>1
    <3> QED BY <3>2, <3>3
  <2> QED BY <2>7, <2>9, <2>10 DEF RotationGoals
<1> QED BY <1>10, <1>11

LEMMA RotationRebuild ==
  ASSUME RotationInv, TypeOK', NEW t \in Nat, Rebuild(t)
  PROVE  RotationGoals'
<1>1. \A g : ChargedTo(g)' = {}
  BY DEF Rebuild, ChargedTo
<1>2. ChargedGroupOwnsKey'
  BY <1>1 DEF ChargedGroupOwnsKey
<1>3. \A g : Credits(ChargedTo(g))' = 0
  <2>1. Credits({}) = 0
    BY CreditsNone DEF RotationInv
  <2>2. Credits({})' = Credits({})
    BY DEF Credits
  <2> QED BY <1>1, <2>1, <2>2 DEF Credits
<1>4. CASE UsableKeys = {}
  <2>1. groups' = <<>> /\ activeGroup' = 0
    BY <1>4 DEF Rebuild
  <2> QED BY <1>2, <2>1 DEF RotationGoals, RotationIndexSafe, NeverOvercharged
<1>5. CASE UsableKeys # {}
  <2>1. PICK n \in Nat \ {0} : \E assignment \in [UsableKeys -> 1..n] :
          /\ n = GroupCount(UsableKeys, GroupSize)
          /\ assignment \in EvenlySized(UsableKeys, n)
          /\ groups' = [g \in 1..n |-> FreshGroup(assignment, g)]
          /\ activeGroup' = NextGroup(n, Month(t))
          /\ groups' \in Seq(Group)
          /\ Len(groups') = n
    BY <1>5, RebuiltGroups DEF RotationInv
  <2>2. PICK a \in [UsableKeys -> 1..n] :
          /\ n = GroupCount(UsableKeys, GroupSize)
          /\ a \in EvenlySized(UsableKeys, n)
          /\ groups' = [g \in 1..n |-> FreshGroup(a, g)]
          /\ activeGroup' = NextGroup(n, Month(t))
          /\ Len(groups') = n
    BY <2>1
  <2>3. activeGroup' \in 1..n
    BY <2>2, NextGroupType DEF RotationInv, TypeOK
  <2>4. DOMAIN groups' = 1..n /\ groups' # <<>>
    BY <2>2
  <2>5. \A g \in 1..n : groups'[g].keys = KeysOf(a, g) /\ groups'[g].reserved = 0
    BY <2>2 DEF FreshGroup
  <2>6. \A g \in 1..n : groups'[g].keys # {} /\ Cardinality(groups'[g].keys) <= GroupSize
    BY <1>5, <2>2, <2>5, GroupsFitSize DEF Rebuild, UsableKeys
  <2>7. \A g, h \in 1..n : g # h => groups'[g].keys \cap groups'[h].keys = {}
    BY <2>5 DEF KeysOf
  <2>8. RotationIndexSafe'
    BY <2>2, <2>3, <2>4, <2>6, <2>7 DEF RotationIndexSafe
  <2>9. NeverOvercharged'
    BY <1>3, <2>4, <2>5 DEF NeverOvercharged
  <2> QED BY <1>2, <2>8, <2>9 DEF RotationGoals
<1> QED BY <1>4, <1>5

LEMMA RotationStep ==
  ASSUME RotationInv, [Next]_vars
  PROVE  RotationInv'
<1>1. TypeOK' /\ TypeOK
  BY TypeStep DEF RotationInv
<1> SUFFICES RotationGoals'
  BY <1>1 DEF RotationInv, RotationGoals
<1>2. CASE UNCHANGED <<groups, lease, thisRound, activeGroup>>
  <2>1. SameKeys(groups') /\ \A g \in DOMAIN groups : groups'[g].reserved <= groups[g].reserved
    BY <1>1, <1>2, GroupsAreFunction DEF SameKeys, Group
  <2> QED BY <1>1, <1>2, <2>1, ChargesShrink
<1>3. CASE Tick \/ MonitorSnapshot \/ UNCHANGED vars
  BY <1>2, <1>3 DEF Tick, MonitorSnapshot, vars, rotation, history
<1>4. CASE Boot
  <2>1. now \in Nat
    BY <1>1 DEF TypeOK
  <2> QED BY <1>1, <1>2, <1>4, <2>1, RotationRebuild DEF Boot, rotation, history
<1>5. CASE \E k \in Keys, u \in UsageSnapshots : UpdateUsage(k, u)
  BY <1>2, <1>5 DEF UpdateUsage, rotation, history
<1>6. CASE Select
  <2>1. PICK t \in 0..now, s \in Selections : (\E r \in Requests : Admit(r, t, s)) \/ Refuse(t, s)
    BY <1>6 DEF Select
  <2>2. CASE \E r \in Requests : Admit(r, t, s)
    BY <1>1, <2>2, RotationAdmit
  <2>3. CASE Refuse(t, s)
    <3>1. /\ groups' = MarkPassed(DOMAIN groups, t, s)
          /\ UNCHANGED <<lease, thisRound, activeGroup>>
      BY <2>3 DEF Refuse, history
    <3>2. /\ SameKeys(groups')
          /\ \A g \in DOMAIN groups : groups'[g].reserved <= groups[g].reserved
      BY <1>1, <3>1, MarksKeepGroups DEF Group
    <3> QED BY <1>1, <3>1, <3>2, ChargesShrink
  <2> QED BY <2>1, <2>2, <2>3
<1>7. CASE Resolve
  <2>1. PICK r \in Requests :
          \/ \E d \in RetryAfters : ResolveRateLimited(r, d)
          \/ ResolveQuotaRejected(r)
          \/ ResolveClientError(r)
          \/ ResolveSuccess(r)
          \/ ResolveOther(r)
    BY <1>7 DEF Resolve
  <2>2. r \in DOMAIN lease
    BY <1>1, <2>1 DEF ResolveRateLimited, ResolveQuotaRejected, ResolveClientError,
                      ResolveSuccess, ResolveOther, TypeOK
  <2>3. RemoveAndRollback(r) \/ groups' = groups
    BY <2>1 DEF ResolveRateLimited, ResolveQuotaRejected, ResolveClientError,
                ResolveSuccess, ResolveOther, rotation
  <2>4. UNCHANGED <<lease, thisRound, activeGroup>>
    BY <2>1 DEF ResolveRateLimited, ResolveQuotaRejected, ResolveClientError,
                ResolveSuccess, ResolveOther, rotation
  <2> QED BY <1>1, <2>2, <2>3, <2>4, RemoveKeepsGroups, ChargesShrink
<1>8. CASE \E r \in Requests : SettleResearch(r)
  BY <1>2, <1>8 DEF SettleResearch, rotation, history
<1>9. CASE \E t \in 0..now : RebuildGroups(t)
  <2>1. PICK t \in 0..now : RebuildGroups(t)
    BY <1>9
  <2>2. t \in Nat
    BY <1>1 DEF TypeOK
  <2> QED BY <1>1, <2>1, <2>2, RotationRebuild DEF RebuildGroups
<1> QED BY <1>3, <1>4, <1>5, <1>6, <1>7, <1>8, <1>9 DEF Next

LEMMA RotationInvHolds == Spec => []RotationInv
<1>1. Init => RotationInv
  <2> SUFFICES ASSUME Init PROVE RotationInv
    OBVIOUS
  <2>1. TypeOK
    BY TypeInit
  <2>2. groups = <<>> /\ activeGroup = 0
    BY DEF Init
  <2> QED BY <2>1, <2>2 DEF RotationInv, RotationIndexSafe, ChargedGroupOwnsKey, NeverOvercharged
<1> QED BY <1>1, RotationStep, PTL DEF Spec

\* The scan never indexes outside the rotation: rebuilds that shrink it included,
\* the active group exists, no key is in two groups, no group is empty, and none
\* has more than key_group_size keys.
THEOREM RotationIndexIsSafe == Spec => []RotationIndexSafe
BY RotationInvHolds, PTL DEF RotationInv

\* A request is charged to the group that owns its key.
THEOREM ChargesFollowKeys == Spec => []ChargedGroupOwnsKey
BY RotationInvHolds, PTL DEF RotationInv

\* A group is charged no more than what this round's requests hold or held on it.
THEOREM ChargesAreCovered == Spec => []NeverOvercharged
BY RotationInvHolds, PTL DEF RotationInv

\* No state the pool gets to leaves a rebuild without groups to install: whatever
\* keys are usable and whatever they can serve, some division is even, has the best
\* score of all and can be put in rotation order.  So Rebuild, which asks for one,
\* is never held up by what it asks for.
THEOREM RebuildsFindGroups ==
  Spec => [](GroupSize > 0 /\ UsableKeys # {}
               => Rotations(UsableKeys, GroupSize, [k \in UsableKeys |-> Remaining(k)]) # {})
<1>1. TypeOK => (GroupSize > 0 /\ UsableKeys # {}
        => Rotations(UsableKeys, GroupSize, [k \in UsableKeys |-> Remaining(k)]) # {})
  <2> SUFFICES ASSUME TypeOK, GroupSize > 0, UsableKeys # {}
               PROVE  Rotations(UsableKeys, GroupSize, [k \in UsableKeys |-> Remaining(k)]) # {}
    OBVIOUS
  <2> DEFINE amount == [k \in UsableKeys |-> Remaining(k)]
  <2>1. IsFiniteSet(UsableKeys)
    BY KeysAssumption, FS_Subset DEF UsableKeys
  <2>2. \A k \in UsableKeys : amount[k] \in Nat
    BY RemainingType DEF UsableKeys
  <2>3. GroupSize \in Nat \ {0}
    BY GroupingAssumption
  <2> HIDE DEF amount
  <2> QED BY <2>1, <2>2, <2>3, RotationExists DEF amount
<1> QED BY <1>1, TypeCorrect, PTL
=============================================================================
