---------------------------- MODULE KeyPoolProofs ----------------------------
(***************************************************************************)
(* Proofs about KeyPool, for any keys, requests, selections, snapshots,    *)
(* group size, group limit and month.                                      *)
(***************************************************************************)
EXTENDS KeyPool, KeyPartitionProofs

----------------------------------------------------------------------------
(* Credits, counted one by one.                                             *)

\* The credits of the leases rs when L maps every lease to its record.
Tokens(L, rs) == UNION {{r} \X (1..L[r].estimate) : r \in rs}

\* Finitely many leases have finitely many credits.
LEMMA TokensFinite ==
  ASSUME NEW L, NEW S, IsFiniteSet(S), \A r \in S : L[r].estimate \in Nat
  PROVE  IsFiniteSet(Tokens(L, S)) /\ Cardinality(Tokens(L, S)) \in Nat
<1> DEFINE Family == {{r} \X (1..L[r].estimate) : r \in S}
           image  == [r \in S |-> {r} \X (1..L[r].estimate)]
<1>1. image \in Surjection(S, Family)
  BY DEF Surjection
<1>2. IsFiniteSet(Family)
  <2> HIDE DEF image, Family
  <2> QED BY <1>1, FS_Surjection
<1>3. \A r \in S : IsFiniteSet({r} \X (1..L[r].estimate))
  <2>1. TAKE r \in S
  <2>2. IsFiniteSet(1..L[r].estimate)
    BY FS_Interval
  <2>3. IsFiniteSet({r})
    BY FS_Singleton
  <2> QED BY <2>2, <2>3, FS_Product
<1>4. \A T \in Family : IsFiniteSet(T)
  BY <1>3
<1>5. IsFiniteSet(UNION Family)
  <2> HIDE DEF Family
  <2> QED BY <1>2, <1>4, FS_UNION
<1> QED BY <1>5, FS_CardinalityType DEF Tokens

\* The credits of two disjoint sets of leases add up.
LEMMA TokensAdd ==
  ASSUME NEW L, NEW S, NEW T, IsFiniteSet(S), IsFiniteSet(T), S \cap T = {},
         \A r \in S \cup T : L[r].estimate \in Nat
  PROVE  Cardinality(Tokens(L, S \cup T))
           = Cardinality(Tokens(L, S)) + Cardinality(Tokens(L, T))
<1>1. Tokens(L, S \cup T) = Tokens(L, S) \cup Tokens(L, T)
  BY DEF Tokens
<1>2. Tokens(L, S) \cap Tokens(L, T) = {}
  BY DEF Tokens
<1>3. IsFiniteSet(Tokens(L, S)) /\ IsFiniteSet(Tokens(L, T))
  BY TokensFinite
<1> QED BY <1>1, <1>2, <1>3, DisjointUnion

\* One lease has as many credits as its estimate says.
LEMMA TokensOne ==
  ASSUME NEW L, NEW r, L[r].estimate \in Nat
  PROVE  Cardinality(Tokens(L, {r})) = L[r].estimate
<1>1. Tokens(L, {r}) = {r} \X (1..L[r].estimate)
  BY DEF Tokens
<1>2. IsFiniteSet(1..L[r].estimate)
  BY IntervalSize
<1>3. Cardinality({r} \X (1..L[r].estimate)) = Cardinality(1..L[r].estimate)
  BY <1>2, PairsWithOne
<1>4. Cardinality(1..L[r].estimate) = L[r].estimate
  BY IntervalSize
<1> QED BY <1>1, <1>3, <1>4

\* Credits depend on the estimates of the leases asked for only.
LEMMA TokensSame ==
  ASSUME NEW L, NEW M, NEW S, \A r \in S : L[r].estimate = M[r].estimate
  PROVE  Tokens(L, S) = Tokens(M, S)
BY DEF Tokens

\* No leases, no credits.
LEMMA TokensNone == \A L : Cardinality(Tokens(L, {})) = 0
BY FS_EmptySet DEF Tokens

LEMMA MonusType ==
  ASSUME NEW a \in Nat, NEW b \in Nat
  PROVE  Monus(a, b) \in Nat
BY DEF Monus

----------------------------------------------------------------------------
(* Types.                                                                   *)

LEMMA FunctionIsSequence ==
  ASSUME NEW T, NEW n \in Nat, NEW f \in [1..n -> T]
  PROVE  f \in Seq(T) /\ Len(f) = n
OBVIOUS

LEMMA GroupsAreFunction ==
  ASSUME TypeOK
  PROVE  /\ Len(groups) \in Nat
         /\ DOMAIN groups = 1..Len(groups)
         /\ groups \in [1..Len(groups) -> Group]
BY DEF TypeOK

LEMMA RemainingType ==
  ASSUME TypeOK, NEW k \in Keys
  PROVE  Remaining(k) \in Nat
<1>1. limit[k] \in Nat /\ realUsage[k] \in Nat /\ estimated[k] \in Nat
  BY DEF TypeOK
<1> QED BY <1>1 DEF Remaining, Monus

LEMMA LiftPausesType ==
  ASSUME TypeOK, NEW asked
  PROVE  LiftPauses(asked) \in [Keys -> Nat \cup {NotBlocked}]
BY DEF TypeOK, LiftPauses

LEMMA MarkPassedType ==
  ASSUME TypeOK, NEW passed, NEW t, NEW s
  PROVE  /\ MarkPassed(passed, t, s) \in [1..Len(groups) -> Group]
         /\ MarkPassed(passed, t, s) \in Seq(Group)
         /\ Len(MarkPassed(passed, t, s)) = Len(groups)
<1>1. \A g \in DOMAIN groups : groups[g] \in Group
  BY GroupsAreFunction
<1>2. ASSUME NEW g \in DOMAIN groups
      PROVE  [groups[g] EXCEPT
                !.closed   = Overflows(groups[g], s),
                !.deferred = ~Overflows(groups[g], s) /\ GroupCooling(groups[g], t)] \in Group
  <2>1. Overflows(groups[g], s) \in BOOLEAN /\ GroupCooling(groups[g], t) \in BOOLEAN
    BY DEF Overflows, GroupCooling
  <2> QED BY <1>1, <2>1 DEF Group
<1>3. MarkPassed(passed, t, s) \in [DOMAIN groups -> Group]
  BY <1>1, <1>2 DEF MarkPassed
<1> QED BY <1>3, GroupsAreFunction, FunctionIsSequence

LEMMA CreditsType ==
  ASSUME TypeOK, NEW rs \in SUBSET DOMAIN lease
  PROVE  Credits(rs) \in Nat /\ Credits(rs) = Cardinality(Tokens(lease, rs))
<1>1. IsFiniteSet(rs)
  BY FS_Subset DEF TypeOK
<1>2. \A r \in rs : lease[r].estimate \in Nat
  BY DEF TypeOK, Lease
<1> QED BY <1>1, <1>2, TokensFinite DEF Credits, Tokens

LEMMA RemoveType ==
  ASSUME TypeOK, NEW r \in DOMAIN lease, RemoveAndRollback(r)
  PROVE  /\ estimated' \in [Keys -> Nat]
         /\ groups' \in Seq(Group)
         /\ Len(groups') = Len(groups)
         /\ reservations' \subseteq DOMAIN lease
         /\ settled' \subseteq reservations'
<1>1. lease[r] \in Lease /\ lease[r].key \in Keys /\ lease[r].estimate \in Nat
  BY DEF TypeOK, Lease
<1>2. CASE r \in reservations
  <2>1. estimated' = [estimated EXCEPT ![lease[r].key] = Monus(@, lease[r].estimate)]
    BY <1>2 DEF RemoveAndRollback
  <2>2. estimated' \in [Keys -> Nat]
    <3>1. Monus(estimated[lease[r].key], lease[r].estimate) \in Nat
      BY <1>1, MonusType DEF TypeOK
    <3> QED BY <2>1, <3>1 DEF TypeOK
  <2>3. groups' \in [1..Len(groups) -> Group]
    <3>1. CASE lease[r].group \in DOMAIN groups
      <4> DEFINE g == lease[r].group
      <4>1. groups' = [groups EXCEPT ![g].reserved = Monus(@, lease[r].estimate)]
        BY <1>2, <3>1 DEF RemoveAndRollback
      <4>2. groups[g] \in Group /\ groups[g].reserved \in Nat
        BY <3>1, GroupsAreFunction DEF Group
      <4>3. Monus(groups[g].reserved, lease[r].estimate) \in Nat
        BY <4>2, <1>1, MonusType
      <4>4. [groups[g] EXCEPT !.reserved = Monus(groups[g].reserved, lease[r].estimate)] \in Group
        BY <4>2, <4>3 DEF Group
      <4> QED BY <4>1, <4>4, GroupsAreFunction
    <3>2. CASE lease[r].group \notin DOMAIN groups
      BY <1>2, <3>2, GroupsAreFunction DEF RemoveAndRollback
    <3> QED BY <3>1, <3>2
  <2>4. /\ reservations' \subseteq DOMAIN lease
        /\ settled' \subseteq reservations'
    BY <1>2 DEF RemoveAndRollback, TypeOK
  <2> QED BY <2>2, <2>3, <2>4, GroupsAreFunction, FunctionIsSequence
<1>3. CASE r \notin reservations
  BY <1>3 DEF RemoveAndRollback, TypeOK
<1> QED BY <1>2, <1>3

LEMMA TypeInit == Init => TypeOK
<1> SUFFICES ASSUME Init PROVE TypeOK
  OBVIOUS
<1>1. IsFiniteSet(DOMAIN lease)
  BY FS_EmptySet DEF Init
<1>2. groups \in Seq(Group)
  BY DEF Init
<1> QED BY <1>1, <1>2 DEF Init, TypeOK, KeyStates, NotBlocked, NoMonth

LEMMA TypeUpdateUsage ==
  ASSUME TypeOK, NEW k \in Keys, NEW u \in UsageSnapshots, UpdateUsage(k, u)
  PROVE  TypeOK'
<1>1. u.limit \in Nat /\ u.used \in Nat
  BY SnapshotsAssumption
<1>2. Superseded(k) \subseteq DOMAIN lease
  BY DEF Superseded, HeldOn, TypeOK
<1>3. Monus(estimated[k], Credits(Superseded(k))) \in Nat
  BY <1>2, CreditsType, MonusType DEF TypeOK
<1>4. limit' \in [Keys -> Nat] /\ realUsage' \in [Keys -> Nat] /\ ready' \in [Keys -> BOOLEAN]
  BY <1>1 DEF UpdateUsage, TypeOK
<1>5. estimated' \in [Keys -> Nat]
  BY <1>3 DEF UpdateUsage, TypeOK
<1>6. state' \in [Keys -> KeyStates]
  BY DEF UpdateUsage, TypeOK, KeyStates
<1>7. reservations' \subseteq DOMAIN lease /\ settled' \subseteq reservations'
  BY DEF UpdateUsage, TypeOK
<1> QED BY <1>4, <1>5, <1>6, <1>7 DEF UpdateUsage, TypeOK, rotation, history

\* What Admit picks: a group of the rotation, or none, and one of its keys.
LEMMA GrantedKey ==
  ASSUME TypeOK, NEW r, NEW t, NEW s, Admit(r, t, s)
  PROVE  \E g \in Nat : \E k \in Keys :
           /\ Grant(r, t, s, g, k)
           /\ k \in Candidates(Lends(g), t, s)
           /\ g # 0 => Grouped /\ g \in ChosenGroups(t, s)
           /\ g = 0 => ~Grouped
<1>1. PICK g \in (IF Grouped THEN ChosenGroups(t, s) ELSE {0}) :
        \E k \in Candidates(Lends(g), t, s) : Grant(r, t, s, g, k)
  BY DEF Admit
<1>2. PICK k \in Candidates(Lends(g), t, s) : Grant(r, t, s, g, k)
  BY <1>1
<1>3. g \in Nat /\ (g # 0 => Grouped /\ g \in ChosenGroups(t, s) /\ g \in DOMAIN groups)
  BY GroupsAreFunction DEF ChosenGroups
<1>4. g = 0 => ~Grouped
  BY GroupsAreFunction DEF ChosenGroups
<1>5. k \in Keys
  <2>1. CASE g = 0
    BY <2>1 DEF Candidates, Lends
  <2>2. CASE g # 0
    BY <2>2, <1>3, GroupsAreFunction DEF Candidates, Lends, Group
  <2> QED BY <2>1, <2>2
<1> QED BY <1>2, <1>3, <1>4, <1>5

LEMMA TypeAdmit ==
  ASSUME TypeOK, NEW r \in Requests, NEW t \in 0..now, NEW s \in Selections, Admit(r, t, s)
  PROVE  TypeOK'
<1>1. s \in [workload : Workloads, estimate : Nat \ {0}, excluded : SUBSET Keys]
  BY SelectionsAssumption
<1>2. PICK g \in Nat, k \in Keys :
        /\ Grant(r, t, s, g, k)
        /\ g # 0 => g \in DOMAIN groups
  BY GrantedKey DEF ChosenGroups
<1>3. lease' \in [DOMAIN lease' -> Lease] /\ DOMAIN lease' = DOMAIN lease \cup {r}
  BY <1>1, <1>2 DEF Grant, Lease, TypeOK
<1>4. IsFiniteSet(DOMAIN lease')
  <2>1. IsFiniteSet(DOMAIN lease \cup {r})
    BY FS_AddElement DEF TypeOK
  <2> QED BY <1>3, <2>1
<1>5. estimated' \in [Keys -> Nat] /\ state' \in [Keys -> KeyStates]
  BY <1>1, <1>2 DEF Grant, TypeOK, KeyStates
<1>6. groups' \in Seq(Group) /\ activeGroup' \in Nat
  <2>1. CASE g = 0
    BY <2>1, <1>2 DEF Grant, TypeOK
  <2>2. CASE g # 0
    <3> DEFINE mp == MarkPassed({h \in DOMAIN groups : ScanPosition(h) < ScanPosition(g)}, t, s)
    <3>1. mp \in [1..Len(groups) -> Group] /\ g \in 1..Len(groups)
      BY <1>2, <2>2, MarkPassedType, GroupsAreFunction
    <3>2. groups' = [mp EXCEPT ![g].reserved = @ + s.estimate] /\ activeGroup' = g
      BY <1>2, <2>2 DEF Grant
    <3> HIDE DEF mp
    <3>3. [mp[g] EXCEPT !.reserved = mp[g].reserved + s.estimate] \in Group
      BY <3>1, <1>1 DEF Group
    <3>4. groups' \in [1..Len(groups) -> Group]
      BY <3>1, <3>2, <3>3
    <3> QED BY <3>2, <3>4, FunctionIsSequence, GroupsAreFunction
  <2> QED BY <2>1, <2>2
<1>7. researchBlockedAt' \in [Keys -> Nat \cup {NotBlocked}]
  BY LiftPausesType DEF Admit, LiftPausesOf
<1>8. /\ reservations' \subseteq DOMAIN lease'
      /\ settled' \subseteq reservations'
      /\ inflight' \subseteq DOMAIN lease'
      /\ thisRound' \subseteq DOMAIN lease'
      /\ DOMAIN lease' \subseteq Requests
  BY <1>2, <1>3 DEF Grant, Admit, TypeOK
<1> QED BY <1>3, <1>4, <1>5, <1>6, <1>7, <1>8 DEF Admit, TypeOK, usageVars

LEMMA TypeRefuse ==
  ASSUME TypeOK, NEW t \in 0..now, NEW s \in Selections, Refuse(t, s)
  PROVE  TypeOK'
<1>1. groups' \in Seq(Group)
  BY MarkPassedType DEF Refuse
<1>2. researchBlockedAt' \in [Keys -> Nat \cup {NotBlocked}]
  BY LiftPausesType DEF Refuse, LiftPausesOf
<1> QED BY <1>1, <1>2 DEF Refuse, TypeOK, usageVars, history

LEMMA TypeResolve ==
  ASSUME TypeOK, Resolve
  PROVE  TypeOK'
<1>1. PICK r \in Requests :
        \/ \E d \in RetryAfters : ResolveRateLimited(r, d)
        \/ ResolveQuotaRejected(r)
        \/ ResolveClientError(r)
        \/ ResolveSuccess(r)
        \/ ResolveOther(r)
  BY DEF Resolve
<1>2. r \in inflight /\ r \in DOMAIN lease /\ lease[r].key \in Keys
  BY <1>1 DEF ResolveRateLimited, ResolveQuotaRejected, ResolveClientError,
              ResolveSuccess, ResolveOther, TypeOK, Lease
<1>3. CASE \E d \in RetryAfters : ResolveRateLimited(r, d)
  <2>1. PICK d \in RetryAfters : ResolveRateLimited(r, d)
    BY <1>3
  <2>2. now + (IF d = 0 THEN DefaultRetryAfter ELSE d) \in Nat
    BY TimeAssumption DEF TypeOK
  <2>3. retryAt' \in [Keys -> Nat] /\ state' \in [Keys -> KeyStates]
    BY <1>2, <2>1, <2>2 DEF ResolveRateLimited, TypeOK, KeyStates
  <2>4. RemoveAndRollback(r)
    BY <2>1 DEF ResolveRateLimited
  <2> QED BY <1>2, <2>1, <2>3, <2>4, RemoveType DEF ResolveRateLimited, TypeOK, usageVars
<1>4. CASE ResolveQuotaRejected(r)
  <2>1. RemoveAndRollback(r)
    BY <1>4 DEF ResolveQuotaRejected
  <2>2. estimated'[lease[r].key] \in Nat
    BY <1>2, <2>1, RemoveType
  <2>3. Monus(Monus(limit[lease[r].key], realUsage[lease[r].key]),
              estimated'[lease[r].key]) \in Nat
    BY <1>2, <2>2, MonusType DEF TypeOK
  <2>4. researchBlockedAt' \in [Keys -> Nat \cup {NotBlocked}]
    BY <1>2, <1>4, <2>3 DEF ResolveQuotaRejected, TypeOK
  <2> QED BY <1>2, <1>4, <2>1, <2>4, RemoveType DEF ResolveQuotaRejected, TypeOK, usageVars
<1>5. CASE ResolveClientError(r)
  <2>1. RemoveAndRollback(r)
    BY <1>5 DEF ResolveClientError
  <2> QED BY <1>2, <1>5, <2>1, RemoveType DEF ResolveClientError, TypeOK, usageVars
<1>6. CASE ResolveSuccess(r)
  <2>1. state' \in [Keys -> KeyStates]
    BY <1>2, <1>6 DEF ResolveSuccess, AfterSuccess, TypeOK, KeyStates
  <2> QED BY <1>6, <2>1 DEF ResolveSuccess, TypeOK, usageVars, rotation
<1>7. CASE ResolveOther(r)
  BY <1>7 DEF ResolveOther, TypeOK, usageVars, rotation
<1> QED BY <1>1, <1>3, <1>4, <1>5, <1>6, <1>7

LEMMA MonthType ==
  ASSUME NEW t \in Nat
  PROVE  Month(t) \in Nat
BY TimeAssumption DEF Month

\* The groups a rebuild leaves: one fresh group for every part of a rotation.
LEMMA RebuiltGroups ==
  ASSUME TypeOK, NEW t \in Nat, Rebuild(t), UsableKeys # {}
  PROVE  \E n \in Nat \ {0} : \E assignment \in [UsableKeys -> 1..n] :
           /\ n = GroupCount(UsableKeys, GroupSize)
           /\ assignment \in EvenlySized(UsableKeys, n)
           /\ groups' = [g \in 1..n |-> FreshGroup(assignment, g)]
           /\ activeGroup' = NextGroup(n, Month(t))
           /\ groups' \in Seq(Group)
           /\ Len(groups') = n
<1> DEFINE n == GroupCount(UsableKeys, GroupSize)
<1>1. n \in Nat \ {0}
  <2>1. IsFiniteSet(UsableKeys)
    BY KeysAssumption, FS_Subset DEF UsableKeys
  <2> QED BY <2>1, GroupingAssumption, GroupCountType DEF Rebuild
<1>2. PICK assignment \in Rotations(UsableKeys, GroupSize, [k \in UsableKeys |-> Remaining(k)]) :
        groups' = [g \in 1..n |-> FreshGroup(assignment, g)]
  BY DEF Rebuild
<1>3. activeGroup' = NextGroup(n, Month(t))
  BY DEF Rebuild
<1>4. assignment \in EvenlySized(UsableKeys, n) /\ assignment \in [UsableKeys -> 1..n]
  BY DEF Rotations, EvenlySized
<1> HIDE DEF n
<1>5. \A g \in 1..n : FreshGroup(assignment, g) \in Group
  BY <1>4 DEF FreshGroup, KeysOf, Group, UsableKeys
<1>6. groups' \in [1..n -> Group]
  BY <1>2, <1>5
<1>7. groups' \in Seq(Group) /\ Len(groups') = n
  BY <1>1, <1>6, FunctionIsSequence
<1> QED BY <1>1, <1>2, <1>3, <1>4, <1>7 DEF n

LEMMA NextGroupType ==
  ASSUME NEW n \in Nat \ {0}, NEW month, activeGroup \in Nat
  PROVE  NextGroup(n, month) \in 1..n
<1>1. activeGroup % n \in 0..(n - 1)
  OBVIOUS
<1> QED BY <1>1 DEF NextGroup

LEMMA TypeRebuild ==
  ASSUME TypeOK, NEW t \in Nat, Rebuild(t)
  PROVE  serving' \in BOOLEAN => TypeOK'
<1>1. rotationMonth' \in Nat
  BY MonthType DEF Rebuild
<1>2. groups' \in Seq(Group) /\ activeGroup' \in Nat
  <2>1. CASE UsableKeys = {}
    BY <2>1 DEF Rebuild
  <2>2. CASE UsableKeys # {}
    <3>1. PICK n \in Nat \ {0} :
            groups' \in Seq(Group) /\ activeGroup' = NextGroup(n, Month(t))
      BY <2>2, RebuiltGroups
    <3> QED BY <3>1, NextGroupType DEF TypeOK
  <2> QED BY <2>1, <2>2
<1> QED BY <1>1, <1>2 DEF Rebuild, TypeOK, usageVars

LEMMA TypeStep ==
  ASSUME TypeOK, [Next]_vars
  PROVE  TypeOK'
<1>1. CASE Tick
  BY <1>1 DEF Tick, TypeOK, usageVars, rotation, history
<1>2. CASE Boot
  <2>1. CASE Rebuild(now)
    BY <1>2, <2>1, TypeRebuild DEF Boot, TypeOK
  <2>2. CASE ~Rebuild(now)
    BY <1>2, <2>2 DEF Boot, TypeOK, usageVars, rotation, history
  <2> QED BY <2>1, <2>2
<1>3. CASE \E k \in Keys, u \in UsageSnapshots : UpdateUsage(k, u)
  BY <1>3, TypeUpdateUsage
<1>4. CASE Select
  BY <1>4, TypeAdmit, TypeRefuse DEF Select
<1>5. CASE Resolve
  BY <1>5, TypeResolve
<1>6. CASE \E r \in Requests : SettleResearch(r)
  BY <1>6 DEF SettleResearch, TypeOK, usageVars, rotation, history
<1>7. CASE \E t \in 0..now : RebuildGroups(t)
  <2>1. PICK t \in 0..now : RebuildGroups(t)
    BY <1>7
  <2>2. t \in Nat
    BY DEF TypeOK
  <2> QED BY <2>1, <2>2, TypeRebuild DEF RebuildGroups, TypeOK
<1>8. CASE MonitorSnapshot
  <2>1. researchBlockedAt' \in [Keys -> Nat \cup {NotBlocked}]
    BY <1>8, LiftPausesType DEF MonitorSnapshot
  <2> QED BY <1>8, <2>1 DEF MonitorSnapshot, TypeOK, usageVars, rotation, history
<1>9. CASE UNCHANGED vars
  BY <1>9 DEF vars, TypeOK
<1> QED BY <1>1, <1>2, <1>3, <1>4, <1>5, <1>6, <1>7, <1>8, <1>9 DEF Next

\* The pool's fields keep their types: remaining credits and estimates are never
\* negative, every reservation belongs to a lease, and every group holds
\* configured keys only, so that no lookup in p.keys can fail.
THEOREM TypeCorrect == Spec => []TypeOK
<1>1. Init => TypeOK
  BY TypeInit
<1>2. TypeOK /\ [Next]_vars => TypeOK'
  BY TypeStep
<1> QED BY <1>1, <1>2, PTL DEF Spec

----------------------------------------------------------------------------
(* The running totals.                                                      *)

\* The two invariants together are inductive: EstimateIsHeld needs the types to
\* know that sets of leases are finite.
BooksInv == TypeOK /\ EstimateIsHeld

LEMMA HeldType ==
  ASSUME TypeOK, NEW k
  PROVE  /\ HeldOn(k) \subseteq DOMAIN lease
         /\ IsFiniteSet(HeldOn(k))
         /\ \A r \in HeldOn(k) : lease[r].estimate \in Nat
<1>1. HeldOn(k) \subseteq DOMAIN lease
  BY DEF HeldOn, TypeOK
<1>2. IsFiniteSet(HeldOn(k))
  BY <1>1, FS_Subset DEF TypeOK
<1> QED BY <1>1, <1>2 DEF TypeOK, Lease

\* Taking leases out of a set takes their credits out of its sum.
LEMMA CreditsRemove ==
  ASSUME TypeOK, NEW S \in SUBSET DOMAIN lease, NEW T \in SUBSET S
  PROVE  Credits(S \ T) = Monus(Credits(S), Credits(T))
<1>1. IsFiniteSet(S \ T) /\ IsFiniteSet(T)
  BY FS_Subset DEF TypeOK
<1>2. (S \ T) \cup T = S /\ (S \ T) \cap T = {}
  OBVIOUS
<1>3. \A r \in S : lease[r].estimate \in Nat
  BY DEF TypeOK, Lease
<1>4. Cardinality(Tokens(lease, (S \ T) \cup T))
        = Cardinality(Tokens(lease, S \ T)) + Cardinality(Tokens(lease, T))
  BY <1>1, <1>2, <1>3, TokensAdd
<1>5. /\ Credits(S) = Cardinality(Tokens(lease, S))
      /\ Credits(S \ T) = Cardinality(Tokens(lease, S \ T)) /\ Credits(S \ T) \in Nat
      /\ Credits(T) = Cardinality(Tokens(lease, T)) /\ Credits(T) \in Nat
  BY CreditsType
<1>6. Credits(S) = Credits(S \ T) + Credits(T)
  BY <1>2, <1>4, <1>5
<1> QED BY <1>5, <1>6 DEF Monus

LEMMA CreditsOne ==
  ASSUME TypeOK, NEW r \in DOMAIN lease
  PROVE  Credits({r}) = lease[r].estimate
<1>1. Credits({r}) = Cardinality(Tokens(lease, {r}))
  BY CreditsType
<1>2. lease[r].estimate \in Nat
  BY DEF TypeOK, Lease
<1> QED BY <1>1, <1>2, TokensOne

LEMMA CreditsNone == ASSUME TypeOK PROVE Credits({}) = 0
BY CreditsType, TokensNone

\* Every operation but an admission removes some reservations, gone, and takes the
\* credits that are gone from each key out of its total.
LEMMA TotalsAfterRemoval ==
  ASSUME BooksInv, NEW gone \in SUBSET reservations,
         lease' = lease, reservations' = reservations \ gone,
         estimated' = [k \in Keys |-> Monus(estimated[k], Credits(HeldOn(k) \cap gone))]
  PROVE  EstimateIsHeld'
<1> SUFFICES ASSUME NEW k \in Keys PROVE (estimated[k] = Credits(HeldOn(k)))'
  BY DEF EstimateIsHeld
<1>1. HeldOn(k)' = HeldOn(k) \ (HeldOn(k) \cap gone)
  BY DEF HeldOn
<1>2. HeldOn(k) \subseteq DOMAIN lease
  BY HeldType DEF BooksInv
<1>3. Credits(HeldOn(k) \ (HeldOn(k) \cap gone))
        = Monus(Credits(HeldOn(k)), Credits(HeldOn(k) \cap gone))
  BY <1>2, CreditsRemove DEF BooksInv
<1>4. Credits(HeldOn(k))' = Credits(HeldOn(k) \ (HeldOn(k) \cap gone))
  BY <1>1 DEF Credits
<1>5. estimated'[k] = Monus(Credits(HeldOn(k)), Credits(HeldOn(k) \cap gone))
  BY DEF BooksInv, EstimateIsHeld
<1> QED BY <1>3, <1>4, <1>5

LEMMA TotalsUnchanged ==
  ASSUME BooksInv, UNCHANGED <<lease, reservations, estimated>>
  PROVE  EstimateIsHeld'
<1> SUFFICES ASSUME NEW k \in Keys PROVE (estimated[k] = Credits(HeldOn(k)))'
  BY DEF EstimateIsHeld
<1> QED BY DEF BooksInv, EstimateIsHeld, HeldOn, Credits

LEMMA TotalsAfterRemove ==
  ASSUME BooksInv, NEW r \in DOMAIN lease, RemoveAndRollback(r), lease' = lease
  PROVE  EstimateIsHeld'
<1>1. CASE r \notin reservations
  BY <1>1, TotalsUnchanged DEF RemoveAndRollback
<1>2. CASE r \in reservations
  <2>1. lease[r].key \in Keys
    BY DEF BooksInv, TypeOK, Lease
  <2>2. ASSUME NEW k \in Keys
        PROVE  estimated'[k] = Monus(estimated[k], Credits(HeldOn(k) \cap {r}))
    <3>1. CASE k = lease[r].key
      <4>1. HeldOn(k) \cap {r} = {r}
        BY <1>2, <3>1 DEF HeldOn
      <4>2. Credits({r}) = lease[r].estimate
        BY CreditsOne DEF BooksInv
      <4> QED BY <1>2, <3>1, <4>1, <4>2 DEF RemoveAndRollback, BooksInv, TypeOK
    <3>2. CASE k # lease[r].key
      <4>1. HeldOn(k) \cap {r} = {}
        BY <3>2 DEF HeldOn
      <4>2. estimated'[k] = estimated[k] /\ estimated[k] \in Nat
        BY <1>2, <3>2 DEF RemoveAndRollback, BooksInv, TypeOK
      <4>3. Credits({}) = 0
        BY CreditsNone DEF BooksInv
      <4> QED BY <4>1, <4>2, <4>3 DEF Monus
    <3> QED BY <3>1, <3>2
  <2>3. estimated' = [k \in Keys |-> Monus(estimated[k], Credits(HeldOn(k) \cap {r}))]
    <3>1. estimated' \in [Keys -> Nat]
      BY RemoveType DEF BooksInv
    <3> QED BY <2>2, <3>1
  <2>4. reservations' = reservations \ {r}
    BY <1>2 DEF RemoveAndRollback
  <2> QED BY <1>2, <2>3, <2>4, TotalsAfterRemoval
<1> QED BY <1>1, <1>2

LEMMA TotalsAfterSnapshot ==
  ASSUME BooksInv, NEW k \in Keys, NEW u \in UsageSnapshots, UpdateUsage(k, u)
  PROVE  EstimateIsHeld'
<1>1. Superseded(k) \subseteq HeldOn(k) /\ Superseded(k) \subseteq reservations
  BY DEF Superseded, HeldOn
<1>2. ASSUME NEW q \in Keys
      PROVE  estimated'[q] = Monus(estimated[q], Credits(HeldOn(q) \cap Superseded(k)))
  <2>1. CASE q = k
    <3>1. HeldOn(q) \cap Superseded(k) = Superseded(k)
      BY <1>1, <2>1
    <3> QED BY <2>1, <3>1 DEF UpdateUsage, BooksInv, TypeOK
  <2>2. CASE q # k
    <3>1. HeldOn(q) \cap Superseded(k) = {}
      BY <1>1, <2>2 DEF HeldOn
    <3>2. estimated'[q] = estimated[q] /\ estimated[q] \in Nat
      BY <2>2 DEF UpdateUsage, BooksInv, TypeOK
    <3>3. Credits({}) = 0
      BY CreditsNone DEF BooksInv
    <3>4. Monus(estimated[q], 0) = estimated[q]
      BY <3>2 DEF Monus
    <3> QED BY <3>1, <3>2, <3>3, <3>4
  <2> QED BY <2>1, <2>2
<1>3. estimated' = [q \in Keys |-> Monus(estimated[q], Credits(HeldOn(q) \cap Superseded(k)))]
  <2>1. DOMAIN estimated' = Keys /\ estimated' = [q \in Keys |-> estimated'[q]]
    BY DEF UpdateUsage, BooksInv, TypeOK
  <2> QED BY <1>2, <2>1
<1>4. reservations' = reservations \ Superseded(k) /\ lease' = lease
  BY DEF UpdateUsage
<1> QED BY <1>1, <1>3, <1>4, TotalsAfterRemoval

LEMMA TotalsAfterAdmit ==
  ASSUME BooksInv, NEW r \in Requests, NEW t, NEW s \in Selections, Admit(r, t, s)
  PROVE  EstimateIsHeld'
<1>1. PICK g \in Nat, k \in Keys : Grant(r, t, s, g, k)
  BY GrantedKey DEF BooksInv
<1>2. s.estimate \in Nat
  BY SelectionsAssumption
<1>3. r \notin DOMAIN lease /\ r \notin reservations
  BY DEF Admit, BooksInv, TypeOK
<1>4. /\ lease'[r].estimate = s.estimate /\ lease'[r].key = k
      /\ \A q \in DOMAIN lease : lease'[q] = lease[q]
  BY <1>1, <1>3 DEF Grant
<1> SUFFICES ASSUME NEW q \in Keys PROVE (estimated[q] = Credits(HeldOn(q)))'
  BY DEF EstimateIsHeld
<1> DEFINE old == HeldOn(q)
<1>5. /\ old \subseteq DOMAIN lease /\ IsFiniteSet(old)
      /\ \A p \in old : lease[p].estimate \in Nat
  BY HeldType DEF BooksInv
<1>6. /\ estimated[q] = Cardinality(Tokens(lease, old))
      /\ estimated[q] \in Nat
  BY <1>5, CreditsType DEF BooksInv, EstimateIsHeld, TypeOK
<1>7. Tokens(lease', old) = Tokens(lease, old)
  BY <1>4, <1>5, TokensSame
<1>8. Credits(HeldOn(q))' = Cardinality(Tokens(lease', HeldOn(q)'))
  BY DEF Credits, Tokens
<1>9. CASE q = k
  <2>1. HeldOn(q)' = old \cup {r}
    BY <1>1, <1>3, <1>4, <1>9 DEF HeldOn, Grant, BooksInv, TypeOK
  <2>2. old \cap {r} = {} /\ IsFiniteSet({r})
    BY <1>3, FS_Singleton DEF HeldOn
  <2>3. \A p \in old \cup {r} : lease'[p].estimate \in Nat
    BY <1>2, <1>4, <1>5
  <2>4. Cardinality(Tokens(lease', old \cup {r}))
          = Cardinality(Tokens(lease', old)) + Cardinality(Tokens(lease', {r}))
    BY <1>5, <2>2, <2>3, TokensAdd
  <2>5. Cardinality(Tokens(lease', {r})) = s.estimate
    BY <1>2, <1>4, TokensOne
  <2>6. estimated'[q] = estimated[q] + s.estimate
    BY <1>1, <1>9 DEF Grant, BooksInv, TypeOK
  <2> QED BY <1>6, <1>7, <1>8, <2>1, <2>4, <2>5, <2>6
<1>10. CASE q # k
  <2>1. HeldOn(q)' = old
    BY <1>1, <1>3, <1>4, <1>10 DEF HeldOn, Grant, BooksInv, TypeOK
  <2>2. estimated'[q] = estimated[q]
    BY <1>1, <1>10 DEF Grant, BooksInv, TypeOK
  <2> QED BY <1>6, <1>7, <1>8, <2>1, <2>2
<1> QED BY <1>9, <1>10

LEMMA BooksInit == Init => BooksInv
<1> SUFFICES ASSUME Init PROVE BooksInv
  OBVIOUS
<1>1. TypeOK
  BY TypeInit
<1>2. \A k \in Keys : HeldOn(k) = {} /\ estimated[k] = 0
  BY DEF Init, HeldOn
<1> QED BY <1>1, <1>2, CreditsNone DEF BooksInv, EstimateIsHeld

LEMMA BooksResolve ==
  ASSUME BooksInv, Resolve
  PROVE  EstimateIsHeld'
<1>1. PICK r \in Requests :
        \/ \E d \in RetryAfters : ResolveRateLimited(r, d)
        \/ ResolveQuotaRejected(r)
        \/ ResolveClientError(r)
        \/ ResolveSuccess(r)
        \/ ResolveOther(r)
  BY DEF Resolve
<1>2. r \in DOMAIN lease
  BY <1>1 DEF ResolveRateLimited, ResolveQuotaRejected, ResolveClientError,
              ResolveSuccess, ResolveOther, BooksInv, TypeOK
<1>3. CASE RemoveAndRollback(r) /\ lease' = lease
  BY <1>2, <1>3, TotalsAfterRemove
<1>4. CASE ResolveSuccess(r) \/ ResolveOther(r)
  BY <1>4, TotalsUnchanged DEF ResolveSuccess, ResolveOther
<1> QED BY <1>1, <1>3, <1>4 DEF ResolveRateLimited, ResolveQuotaRejected, ResolveClientError

LEMMA BooksStep ==
  ASSUME BooksInv, [Next]_vars
  PROVE  BooksInv'
<1>1. TypeOK'
  BY TypeStep DEF BooksInv
<1> SUFFICES EstimateIsHeld'
  BY <1>1 DEF BooksInv
<1>2. CASE Tick
  BY <1>2, TotalsUnchanged DEF Tick
<1>3. CASE Boot
  BY <1>3, TotalsUnchanged DEF Boot, Rebuild
<1>4. CASE \E k \in Keys, u \in UsageSnapshots : UpdateUsage(k, u)
  BY <1>4, TotalsAfterSnapshot
<1>5. CASE Select
  <2>1. PICK t \in 0..now, s \in Selections : (\E r \in Requests : Admit(r, t, s)) \/ Refuse(t, s)
    BY <1>5 DEF Select
  <2>2. CASE \E r \in Requests : Admit(r, t, s)
    BY <2>2, TotalsAfterAdmit
  <2>3. CASE Refuse(t, s)
    BY <2>3, TotalsUnchanged DEF Refuse
  <2> QED BY <2>1, <2>2, <2>3
<1>6. CASE Resolve
  BY <1>6, BooksResolve
<1>7. CASE \E r \in Requests : SettleResearch(r)
  BY <1>7, TotalsUnchanged DEF SettleResearch
<1>8. CASE \E t \in 0..now : RebuildGroups(t)
  BY <1>8, TotalsUnchanged DEF RebuildGroups, Rebuild
<1>9. CASE MonitorSnapshot
  BY <1>9, TotalsUnchanged DEF MonitorSnapshot
<1>10. CASE UNCHANGED vars
  BY <1>10, TotalsUnchanged DEF vars
<1> QED BY <1>2, <1>3, <1>4, <1>5, <1>6, <1>7, <1>8, <1>9, <1>10 DEF Next

\* The running total that SelectFor, Resolve and UpdateUsage keep on every key is
\* the sum of the reservations on it: the removal subtracts no credit twice, and
\* the max(0, ...) of removeReservation never hides one.
THEOREM BooksAreExact == Spec => []EstimateIsHeld
<1>1. Init => BooksInv
  BY BooksInit
<1>2. BooksInv /\ [Next]_vars => BooksInv'
  BY BooksStep
<1>3. BooksInv => EstimateIsHeld
  BY DEF BooksInv
<1> QED BY <1>1, <1>2, <1>3, PTL DEF Spec
=============================================================================
