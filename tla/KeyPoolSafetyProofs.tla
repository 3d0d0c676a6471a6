------------------------- MODULE KeyPoolSafetyProofs -------------------------
(***************************************************************************)
(* Proofs of the safety properties of KeyPool that rest on its types and   *)
(* on its running totals: spent keys and probes, research holds, the fit   *)
(* of every admission, the budgets of the groups, and the refinement of    *)
(* CreditLedger.                                                           *)
(***************************************************************************)
EXTENDS KeyPoolProofs

----------------------------------------------------------------------------
(* Spent keys and probes.                                                   *)

\* SpentKeyStaysOut is inductive with the types and the fact that a key without
\* a snapshot has no lease: it was never ready to be selected.
NoLeaseBeforeSnapshot == \A r \in DOMAIN lease : ready[lease[r].key]

SpentInv == TypeOK /\ NoLeaseBeforeSnapshot /\ SpentKeyStaysOut

LEMMA SpentResolve ==
  ASSUME SpentInv, NEW r \in inflight,
         limit' = limit, realUsage' = realUsage, ready' = ready, lease' = lease,
         \/ state' = state
         \/ state' = [state EXCEPT ![lease[r].key] = "cooling"]
         \/ state' = [state EXCEPT ![lease[r].key] = AfterSuccess(@)]
  PROVE  NoLeaseBeforeSnapshot' /\ SpentKeyStaysOut'
<1>1. r \in DOMAIN lease /\ lease[r].key \in Keys /\ ready[lease[r].key]
  BY DEF SpentInv, TypeOK, Lease, NoLeaseBeforeSnapshot
<1>2. NoLeaseBeforeSnapshot'
  BY DEF SpentInv, NoLeaseBeforeSnapshot
<1>3. ASSUME NEW k \in Keys
      PROVE  /\ state'[k] = "pending" <=> ~ready[k]
             /\ state'[k] = "exhausted" => limit[k] <= realUsage[k]
             /\ ready[k] /\ limit[k] <= realUsage[k] => state'[k] \in {"exhausted", "cooling"}
  <2>1. /\ state[k] = "pending" <=> ~ready[k]
        /\ state[k] = "exhausted" => limit[k] <= realUsage[k]
        /\ ready[k] /\ limit[k] <= realUsage[k] => state[k] \in {"exhausted", "cooling"}
    BY DEF SpentInv, SpentKeyStaysOut
  <2>2. CASE k # lease[r].key \/ state' = state
    BY <2>1, <2>2 DEF SpentInv, TypeOK
  <2>3. CASE k = lease[r].key /\ state' # state
    <3>1. state'[k] = "cooling" \/ state'[k] = AfterSuccess(state[k])
      BY <1>1, <2>3 DEF SpentInv, TypeOK
    <3> QED BY <1>1, <2>1, <2>3, <3>1 DEF AfterSuccess
  <2> QED BY <2>2, <2>3
<1> QED BY <1>2, <1>3 DEF SpentKeyStaysOut

LEMMA SpentAdmit ==
  ASSUME SpentInv, NEW r \in Requests, NEW t, NEW s, Admit(r, t, s)
  PROVE  NoLeaseBeforeSnapshot' /\ SpentKeyStaysOut'
<1>1. PICK g \in Nat, k \in Keys :
        Grant(r, t, s, g, k) /\ k \in Candidates(Lends(g), t, s)
  BY GrantedKey DEF SpentInv
<1>2. /\ limit' = limit /\ realUsage' = realUsage /\ ready' = ready
      /\ r \notin DOMAIN lease
  BY DEF Admit, usageVars
<1>3. ready[k] /\ Remaining(k) > 0
  BY <1>1 DEF Candidates, Eligible, CanHold, Selectable
<1>4. limit[k] > realUsage[k]
  <2>1. limit[k] \in Nat /\ realUsage[k] \in Nat /\ estimated[k] \in Nat
    BY DEF SpentInv, TypeOK
  <2> QED BY <1>3, <2>1 DEF Remaining, Monus
<1>5. NoLeaseBeforeSnapshot'
  <2>1. DOMAIN lease' = DOMAIN lease \cup {r} /\ lease'[r].key = k
    BY <1>1 DEF Grant
  <2>2. \A q \in DOMAIN lease : lease'[q] = lease[q]
    BY <1>1, <1>2 DEF Grant
  <2> QED BY <1>2, <1>3, <2>1, <2>2 DEF SpentInv, NoLeaseBeforeSnapshot
<1>6. state' = [state EXCEPT ![k] = IF @ = "cooling" THEN "probing" ELSE @]
  BY <1>1 DEF Grant
<1>7. ASSUME NEW q \in Keys
      PROVE  /\ state'[q] = "pending" <=> ~ready[q]
             /\ state'[q] = "exhausted" => limit[q] <= realUsage[q]
             /\ ready[q] /\ limit[q] <= realUsage[q] => state'[q] \in {"exhausted", "cooling"}
  <2>1. /\ state[q] = "pending" <=> ~ready[q]
        /\ state[q] = "exhausted" => limit[q] <= realUsage[q]
        /\ ready[q] /\ limit[q] <= realUsage[q] => state[q] \in {"exhausted", "cooling"}
    BY DEF SpentInv, SpentKeyStaysOut
  <2>2. CASE q # k
    BY <1>6, <2>1, <2>2 DEF SpentInv, TypeOK
  <2>3. CASE q = k
    <3>1. state'[k] = IF state[k] = "cooling" THEN "probing" ELSE state[k]
      BY <1>6 DEF SpentInv, TypeOK
    <3>2. limit[k] \in Nat /\ realUsage[k] \in Nat
      BY DEF SpentInv, TypeOK
    <3> QED BY <1>3, <1>4, <2>1, <2>3, <3>1, <3>2
  <2> QED BY <2>2, <2>3
<1> QED BY <1>2, <1>5, <1>7 DEF SpentKeyStaysOut

LEMMA SpentUpdateUsage ==
  ASSUME SpentInv, NEW k \in Keys, NEW u \in UsageSnapshots, UpdateUsage(k, u)
  PROVE  NoLeaseBeforeSnapshot' /\ SpentKeyStaysOut'
<1>1. /\ lease' = lease
      /\ limit' = [limit EXCEPT ![k] = u.limit]
      /\ realUsage' = [realUsage EXCEPT ![k] = u.used]
      /\ ready' = [ready EXCEPT ![k] = TRUE]
      /\ state' = [state EXCEPT ![k] =
                     IF u.limit <= u.used THEN "exhausted"
                     ELSE IF @ \in {"pending", "exhausted"} THEN "ready" ELSE @]
  BY DEF UpdateUsage
<1>2. NoLeaseBeforeSnapshot'
  BY <1>1 DEF SpentInv, NoLeaseBeforeSnapshot, TypeOK, Lease
<1>3. ASSUME NEW q \in Keys
      PROVE  /\ state'[q] = "pending" <=> ~ready'[q]
             /\ state'[q] = "exhausted" => limit'[q] <= realUsage'[q]
             /\ ready'[q] /\ limit'[q] <= realUsage'[q] => state'[q] \in {"exhausted", "cooling"}
  <2>1. /\ state[q] = "pending" <=> ~ready[q]
        /\ state[q] = "exhausted" => limit[q] <= realUsage[q]
        /\ ready[q] /\ limit[q] <= realUsage[q] => state[q] \in {"exhausted", "cooling"}
    BY DEF SpentInv, SpentKeyStaysOut
  <2>2. CASE q # k
    BY <1>1, <2>1, <2>2 DEF SpentInv, TypeOK
  <2>3. CASE q = k
    <3>1. limit'[k] = u.limit /\ realUsage'[k] = u.used /\ ready'[k] = TRUE
      BY <1>1 DEF SpentInv, TypeOK
    <3>2. state'[k] = IF u.limit <= u.used THEN "exhausted"
                      ELSE IF state[k] \in {"pending", "exhausted"} THEN "ready" ELSE state[k]
      BY <1>1 DEF SpentInv, TypeOK
    <3> QED BY <2>3, <3>1, <3>2
  <2> QED BY <2>2, <2>3
<1> QED BY <1>2, <1>3 DEF SpentKeyStaysOut

LEMMA SpentUnchanged ==
  ASSUME SpentInv, UNCHANGED <<limit, realUsage, ready, lease, state>>
  PROVE  NoLeaseBeforeSnapshot' /\ SpentKeyStaysOut'
BY DEF SpentInv, NoLeaseBeforeSnapshot, SpentKeyStaysOut

LEMMA SpentStep ==
  ASSUME SpentInv, [Next]_vars
  PROVE  SpentInv'
<1>1. TypeOK'
  BY TypeStep DEF SpentInv
<1> SUFFICES NoLeaseBeforeSnapshot' /\ SpentKeyStaysOut'
  BY <1>1 DEF SpentInv
<1>2. CASE Tick
  BY <1>2, SpentUnchanged DEF Tick, usageVars
<1>3. CASE Boot
  BY <1>3, SpentUnchanged DEF Boot, Rebuild, usageVars
<1>4. CASE \E k \in Keys, u \in UsageSnapshots : UpdateUsage(k, u)
  BY <1>4, SpentUpdateUsage
<1>5. CASE Select
  <2>1. PICK t \in 0..now, s \in Selections : (\E r \in Requests : Admit(r, t, s)) \/ Refuse(t, s)
    BY <1>5 DEF Select
  <2>2. CASE \E r \in Requests : Admit(r, t, s)
    BY <2>2, SpentAdmit
  <2>3. CASE Refuse(t, s)
    BY <2>3, SpentUnchanged DEF Refuse, usageVars
  <2> QED BY <2>1, <2>2, <2>3
<1>6. CASE Resolve
  <2>1. PICK r \in Requests :
          \/ \E d \in RetryAfters : ResolveRateLimited(r, d)
          \/ ResolveQuotaRejected(r)
          \/ ResolveClientError(r)
          \/ ResolveSuccess(r)
          \/ ResolveOther(r)
    BY <1>6 DEF Resolve
  <2>2. /\ r \in inflight
        /\ limit' = limit /\ realUsage' = realUsage /\ ready' = ready /\ lease' = lease
    BY <2>1 DEF ResolveRateLimited, ResolveQuotaRejected, ResolveClientError,
                ResolveSuccess, ResolveOther, usageVars
  <2>3. \/ state' = state
        \/ state' = [state EXCEPT ![lease[r].key] = "cooling"]
        \/ state' = [state EXCEPT ![lease[r].key] = AfterSuccess(@)]
    BY <2>1 DEF ResolveRateLimited, ResolveQuotaRejected, ResolveClientError,
                ResolveSuccess, ResolveOther
  <2> QED BY <2>2, <2>3, SpentResolve
<1>7. CASE \E r \in Requests : SettleResearch(r)
  BY <1>7, SpentUnchanged DEF SettleResearch, usageVars
<1>8. CASE \E t \in 0..now : RebuildGroups(t)
  BY <1>8, SpentUnchanged DEF RebuildGroups, Rebuild, usageVars
<1>9. CASE MonitorSnapshot
  BY <1>9, SpentUnchanged DEF MonitorSnapshot, usageVars
<1>10. CASE UNCHANGED vars
  BY <1>10, SpentUnchanged DEF vars
<1> QED BY <1>2, <1>3, <1>4, <1>5, <1>6, <1>7, <1>8, <1>9, <1>10 DEF Next

\* A key whose last snapshot is spent is exhausted, or cools down with nothing to
\* serve: no late answer reopens it.
THEOREM SpentKeysStayOut == Spec => []SpentKeyStaysOut
<1>1. Init => SpentInv
  <2> SUFFICES ASSUME Init PROVE SpentInv
    OBVIOUS
  <2>1. TypeOK
    BY TypeInit
  <2>2. NoLeaseBeforeSnapshot
    BY DEF Init, NoLeaseBeforeSnapshot
  <2>3. SpentKeyStaysOut
    BY DEF Init, SpentKeyStaysOut
  <2> QED BY <2>1, <2>2, <2>3 DEF SpentInv
<1>2. SpentInv /\ [Next]_vars => SpentInv'
  BY SpentStep
<1>3. SpentInv => SpentKeyStaysOut
  BY DEF SpentInv
<1> QED BY <1>1, <1>2, <1>3, PTL DEF Spec

----------------------------------------------------------------------------
(* Probes.                                                                  *)

ProbeInv == TypeOK /\ ProbeFollowsCooldown

\* An answer starts no probe and moves a deadline only of a key it puts in cooling.
LEMMA ProbeResolve ==
  ASSUME ProbeInv, NEW r \in inflight, now' = now,
         \/ state' = state /\ retryAt' = retryAt
         \/ /\ state' = [state EXCEPT ![lease[r].key] = "cooling"]
            /\ \E at : retryAt' = [retryAt EXCEPT ![lease[r].key] = at]
         \/ state' = [state EXCEPT ![lease[r].key] = AfterSuccess(@)] /\ retryAt' = retryAt
  PROVE  ProbeFollowsCooldown'
<1> SUFFICES ASSUME NEW k \in Keys, state'[k] = "probing"
             PROVE  retryAt'[k] <= now
  BY DEF ProbeFollowsCooldown
<1>1. lease[r].key \in Keys
  BY DEF ProbeInv, TypeOK, Lease
<1>2. state[k] = "probing" /\ retryAt'[k] = retryAt[k]
  BY <1>1 DEF ProbeInv, TypeOK, AfterSuccess
<1> QED BY <1>2 DEF ProbeInv, ProbeFollowsCooldown

LEMMA ProbeAdmit ==
  ASSUME ProbeInv, NEW r \in Requests, NEW t \in 0..now, NEW s, Admit(r, t, s)
  PROVE  ProbeFollowsCooldown'
<1>1. PICK g \in Nat, k \in Keys :
        Grant(r, t, s, g, k) /\ k \in Candidates(Lends(g), t, s)
  BY GrantedKey DEF ProbeInv
<1>2. now' = now /\ retryAt' = retryAt
  BY DEF Admit
<1>3. state' = [state EXCEPT ![k] = IF @ = "cooling" THEN "probing" ELSE @]
  BY <1>1 DEF Grant
<1>4. state[k] = "cooling" => retryAt[k] <= t
  BY <1>1 DEF Candidates, Eligible
<1>5. now \in Nat /\ retryAt[k] \in Nat /\ t <= now /\ t \in Nat
  BY DEF ProbeInv, TypeOK
<1> SUFFICES ASSUME NEW q \in Keys, state'[q] = "probing"
             PROVE  retryAt[q] <= now
  BY <1>2 DEF ProbeFollowsCooldown
<1>6. CASE state[q] = "probing"
  BY <1>6 DEF ProbeInv, ProbeFollowsCooldown
<1>7. CASE state[q] # "probing"
  <2>1. q = k /\ state[k] = "cooling"
    BY <1>3, <1>7 DEF ProbeInv, TypeOK
  <2> QED BY <1>4, <1>5, <2>1
<1> QED BY <1>6, <1>7

LEMMA ProbeUnchanged ==
  ASSUME ProbeInv, UNCHANGED <<state, retryAt>>, now' \in Nat, now <= now'
  PROVE  ProbeFollowsCooldown'
<1> SUFFICES ASSUME NEW k \in Keys, state[k] = "probing"
             PROVE  retryAt[k] <= now'
  BY DEF ProbeFollowsCooldown
<1>1. retryAt[k] <= now /\ retryAt[k] \in Nat /\ now \in Nat
  BY DEF ProbeInv, ProbeFollowsCooldown, TypeOK
<1> QED BY <1>1

LEMMA ProbeStep ==
  ASSUME ProbeInv, [Next]_vars
  PROVE  ProbeInv'
<1>1. TypeOK'
  BY TypeStep DEF ProbeInv
<1> SUFFICES ProbeFollowsCooldown'
  BY <1>1 DEF ProbeInv
<1>2. now \in Nat /\ now' \in Nat
  BY <1>1 DEF ProbeInv, TypeOK
<1>3. CASE UNCHANGED <<state, retryAt, now>>
  BY <1>2, <1>3, ProbeUnchanged
<1>4. CASE Tick
  BY <1>2, <1>4, ProbeUnchanged DEF Tick
<1>5. CASE Boot
  BY <1>3, <1>5 DEF Boot, Rebuild
<1>6. CASE \E k \in Keys, u \in UsageSnapshots : UpdateUsage(k, u)
  <2>1. PICK k \in Keys, u \in UsageSnapshots : UpdateUsage(k, u)
    BY <1>6
  <2>2. \A q \in Keys : state'[q] = "probing" => state[q] = "probing"
    BY <2>1 DEF UpdateUsage, ProbeInv, TypeOK
  <2> QED BY <2>1, <2>2 DEF UpdateUsage, ProbeInv, ProbeFollowsCooldown
<1>7. CASE Select
  <2>1. PICK t \in 0..now, s \in Selections : (\E r \in Requests : Admit(r, t, s)) \/ Refuse(t, s)
    BY <1>7 DEF Select
  <2>2. CASE \E r \in Requests : Admit(r, t, s)
    BY <2>2, ProbeAdmit
  <2>3. CASE Refuse(t, s)
    BY <1>3, <2>3 DEF Refuse
  <2> QED BY <2>1, <2>2, <2>3
<1>8. CASE Resolve
  <2>1. PICK r \in Requests :
          \/ \E d \in RetryAfters : ResolveRateLimited(r, d)
          \/ ResolveQuotaRejected(r)
          \/ ResolveClientError(r)
          \/ ResolveSuccess(r)
          \/ ResolveOther(r)
    BY <1>8 DEF Resolve
  <2>2. r \in inflight /\ now' = now
    BY <2>1 DEF ResolveRateLimited, ResolveQuotaRejected, ResolveClientError,
                ResolveSuccess, ResolveOther
  <2>3. \/ state' = state /\ retryAt' = retryAt
        \/ /\ state' = [state EXCEPT ![lease[r].key] = "cooling"]
           /\ \E at : retryAt' = [retryAt EXCEPT ![lease[r].key] = at]
        \/ state' = [state EXCEPT ![lease[r].key] = AfterSuccess(@)] /\ retryAt' = retryAt
    BY <2>1 DEF ResolveRateLimited, ResolveQuotaRejected, ResolveClientError,
                ResolveSuccess, ResolveOther
  <2> QED BY <2>2, <2>3, ProbeResolve
<1>9. CASE \E r \in Requests : SettleResearch(r)
  BY <1>3, <1>9 DEF SettleResearch
<1>10. CASE \E t \in 0..now : RebuildGroups(t)
  BY <1>3, <1>10 DEF RebuildGroups, Rebuild
<1>11. CASE MonitorSnapshot
  BY <1>3, <1>11 DEF MonitorSnapshot
<1>12. CASE UNCHANGED vars
  BY <1>3, <1>12 DEF vars
<1> QED BY <1>4, <1>5, <1>6, <1>7, <1>8, <1>9, <1>10, <1>11, <1>12 DEF Next

\* A key is probed only once the cooldown of its last 429 has passed, though
\* SelectFor may run on an old clock reading.
THEOREM ProbesFollowCooldowns == Spec => []ProbeFollowsCooldown
<1>1. Init => ProbeInv
  <2> SUFFICES ASSUME Init PROVE ProbeInv
    OBVIOUS
  <2>1. TypeOK
    BY TypeInit
  <2> QED BY <2>1 DEF Init, ProbeInv, ProbeFollowsCooldown
<1>2. ProbeInv /\ [Next]_vars => ProbeInv'
  BY ProbeStep
<1>3. ProbeInv => ProbeFollowsCooldown
  BY DEF ProbeInv
<1> QED BY <1>1, <1>2, <1>3, PTL DEF Spec

\* The step that CooldownIsServed allows.
CooldownKept ==
  \A k \in Keys :
    state[k] = "cooling" /\ state'[k] # "cooling" =>
      \/ state'[k] = "probing" /\ retryAt[k] <= now
      \/ state'[k] = "exhausted" /\ limit'[k] <= realUsage'[k]

LEMMA CooldownStep ==
  ASSUME TypeOK, [Next]_vars
  PROVE  CooldownKept
<1> SUFFICES ASSUME NEW k \in Keys, state[k] = "cooling", state'[k] # "cooling"
             PROVE  \/ state'[k] = "probing" /\ retryAt[k] <= now
                    \/ state'[k] = "exhausted" /\ limit'[k] <= realUsage'[k]
  BY DEF CooldownKept
<1>1. CASE \E q \in Keys, u \in UsageSnapshots : UpdateUsage(q, u)
  BY <1>1 DEF UpdateUsage, TypeOK
<1>2. CASE Select
  <2>1. PICK t \in 0..now, s \in Selections : \E r \in Requests : Admit(r, t, s)
    BY <1>2 DEF Select, Refuse
  <2>2. PICK r \in Requests : Admit(r, t, s)
    BY <2>1
  <2>3. PICK g \in Nat, q \in Keys : Grant(r, t, s, g, q) /\ q \in Candidates(Lends(g), t, s)
    BY <2>2, GrantedKey
  <2>4. q = k /\ state'[k] = "probing"
    BY <2>3 DEF Grant, TypeOK
  <2>5. retryAt[k] <= t
    BY <2>3, <2>4 DEF Candidates, Eligible
  <2>6. retryAt[k] \in Nat /\ now \in Nat
    BY DEF TypeOK
  <2> QED BY <2>4, <2>5, <2>6
<1>3. CASE Resolve
  <2>1. PICK r \in inflight :
          \/ state' = state
          \/ state' = [state EXCEPT ![lease[r].key] = "cooling"]
          \/ state' = [state EXCEPT ![lease[r].key] = AfterSuccess(@)]
    BY <1>3 DEF Resolve, ResolveRateLimited, ResolveQuotaRejected, ResolveClientError,
                ResolveSuccess, ResolveOther
  <2> QED BY <2>1 DEF TypeOK, AfterSuccess
<1>4. CASE state' = state
  BY <1>4
<1>5. CASE Tick \/ Boot \/ MonitorSnapshot \/ UNCHANGED vars
  BY <1>4, <1>5 DEF Tick, Boot, Rebuild, MonitorSnapshot, vars
<1>6. CASE (\E r \in Requests : SettleResearch(r)) \/ \E t \in 0..now : RebuildGroups(t)
  BY <1>4, <1>6 DEF SettleResearch, RebuildGroups, Rebuild
<1> QED BY <1>1, <1>2, <1>3, <1>5, <1>6 DEF Next

\* No late answer ends a cooldown, and a selection ends it only after its deadline,
\* for any clock readings, answers and snapshots.
THEOREM CooldownsAreServed == Spec => CooldownIsServed
<1>1. TypeOK /\ [Next]_vars => [CooldownKept]_vars
  BY CooldownStep
<1>2. Spec => [][CooldownKept]_vars
  BY <1>1, TypeCorrect, PTL DEF Spec
<1> QED BY <1>2 DEF CooldownIsServed, CooldownKept

----------------------------------------------------------------------------
(* Steps that reservations survive.                                         *)

\* The step that ResearchHoldSurvives allows.
HoldKept ==
  \A r \in reservations :
    lease[r].workload = "research" /\ r \notin settled
      => r \in reservations' \/ r \in inflight \ inflight'

LEMMA HoldStep ==
  ASSUME TypeOK, [Next]_vars
  PROVE  HoldKept
<1>1. CASE reservations \subseteq reservations'
  BY <1>1 DEF HoldKept
<1>2. CASE Tick \/ Boot \/ MonitorSnapshot \/ UNCHANGED vars
  BY <1>1, <1>2 DEF Tick, Boot, Rebuild, MonitorSnapshot, vars, history
<1>3. CASE \E k \in Keys, u \in UsageSnapshots : UpdateUsage(k, u)
  BY <1>3 DEF UpdateUsage, Superseded, Persists, HoldKept
<1>4. CASE Select
  <2>1. PICK t \in 0..now, s \in Selections : (\E r \in Requests : Admit(r, t, s)) \/ Refuse(t, s)
    BY <1>4 DEF Select
  <2>2. CASE \E r \in Requests : Admit(r, t, s)
    BY <1>1, <2>2 DEF Admit, Grant
  <2>3. CASE Refuse(t, s)
    BY <1>1, <2>3 DEF Refuse
  <2> QED BY <2>1, <2>2, <2>3
<1>5. CASE Resolve
  <2>1. PICK r \in Requests :
          \/ \E d \in RetryAfters : ResolveRateLimited(r, d)
          \/ ResolveQuotaRejected(r)
          \/ ResolveClientError(r)
          \/ ResolveSuccess(r)
          \/ ResolveOther(r)
    BY <1>5 DEF Resolve
  <2>2. r \in inflight /\ inflight' = inflight \ {r}
    BY <2>1 DEF ResolveRateLimited, ResolveQuotaRejected, ResolveClientError,
                ResolveSuccess, ResolveOther
  <2>3. reservations \ {r} \subseteq reservations'
    BY <2>1 DEF ResolveRateLimited, ResolveQuotaRejected, ResolveClientError,
                ResolveSuccess, ResolveOther, RemoveAndRollback
  <2> QED BY <2>2, <2>3 DEF HoldKept
<1>6. CASE \E r \in Requests : SettleResearch(r)
  BY <1>1, <1>6 DEF SettleResearch
<1>7. CASE \E t \in 0..now : RebuildGroups(t)
  BY <1>1, <1>7 DEF RebuildGroups, Rebuild
<1> QED BY <1>2, <1>3, <1>4, <1>5, <1>6, <1>7 DEF Next

\* A research reservation leaves the books only by its task's own answer or, once
\* settled, by a snapshot, however many tasks and keys there are.
THEOREM ResearchHoldsSurvive == Spec => ResearchHoldSurvives
<1>1. TypeOK /\ [Next]_vars => [HoldKept]_vars
  BY HoldStep
<1>2. Spec => []TypeOK
  BY TypeCorrect
<1>3. Spec => [][HoldKept]_vars
  BY <1>1, <1>2, PTL DEF Spec
<1> QED BY <1>3 DEF ResearchHoldSurvives, HoldKept

----------------------------------------------------------------------------
(* Admissions.                                                              *)

\* The step that AdmissionFits allows.
AdmissionsFit ==
  \A r \in DOMAIN lease' \ DOMAIN lease, k \in Keys :
    lease'[r].key = k => realUsage[k] + Credits(HeldOn(k))' <= limit[k]

LEMMA AdmitFits ==
  ASSUME BooksInv, BooksInv',
         NEW r \in Requests, NEW t \in 0..now, NEW s \in Selections, Admit(r, t, s)
  PROVE  AdmissionsFit
<1>1. PICK g \in Nat, k \in Keys :
        Grant(r, t, s, g, k) /\ k \in Candidates(Lends(g), t, s)
  BY GrantedKey DEF BooksInv
<1>2. Remaining(k) > 0 /\ Remaining(k) >= s.estimate
  BY <1>1 DEF Candidates, Eligible, CanHold, Selectable
<1>3. /\ limit[k] \in Nat /\ realUsage[k] \in Nat /\ estimated[k] \in Nat
      /\ s.estimate \in Nat
  BY SelectionsAssumption DEF BooksInv, TypeOK
<1>4. realUsage[k] + (estimated[k] + s.estimate) <= limit[k]
  BY <1>2, <1>3 DEF Remaining, Monus
<1>5. estimated'[k] = estimated[k] + s.estimate
  BY <1>1 DEF Grant, BooksInv, TypeOK
<1>6. Credits(HeldOn(k))' = estimated'[k]
  BY DEF BooksInv, EstimateIsHeld
<1>7. DOMAIN lease' \ DOMAIN lease \subseteq {r} /\ lease'[r].key = k
  BY <1>1 DEF Grant
<1> QED BY <1>4, <1>5, <1>6, <1>7 DEF AdmissionsFit

LEMMA FitStep ==
  ASSUME BooksInv, [Next]_vars
  PROVE  AdmissionsFit
<1>1. CASE lease' = lease
  BY <1>1 DEF AdmissionsFit
<1>2. CASE Select
  <2>1. PICK t \in 0..now, s \in Selections : (\E r \in Requests : Admit(r, t, s)) \/ Refuse(t, s)
    BY <1>2 DEF Select
  <2>2. CASE \E r \in Requests : Admit(r, t, s)
    BY <2>2, BooksStep, AdmitFits
  <2>3. CASE Refuse(t, s)
    BY <1>1, <2>3 DEF Refuse
  <2> QED BY <2>1, <2>2, <2>3
<1>3. CASE Resolve
  BY <1>1, <1>3 DEF Resolve, ResolveRateLimited, ResolveQuotaRejected,
                    ResolveClientError, ResolveSuccess, ResolveOther
<1>4. CASE Tick \/ Boot \/ MonitorSnapshot \/ UNCHANGED vars
  BY <1>1, <1>4 DEF Tick, Boot, Rebuild, MonitorSnapshot, vars
<1>5. CASE \E k \in Keys, u \in UsageSnapshots : UpdateUsage(k, u)
  BY <1>1, <1>5 DEF UpdateUsage
<1>6. CASE \E r \in Requests : SettleResearch(r)
  BY <1>1, <1>6 DEF SettleResearch
<1>7. CASE \E t \in 0..now : RebuildGroups(t)
  BY <1>1, <1>7 DEF RebuildGroups, Rebuild
<1> QED BY <1>2, <1>3, <1>4, <1>5, <1>6, <1>7 DEF Next

\* No admission overbooks a key: with all that is reserved on it, it stays within
\* the limit of its last snapshot.  Remaining looks at the running total only;
\* BooksAreExact makes it the credits really held.
THEOREM AdmissionsNeverOverbook == Spec => AdmissionFits
<1>1. BooksInv /\ [Next]_vars => [AdmissionsFit]_vars
  BY FitStep
<1>2. Init => BooksInv
  BY BooksInit
<1>3. BooksInv /\ [Next]_vars => BooksInv'
  BY BooksStep
<1>4. Spec => [][AdmissionsFit]_vars
  BY <1>1, <1>2, <1>3, PTL DEF Spec
<1> QED BY <1>4 DEF AdmissionFits, AdmissionsFit

----------------------------------------------------------------------------
(* Pauses.                                                                  *)

\* The step that PauseIsOutlived allows.
PauseKept ==
  \A k \in Keys :
    ResearchBlocked(k) => ResearchBlocked(k)' \/ Remaining(k)' > researchBlockedAt[k]

LEMMA RemainingTypeNext ==
  ASSUME TypeOK', NEW k \in Keys
  PROVE  Remaining(k)' \in Nat
<1>1. limit'[k] \in Nat /\ realUsage'[k] \in Nat /\ estimated'[k] \in Nat
  BY DEF TypeOK
<1> QED BY <1>1 DEF Remaining, Monus

\* A pause that is not touched ends by what the key can serve only.
LEMMA PauseUntouched ==
  ASSUME TypeOK, TypeOK', NEW k \in Keys, ResearchBlocked(k),
         researchBlockedAt'[k] = researchBlockedAt[k]
  PROVE  ResearchBlocked(k)' \/ Remaining(k)' > researchBlockedAt[k]
<1>1. Remaining(k)' \in Nat
  BY RemainingTypeNext
<1>2. researchBlockedAt[k] \in Nat
  BY DEF TypeOK, ResearchBlocked
<1> QED BY <1>1, <1>2 DEF ResearchBlocked

LEMMA PauseStep ==
  ASSUME TypeOK, [Next]_vars
  PROVE  PauseKept
<1>1. TypeOK'
  BY TypeStep
<1> SUFFICES ASSUME NEW k \in Keys, ResearchBlocked(k)
             PROVE  ResearchBlocked(k)' \/ Remaining(k)' > researchBlockedAt[k]
  BY DEF PauseKept
<1>2. CASE researchBlockedAt' = researchBlockedAt
  BY <1>1, <1>2, PauseUntouched
<1>3. CASE \E asked : researchBlockedAt' = LiftPauses(asked)
  <2>1. researchBlockedAt'[k] = researchBlockedAt[k]
    BY <1>3 DEF LiftPauses
  <2> QED BY <1>1, <2>1, PauseUntouched
<1>4. CASE Tick \/ Boot \/ UNCHANGED vars
  BY <1>2, <1>4 DEF Tick, Boot, Rebuild, vars
<1>5. CASE \E q \in Keys, u \in UsageSnapshots : UpdateUsage(q, u)
  BY <1>2, <1>5 DEF UpdateUsage
<1>6. CASE Select
  BY <1>3, <1>6 DEF Select, Admit, Refuse, LiftPausesOf
<1>7. CASE Resolve
  <2>1. PICK r \in Requests :
          \/ \E d \in RetryAfters : ResolveRateLimited(r, d)
          \/ ResolveQuotaRejected(r)
          \/ ResolveClientError(r)
          \/ ResolveSuccess(r)
          \/ ResolveOther(r)
    BY <1>7 DEF Resolve
  <2>2. CASE ResolveQuotaRejected(r)
    <3>1. CASE k = lease[r].key /\ lease[r].workload = "research"
      <4>1. /\ researchBlockedAt'[k] = Monus(Monus(limit[k], realUsage[k]), estimated'[k])
            /\ limit' = limit /\ realUsage' = realUsage
        BY <2>2, <3>1 DEF ResolveQuotaRejected, usageVars, TypeOK
      <4>2. researchBlockedAt'[k] = Remaining(k)'
        BY <4>1 DEF Remaining
      <4>3. Remaining(k)' \in Nat
        BY <1>1, RemainingTypeNext
      <4> QED BY <4>2, <4>3 DEF ResearchBlocked, NotBlocked
    <3>2. CASE ~(k = lease[r].key /\ lease[r].workload = "research")
      <4>1. researchBlockedAt'[k] = researchBlockedAt[k]
        BY <2>2, <3>2 DEF ResolveQuotaRejected, TypeOK
      <4> QED BY <1>1, <4>1, PauseUntouched
    <3> QED BY <3>1, <3>2
  <2>3. CASE ~ResolveQuotaRejected(r)
    BY <1>2, <2>1, <2>3 DEF ResolveRateLimited, ResolveClientError,
                            ResolveSuccess, ResolveOther
  <2> QED BY <2>2, <2>3
<1>8. CASE \E r \in Requests : SettleResearch(r)
  BY <1>2, <1>8 DEF SettleResearch
<1>9. CASE \E t \in 0..now : RebuildGroups(t)
  BY <1>2, <1>9 DEF RebuildGroups, Rebuild
<1>10. CASE MonitorSnapshot
  BY <1>3, <1>10 DEF MonitorSnapshot
<1> QED BY <1>4, <1>5, <1>6, <1>7, <1>8, <1>9, <1>10 DEF Next

\* A research pause ends only when its key can serve more than at the rejection,
\* however often the monitor is read and whatever other rejections come in.
THEOREM PausesAreOutlived == Spec => PauseIsOutlived
<1>1. TypeOK /\ [Next]_vars => [PauseKept]_vars
  BY PauseStep
<1>2. Spec => [][PauseKept]_vars
  BY <1>1, TypeCorrect, PTL DEF Spec
<1> QED BY <1>2 DEF PauseIsOutlived, PauseKept

----------------------------------------------------------------------------
(* Budgets.                                                                 *)

\* What RoundBudget says of group g.
Within(g) ==
  \/ groups[g].reserved <= GroupUsageLimit
  \/ \E r \in ChargedTo(g) : groups[g].reserved <= lease[r].estimate

BudgetInv == TypeOK /\ RoundBudget

\* The leases of a round are not forgotten before it ends.
RoundGoesOn ==
  /\ thisRound \subseteq thisRound'
  /\ \A r \in DOMAIN lease : lease'[r] = lease[r]

\* A charge that does not grow stays within what allowed it.
LEMMA WithinKept ==
  ASSUME BudgetInv, TypeOK', RoundGoesOn, NEW h \in DOMAIN groups, h \in DOMAIN groups',
         groups'[h].reserved <= groups[h].reserved
  PROVE  Within(h)'
<1>1. /\ groups[h].reserved \in Nat /\ groups'[h].reserved \in Nat
      /\ Within(h)
  <2>1. groups' \in Seq(Group)
    BY DEF TypeOK
  <2>2. groups'[h] \in Group
    BY <2>1
  <2> QED BY <2>2, GroupsAreFunction DEF BudgetInv, RoundBudget, Within, Group
<1>2. CASE groups[h].reserved <= GroupUsageLimit
  BY <1>1, <1>2, GroupingAssumption DEF Within
<1>3. CASE \E r \in ChargedTo(h) : groups[h].reserved <= lease[r].estimate
  <2>1. PICK r \in ChargedTo(h) : groups[h].reserved <= lease[r].estimate
    BY <1>3
  <2>2. r \in DOMAIN lease /\ lease[r].estimate \in Nat
    BY DEF ChargedTo, BudgetInv, TypeOK, Lease
  <2>3. lease'[r] = lease[r] /\ r \in thisRound'
    BY <2>2 DEF RoundGoesOn, ChargedTo
  <2>4. r \in ChargedTo(h)'
    BY <2>3 DEF ChargedTo
  <2>5. groups'[h].reserved <= lease'[r].estimate
    BY <1>1, <2>1, <2>2, <2>3
  <2> QED BY <2>4, <2>5 DEF Within
<1> QED BY <1>1, <1>2, <1>3 DEF Within

\* A charge is added to an unused group, or fits the limit.
LEMMA BudgetAdmit ==
  ASSUME BudgetInv, TypeOK', NEW r \in Requests, NEW t \in 0..now, NEW s \in Selections,
         Admit(r, t, s)
  PROVE  RoundBudget'
<1>1. PICK g \in Nat, k \in Keys :
        /\ Grant(r, t, s, g, k)
        /\ g # 0 => Grouped /\ g \in ChosenGroups(t, s)
  BY GrantedKey DEF BudgetInv
<1>2. /\ lease'[r].group = g /\ lease'[r].estimate = s.estimate
      /\ r \in thisRound' /\ RoundGoesOn
  BY <1>1 DEF Grant, Admit, RoundGoesOn
<1>3. CASE g = 0
  <2>1. groups' = groups
    BY <1>1, <1>3 DEF Grant
  <2>2. \A h \in DOMAIN groups : groups[h].reserved \in Nat
    BY GroupsAreFunction DEF BudgetInv, Group
  <2>3. \A h \in DOMAIN groups : Within(h)'
    BY <1>2, <2>1, <2>2, WithinKept
  <2> QED BY <2>1, <2>3 DEF RoundBudget, Within
<1>4. CASE g # 0
  <2> DEFINE mp == MarkPassed({h \in DOMAIN groups : ScanPosition(h) < ScanPosition(g)}, t, s)
  <2>1. groups' = [mp EXCEPT ![g].reserved = @ + s.estimate]
    BY <1>1, <1>4 DEF Grant
  <2>2. g \in DOMAIN groups /\ ~Overflows(groups[g], s)
    BY <1>1, <1>4 DEF ChosenGroups, Offers
  <2>3. /\ DOMAIN mp = DOMAIN groups
        /\ \A h \in DOMAIN groups : mp[h] \in Group
    BY GroupsAreFunction, MarkPassedType DEF BudgetInv
  <2>4. \A h \in DOMAIN groups : mp[h].reserved = groups[h].reserved
    BY GroupsAreFunction DEF MarkPassed, BudgetInv, Group
  <2> HIDE DEF mp
  <2>5. DOMAIN groups' = DOMAIN groups
    BY <2>1, <2>3
  <2>6. ASSUME NEW h \in DOMAIN groups
        PROVE  Within(h)'
    <3>1. groups[h].reserved \in Nat
      BY GroupsAreFunction DEF BudgetInv, Group
    <3>2. CASE h # g
      <4>1. groups'[h].reserved = groups[h].reserved
        BY <2>1, <2>3, <2>4, <3>2
      <4> QED BY <1>2, <2>5, <3>1, <4>1, WithinKept
    <3>3. CASE h = g
      <4>1. groups'[g].reserved = groups[g].reserved + s.estimate
        BY <2>1, <2>2, <2>3, <2>4 DEF Group
      <4>2. s.estimate \in Nat
        BY SelectionsAssumption
      <4>3. groups[g].reserved = 0 \/ groups[g].reserved + s.estimate <= GroupUsageLimit
        BY <2>2, <3>1, <3>3, <4>2, GroupingAssumption DEF Overflows
      <4>4. CASE groups[g].reserved = 0
        <5>1. r \in ChargedTo(g)'
          BY <1>2 DEF ChargedTo
        <5>2. groups'[g].reserved <= lease'[r].estimate
          BY <1>2, <4>1, <4>2, <4>4
        <5> QED BY <3>3, <5>1, <5>2 DEF Within
      <4>5. CASE groups[g].reserved + s.estimate <= GroupUsageLimit
        BY <3>3, <4>1, <4>5 DEF Within
      <4> QED BY <4>3, <4>4, <4>5
    <3> QED BY <3>2, <3>3
  <2> QED BY <2>5, <2>6 DEF RoundBudget, Within
<1> QED BY <1>3, <1>4

\* A rejection lowers the charge of the group at its position, if any.
LEMMA BudgetRemove ==
  ASSUME BudgetInv, TypeOK', RoundGoesOn, NEW r \in DOMAIN lease, RemoveAndRollback(r)
  PROVE  RoundBudget'
<1>1. \A h \in DOMAIN groups : groups[h] \in Group /\ groups[h].reserved \in Nat
  BY GroupsAreFunction DEF BudgetInv, Group
<1>2. lease[r].estimate \in Nat
  BY DEF BudgetInv, TypeOK, Lease
<1>3. DOMAIN groups' = DOMAIN groups
  BY DEF RemoveAndRollback
<1>4. ASSUME NEW h \in DOMAIN groups
      PROVE  groups'[h].reserved <= groups[h].reserved
  <2>1. \/ groups'[h] = groups[h]
        \/ groups'[h].reserved = Monus(groups[h].reserved, lease[r].estimate)
    BY <1>1 DEF RemoveAndRollback, Group
  <2> QED BY <1>1, <1>2, <2>1 DEF Monus
<1>5. \A h \in DOMAIN groups : Within(h)'
  BY <1>3, <1>4, WithinKept
<1> QED BY <1>3, <1>5 DEF RoundBudget, Within

\* Steps that charge nothing.
LEMMA BudgetUnchanged ==
  ASSUME BudgetInv, TypeOK', RoundGoesOn, DOMAIN groups' = DOMAIN groups,
         \A h \in DOMAIN groups : groups'[h].reserved = groups[h].reserved
  PROVE  RoundBudget'
<1>1. \A h \in DOMAIN groups : groups[h].reserved \in Nat
  BY GroupsAreFunction DEF BudgetInv, Group
<1>2. \A h \in DOMAIN groups : Within(h)'
  BY <1>1, WithinKept
<1> QED BY <1>2 DEF RoundBudget, Within

LEMMA BudgetRebuild ==
  ASSUME BudgetInv, NEW t \in Nat, Rebuild(t)
  PROVE  RoundBudget'
<1>1. \A g \in DOMAIN groups' : groups'[g].reserved = 0
  <2>1. CASE UsableKeys = {}
    BY <2>1 DEF Rebuild
  <2>2. CASE UsableKeys # {}
    BY <2>2, RebuiltGroups DEF BudgetInv, FreshGroup
  <2> QED BY <2>1, <2>2
<1> QED BY <1>1, GroupingAssumption DEF RoundBudget

LEMMA BudgetStep ==
  ASSUME BudgetInv, [Next]_vars
  PROVE  BudgetInv'
<1>1. TypeOK'
  BY TypeStep DEF BudgetInv
<1> SUFFICES RoundBudget'
  BY <1>1 DEF BudgetInv
<1>2. CASE UNCHANGED <<groups, thisRound, lease>>
  BY <1>1, <1>2, BudgetUnchanged DEF RoundGoesOn
<1>3. CASE Tick \/ MonitorSnapshot \/ UNCHANGED vars
  BY <1>2, <1>3 DEF Tick, MonitorSnapshot, vars, rotation, history
<1>4. CASE Boot
  <2>1. now \in Nat
    BY DEF BudgetInv, TypeOK
  <2> QED BY <1>2, <1>4, <2>1, BudgetRebuild DEF Boot, rotation, history
<1>5. CASE \E k \in Keys, u \in UsageSnapshots : UpdateUsage(k, u)
  BY <1>2, <1>5 DEF UpdateUsage, rotation, history
<1>6. CASE Select
  <2>1. PICK t \in 0..now, s \in Selections : (\E r \in Requests : Admit(r, t, s)) \/ Refuse(t, s)
    BY <1>6 DEF Select
  <2>2. CASE \E r \in Requests : Admit(r, t, s)
    BY <1>1, <2>2, BudgetAdmit
  <2>3. CASE Refuse(t, s)
    <3>1. groups' = MarkPassed(DOMAIN groups, t, s)
      BY <2>3 DEF Refuse
    <3>2. DOMAIN groups' = DOMAIN groups
      BY <3>1 DEF MarkPassed
    <3>3. \A h \in DOMAIN groups : groups'[h].reserved = groups[h].reserved
      BY <3>1, GroupsAreFunction DEF MarkPassed, BudgetInv, Group
    <3>4. RoundGoesOn
      BY <2>3 DEF Refuse, history, RoundGoesOn
    <3> QED BY <1>1, <3>2, <3>3, <3>4, BudgetUnchanged
  <2> QED BY <2>1, <2>2, <2>3
<1>7. CASE Resolve
  <2>1. PICK r \in Requests :
          \/ \E d \in RetryAfters : ResolveRateLimited(r, d)
          \/ ResolveQuotaRejected(r)
          \/ ResolveClientError(r)
          \/ ResolveSuccess(r)
          \/ ResolveOther(r)
    BY <1>7 DEF Resolve
  <2>2. r \in DOMAIN lease
    BY <2>1 DEF ResolveRateLimited, ResolveQuotaRejected, ResolveClientError,
                ResolveSuccess, ResolveOther, BudgetInv, TypeOK
  <2>3. RemoveAndRollback(r) \/ groups' = groups
    BY <2>1 DEF ResolveRateLimited, ResolveQuotaRejected, ResolveClientError,
                ResolveSuccess, ResolveOther, rotation
  <2>4. thisRound' = thisRound /\ lease' = lease
    BY <2>1 DEF ResolveRateLimited, ResolveQuotaRejected, ResolveClientError,
                ResolveSuccess, ResolveOther
  <2> QED BY <1>1, <1>2, <2>2, <2>3, <2>4, BudgetRemove DEF RoundGoesOn
<1>8. CASE \E r \in Requests : SettleResearch(r)
  BY <1>2, <1>8 DEF SettleResearch, rotation, history
<1>9. CASE \E t \in 0..now : RebuildGroups(t)
  <2>1. PICK t \in 0..now : RebuildGroups(t)
    BY <1>9
  <2>2. t \in Nat
    BY DEF BudgetInv, TypeOK
  <2> QED BY <2>1, <2>2, BudgetRebuild DEF RebuildGroups
<1> QED BY <1>3, <1>4, <1>5, <1>6, <1>7, <1>8, <1>9 DEF Next

\* A group is charged beyond its limit only by one request of the round that is alone
\* as large as the whole charge, whatever rollbacks and rebuilds come in between.
THEOREM BudgetsHold == Spec => []RoundBudget
<1>1. Init => BudgetInv
  <2> SUFFICES ASSUME Init PROVE BudgetInv
    OBVIOUS
  <2>1. TypeOK
    BY TypeInit
  <2>2. groups = <<>>
    BY DEF Init
  <2> QED BY <2>1, <2>2 DEF BudgetInv, RoundBudget
<1>2. BudgetInv /\ [Next]_vars => BudgetInv'
  BY BudgetStep
<1>3. BudgetInv => RoundBudget
  BY DEF BudgetInv
<1> QED BY <1>1, <1>2, <1>3, PTL DEF Spec

----------------------------------------------------------------------------
(* The ledger.  The invariant behind it is that the running totals are      *)
(* exact: the pool admits by the totals, the ledger by the holds.           *)

\* The balance and the holds that ImplementsLedger reads off the pool.
Balance == [k \in Keys |-> Monus(limit[k], realUsage[k])]
Hold(r) == [key |-> lease[r].key, credits |-> lease[r].estimate, kept |-> Persists(r)]
Held    == [r \in reservations |-> Hold(r)]

\* The ledger's own copy of the operator.
LEMMA SameCardinality == \A S : Ledger!Cardinality(S) = Cardinality(S)
BY DEF Ledger!Cardinality, Cardinality

\* What the ledger counts one by one is what the pool's reservations add up to.
LEMMA OwedIsCredits == \A k : Ledger!Owed(k) = Credits(HeldOn(k))
<1> SUFFICES ASSUME NEW k PROVE Ledger!Owed(k) = Credits(HeldOn(k))
  OBVIOUS
<1>1. Ledger!On(k) = HeldOn(k)
  BY DEF Ledger!On, HeldOn
<1>2. \A r \in HeldOn(k) : Held[r].credits = lease[r].estimate
  BY DEF Held, Hold, HeldOn
<1>3. {{r} \X (1..Held[r].credits) : r \in HeldOn(k)}
        = {{r} \X (1..lease[r].estimate) : r \in HeldOn(k)}
  BY <1>2
<1> QED BY <1>1, <1>3, SameCardinality DEF Ledger!Owed, Credits, Held, Hold

LEMMA LedgerInitial == Init => Ledger!LedgerInit
<1> SUFFICES ASSUME Init PROVE Ledger!LedgerInit
  OBVIOUS
<1>1. Balance = [k \in Keys |-> 0]
  BY DEF Init, Balance, Monus
<1>2. Held = [r \in {} |-> 0]
  BY DEF Init, Held
<1>3. DOMAIN lease = {}
  BY DEF Init
<1> QED BY <1>1, <1>2, <1>3 DEF Ledger!LedgerInit, Balance, Held, Hold

\* The steps the ledger does not see.
LEMMA LedgerUnchanged ==
  ASSUME UNCHANGED <<limit, realUsage, lease, reservations, settled>>
  PROVE  UNCHANGED Ledger!ledgerVars
<1>1. \A r : Persists(r)' = Persists(r)
  BY DEF Persists
<1>2. Balance' = Balance /\ Held' = Held
  BY <1>1 DEF Balance, Held, Hold
<1> QED BY <1>2 DEF Ledger!ledgerVars, Balance, Held, Hold

LEMMA SnapshotAccounts ==
  ASSUME TypeOK, NEW k \in Keys, NEW u \in UsageSnapshots, UpdateUsage(k, u)
  PROVE  Ledger!LedgerNext
<1> DEFINE left == Monus(u.limit, u.used)
<1>1. /\ limit' = [limit EXCEPT ![k] = u.limit] /\ realUsage' = [realUsage EXCEPT ![k] = u.used]
      /\ reservations' = reservations \ Superseded(k) /\ settled' = settled \ Superseded(k)
      /\ lease' = lease
  BY DEF UpdateUsage
<1>2. Balance' = [Balance EXCEPT ![k] = left]
  BY <1>1 DEF Balance, TypeOK
<1>3. reservations' = {r \in reservations : lease[r].key = k => Persists(r)}
  BY <1>1 DEF Superseded, HeldOn
<1>4. \A r \in reservations' : Hold(r)' = Hold(r)
  BY <1>1 DEF Hold, Persists
<1>5. {r \in DOMAIN Held : Held[r].key = k => Held[r].kept} = reservations'
  BY <1>3 DEF Held, Hold
<1>6. Held' = [q \in {r \in DOMAIN Held : Held[r].key = k => Held[r].kept} |-> Held[q]]
  BY <1>3, <1>4, <1>5 DEF Held
<1>7. Ledger!Account(k, left)
  BY <1>1, <1>2, <1>6 DEF Ledger!Account, Balance, Held, Hold
<1> QED BY <1>7 DEF Ledger!LedgerNext

LEMMA AdmissionHolds ==
  ASSUME BooksInv, NEW r \in Requests, NEW t \in 0..now, NEW s \in Selections, Admit(r, t, s)
  PROVE  Ledger!LedgerNext
<1>1. PICK g \in Nat, k \in Keys : Grant(r, t, s, g, k) /\ k \in Candidates(Lends(g), t, s)
  BY GrantedKey DEF BooksInv
<1>2. Remaining(k) > 0 /\ Remaining(k) >= s.estimate
  BY <1>1 DEF Candidates, Eligible, CanHold, Selectable
<1>3. /\ r \notin DOMAIN lease /\ r \notin reservations /\ r \notin settled
      /\ settled' = settled /\ limit' = limit /\ realUsage' = realUsage
  BY DEF Admit, usageVars, BooksInv, TypeOK
<1>4. /\ DOMAIN lease' = DOMAIN lease \cup {r} /\ reservations' = reservations \cup {r}
      /\ lease'[r].key = k /\ lease'[r].estimate = s.estimate /\ lease'[r].workload = s.workload
      /\ \A q \in DOMAIN lease : lease'[q] = lease[q]
  BY <1>1, <1>3 DEF Grant
<1> DEFINE kept == s.workload = "research"
<1>5. Ledger!Owed(k) + s.estimate <= Balance[k]
  <2>1. /\ limit[k] \in Nat /\ realUsage[k] \in Nat /\ estimated[k] \in Nat
        /\ estimated[k] = Credits(HeldOn(k)) /\ s.estimate \in Nat
    BY SelectionsAssumption DEF BooksInv, TypeOK, EstimateIsHeld
  <2>2. estimated[k] + s.estimate <= Balance[k]
    BY <1>2, <2>1 DEF Remaining, Monus, Balance
  <2> QED BY <2>1, <2>2, OwedIsCredits
<1>6. Hold(r)' = [key |-> k, credits |-> s.estimate, kept |-> kept]
  BY <1>3, <1>4 DEF Hold, Persists
<1>7. \A q \in reservations : Hold(q)' = Hold(q)
  BY <1>3, <1>4 DEF Hold, Persists, BooksInv, TypeOK
<1>8. Held' = [q \in DOMAIN Held \cup {r} |->
                 IF q = r THEN [key |-> k, credits |-> s.estimate, kept |-> kept] ELSE Held[q]]
  BY <1>3, <1>4, <1>6, <1>7 DEF Held
<1>9. UNCHANGED Balance
  BY <1>3 DEF Balance
<1>10. Ledger!Hold(r, k, s.estimate, kept)
  BY <1>3, <1>4, <1>5, <1>8, <1>9 DEF Ledger!Hold, Balance, Held, Hold
<1>11. kept \in BOOLEAN /\ s.estimate \in {q.estimate : q \in Selections}
  OBVIOUS
<1> QED BY <1>10, <1>11 DEF Ledger!LedgerNext

LEMMA RejectionReleases ==
  ASSUME TypeOK, NEW r \in Requests, RemoveAndRollback(r),
         UNCHANGED <<limit, realUsage, lease>>
  PROVE  Ledger!LedgerNext \/ UNCHANGED Ledger!ledgerVars
<1>1. CASE r \notin reservations
  BY <1>1, LedgerUnchanged DEF RemoveAndRollback, TypeOK
<1>2. CASE r \in reservations
  <2>1. reservations' = reservations \ {r} /\ settled' = settled \ {r}
    BY <1>2 DEF RemoveAndRollback
  <2>2. \A q \in reservations' : Hold(q)' = Hold(q)
    BY <2>1 DEF Hold, Persists
  <2>3. Held' = [q \in DOMAIN Held \ {r} |-> Held[q]]
    BY <2>1, <2>2 DEF Held
  <2>4. Balance' = Balance
    BY DEF Balance
  <2>5. Ledger!Release(r)
    BY <1>2, <2>3, <2>4 DEF Ledger!Release, Balance, Held, Hold
  <2> QED BY <2>5 DEF Ledger!LedgerNext
<1> QED BY <1>1, <1>2

HoldRecord == [key : Keys, credits : Nat, kept : BOOLEAN]

LEMMA KeptUpdate ==
  ASSUME NEW h \in HoldRecord, NEW x \in HoldRecord,
         x.key = h.key, x.credits = h.credits, x.kept = FALSE
  PROVE  x = [h EXCEPT !.kept = FALSE]
BY DEF HoldRecord

LEMMA SettlementLetsGo ==
  ASSUME TypeOK, NEW r \in Requests, SettleResearch(r)
  PROVE  Ledger!LedgerNext
<1>1. /\ r \in reservations /\ settled' = settled \cup {r}
      /\ UNCHANGED <<limit, realUsage, lease, reservations>>
  BY DEF SettleResearch, usageVars
<1>2. Hold(r)' = [Hold(r) EXCEPT !.kept = FALSE]
  <2>1. Persists(r)' = FALSE
    <3>1. r \in settled'
      BY <1>1
    <3> QED BY <3>1 DEF Persists
  <2>2. Hold(r)' = [key |-> lease[r].key, credits |-> lease[r].estimate, kept |-> FALSE]
    BY <1>1, <2>1 DEF Hold
  <2>3. Hold(r) \in HoldRecord /\ Hold(r)' \in HoldRecord
    BY <1>1, <2>2 DEF Hold, HoldRecord, Persists, TypeOK, Lease
  <2>4. /\ Hold(r)'.key = Hold(r).key /\ Hold(r)'.credits = Hold(r).credits
        /\ Hold(r)'.kept = FALSE
    BY <2>2 DEF Hold
  <2> QED BY <2>3, <2>4, KeptUpdate
<1>3. \A q \in reservations : q # r => Hold(q)' = Hold(q)
  BY <1>1 DEF Hold, Persists
<1>4. Held' = [Held EXCEPT ![r].kept = FALSE]
  BY <1>1, <1>2, <1>3 DEF Held
<1>5. Balance' = Balance
  BY <1>1 DEF Balance
<1>6. Ledger!LetGo(r)
  BY <1>1, <1>4, <1>5 DEF Ledger!LetGo, Balance, Held, Hold
<1> QED BY <1>6 DEF Ledger!LedgerNext

LEMMA LedgerStep ==
  ASSUME BooksInv, [Next]_vars
  PROVE  [Ledger!LedgerNext]_(Ledger!ledgerVars)
<1>1. CASE UNCHANGED <<limit, realUsage, lease, reservations, settled>>
  BY <1>1, LedgerUnchanged
<1>2. CASE Tick \/ Boot \/ MonitorSnapshot \/ UNCHANGED vars
  BY <1>1, <1>2 DEF Tick, Boot, Rebuild, MonitorSnapshot, vars, usageVars
<1>3. CASE \E k \in Keys, u \in UsageSnapshots : UpdateUsage(k, u)
  BY <1>3, SnapshotAccounts DEF BooksInv
<1>4. CASE Select
  <2>1. PICK t \in 0..now, s \in Selections : (\E r \in Requests : Admit(r, t, s)) \/ Refuse(t, s)
    BY <1>4 DEF Select
  <2>2. CASE \E r \in Requests : Admit(r, t, s)
    BY <2>2, AdmissionHolds
  <2>3. CASE Refuse(t, s)
    BY <1>1, <2>3 DEF Refuse, usageVars
  <2> QED BY <2>1, <2>2, <2>3
<1>5. CASE Resolve
  <2>1. PICK r \in Requests :
          \/ \E d \in RetryAfters : ResolveRateLimited(r, d)
          \/ ResolveQuotaRejected(r)
          \/ ResolveClientError(r)
          \/ ResolveSuccess(r)
          \/ ResolveOther(r)
    BY <1>5 DEF Resolve
  <2>2. CASE ResolveSuccess(r) \/ ResolveOther(r)
    BY <1>1, <2>2 DEF ResolveSuccess, ResolveOther, usageVars
  <2>3. CASE \/ \E d \in RetryAfters : ResolveRateLimited(r, d)
             \/ ResolveQuotaRejected(r) \/ ResolveClientError(r)
    <3>1. RemoveAndRollback(r) /\ UNCHANGED <<limit, realUsage, lease>>
      BY <2>3 DEF ResolveRateLimited, ResolveQuotaRejected, ResolveClientError, usageVars
    <3> QED BY <3>1, RejectionReleases DEF BooksInv
  <2> QED BY <2>1, <2>2, <2>3
<1>6. CASE \E r \in Requests : SettleResearch(r)
  BY <1>6, SettlementLetsGo DEF BooksInv
<1>7. CASE \E t \in 0..now : RebuildGroups(t)
  BY <1>1, <1>7 DEF RebuildGroups, Rebuild, usageVars
<1> QED BY <1>2, <1>3, <1>4, <1>5, <1>6, <1>7 DEF Next

\* The pool's operations, for any keys and requests, do to the credits what the
\* ledger allows and nothing else: every step is a hold that fits, a release of a
\* hold's own, the end of a task, a snapshot that takes over what no running task
\* may spend, or none of them.
THEOREM PoolImplementsLedger == Spec => ImplementsLedger
<1>1. Init => BooksInv
  BY BooksInit
<1>2. BooksInv /\ [Next]_vars => BooksInv'
  BY BooksStep
<1>3. Init => Ledger!LedgerInit
  BY LedgerInitial
<1>4. BooksInv /\ [Next]_vars => [Ledger!LedgerNext]_(Ledger!ledgerVars)
  BY LedgerStep
<1> QED BY <1>1, <1>2, <1>3, <1>4, PTL DEF Spec, ImplementsLedger, Ledger!LedgerSpec
=============================================================================
