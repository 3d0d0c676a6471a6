--------------------------- MODULE ProxyCallsProofs ---------------------------
(***************************************************************************)
(* Proofs about ProxyCalls: the steps of its handlers are steps of KeyPool *)
(* or none of them, so that every theorem about KeyPool holds of the pool  *)
(* behind the proxy, and no path of a handler, of a poll or of a timer     *)
(* loses a lease.                                                          *)
(***************************************************************************)
EXTENDS ProxyCalls, KeyPoolSafetyProofs

\* What a call in stage s has obtained so far.
StageFits(c, s, n) ==
  /\ s = "idle" => n = 0
  /\ c \in PlainCalls /\ s = "selecting" => n <= 1
  /\ s \in {"sent", "reading", "polling"} => n >= 1
  /\ s \in {"reading", "polling"} => c \in ResearchCalls

StagesFit == \A c \in Calls : StageFits(c, stage[c], attempt[c])

\* A research excludes one key for each of its attempts, the one it was given:
\* it cannot make more attempts than there are keys.
TriedExcluded ==
  \A c \in ResearchCalls :
    /\ Cardinality(excluded[c]) = attempt[c]
    /\ \A n \in 1..attempt[c] : lease[<<c, n>>].key \in excluded[c]

ProxyInv ==
  /\ TypeOK /\ ProxyTypeOK
  /\ StagesFit /\ TriedExcluded
  /\ LeaseHasHandler /\ HoldHasWayOut /\ AttemptsDistinct

Tasks == {"none", "running", "ended"}

ResearchLeases == {r \in DOMAIN lease : r[1] \in ResearchCalls}

\* Whoever will settle a reservation, or hand it on.
InHand == mapped \cup timers \cup settling

\* The reservations that nobody has settled.
Open == reservations \ settled

----------------------------------------------------------------------------
(* The names of the leases.                                                 *)

LEMMA LeaseNames ==
  /\ \A r \in Requests : r = <<r[1], r[2]>> /\ r[1] \in Calls /\ r[2] \in 1..Attempts
  /\ \A c \in Calls, n \in 1..Attempts :
       <<c, n>> \in Requests /\ <<c, n>>[1] = c /\ <<c, n>>[2] = n
BY LeasesAssumption

\* The current attempt of a call that has made one has a lease.
LEMMA CurrentHasLease ==
  ASSUME ProxyInv, NEW c \in Calls, attempt[c] >= 1
  PROVE  Current(c) \in DOMAIN lease /\ Current(c)[1] = c
<1>1. attempt[c] \in 1..Attempts
  BY AttemptsAssumption DEF ProxyInv, ProxyTypeOK
<1>2. Current(c) \in Requests /\ Current(c)[1] = c /\ Current(c)[2] = attempt[c]
  BY <1>1, LeaseNames DEF Current
<1> QED BY <1>1, <1>2 DEF ProxyInv, ProxyTypeOK

\* A call that selects may make another attempt.
LEMMA NextHasName ==
  ASSUME ProxyInv, NEW c \in Calls, stage[c] = "selecting"
  PROVE  /\ attempt[c] + 1 \in 1..Attempts
         /\ c \in PlainCalls => attempt[c] <= 1
         /\ <<c, attempt[c] + 1>> \in Requests
         /\ SelectionOf(c) \in Selections
<1>1. attempt[c] \in 0..Attempts /\ excluded[c] \in SUBSET Keys
  BY DEF ProxyInv, ProxyTypeOK
<1>2. SelectionOf(c) \in Selections
  BY <1>1, CallSelectionsAssumption DEF SelectionOf
<1>3. attempt[c] + 1 \in 1..Attempts /\ (c \in PlainCalls => attempt[c] <= 1)
  <2>1. CASE c \in PlainCalls
    <3>1. attempt[c] <= 1
      BY <2>1 DEF ProxyInv, StagesFit, StageFits
    <3> QED BY <1>1, <3>1, AttemptsAssumption
  <2>2. CASE c \notin PlainCalls
    <3>1. c \in ResearchCalls
      BY <2>2 DEF Calls
    <3>2. Cardinality(excluded[c]) = attempt[c]
      BY <3>1 DEF ProxyInv, TriedExcluded
    <3>3. Cardinality(excluded[c]) <= Cardinality(Keys) /\ Cardinality(Keys) \in Nat
      BY <1>1, KeysAssumption, FS_Subset, FS_CardinalityType
    <3> QED BY <1>1, <2>2, <3>2, <3>3, AttemptsAssumption
  <2> QED BY <2>1, <2>2
<1> QED BY <1>2, <1>3, LeaseNames

----------------------------------------------------------------------------
(* What the steps of the pool do to the leases.                             *)

\* The leases and the answers they wait for stay; a reservation may be settled
\* or superseded, and a settled one stays settled.
PoolQuiet ==
  /\ UNCHANGED <<lease, inflight>>
  /\ reservations' \subseteq reservations
  /\ settled \cap reservations' \subseteq settled'

LEMMA QuietSteps ==
  ASSUME \/ Tick \/ Boot \/ MonitorSnapshot \/ UNCHANGED vars
         \/ \E k \in Keys, u \in UsageSnapshots : UpdateUsage(k, u)
         \/ \E t, s : Refuse(t, s)
         \/ \E t : RebuildGroups(t)
         \/ \E r : SettleHold(r)
  PROVE  PoolQuiet
<1>1. CASE Tick \/ Boot \/ MonitorSnapshot \/ UNCHANGED vars
  BY <1>1 DEF Tick, Boot, Rebuild, MonitorSnapshot, vars, history, PoolQuiet
<1>2. CASE \E k \in Keys, u \in UsageSnapshots : UpdateUsage(k, u)
  BY <1>2 DEF UpdateUsage, history, PoolQuiet
<1>3. CASE (\E t, s : Refuse(t, s)) \/ \E t : RebuildGroups(t)
  BY <1>3 DEF Refuse, RebuildGroups, Rebuild, history, PoolQuiet
<1>4. CASE \E r : SettleHold(r)
  BY <1>4 DEF SettleHold, SettleResearch, vars, history, PoolQuiet
<1> QED BY <1>1, <1>2, <1>3, <1>4

Resolved(r) ==
  \/ \E d \in RetryAfters : ResolveRateLimited(r, d)
  \/ ResolveQuotaRejected(r)
  \/ ResolveClientError(r)

\* An answer is waited for no more, and a rejection ends the reservation.
LEMMA ResolveEffect ==
  ASSUME NEW r, Resolved(r) \/ ResolveSuccess(r) \/ ResolveOther(r)
  PROVE  /\ lease' = lease /\ inflight' = inflight \ {r}
         /\ reservations' \subseteq reservations
         /\ settled \cap reservations' \subseteq settled'
         /\ Resolved(r) => r \notin reservations'
<1>1. CASE ResolveSuccess(r) \/ ResolveOther(r)
  BY <1>1 DEF ResolveSuccess, ResolveOther, Resolved, ResolveRateLimited,
              ResolveQuotaRejected, ResolveClientError, RemoveAndRollback
<1>2. CASE Resolved(r)
  BY <1>2 DEF Resolved, ResolveRateLimited, ResolveQuotaRejected, ResolveClientError,
              RemoveAndRollback
<1> QED BY <1>1, <1>2

\* A new lease has a key the selection does not exclude.
LEMMA AdmitEffect ==
  ASSUME TypeOK, NEW r, NEW t, NEW s, Admit(r, t, s)
  PROVE  /\ r \notin DOMAIN lease
         /\ DOMAIN lease' = DOMAIN lease \cup {r}
         /\ \A q \in DOMAIN lease : lease'[q] = lease[q]
         /\ lease'[r].key \in Keys \ s.excluded
         /\ reservations' = reservations \cup {r}
         /\ inflight' = inflight \cup {r}
         /\ settled' = settled
<1>1. PICK g \in Nat, k \in Keys : Grant(r, t, s, g, k) /\ k \in Candidates(Lends(g), t, s)
  BY GrantedKey
<1>2. k \notin s.excluded
  BY <1>1 DEF Candidates
<1>3. r \notin DOMAIN lease
  BY DEF Admit
<1>4. /\ DOMAIN lease' = DOMAIN lease \cup {r}
      /\ lease'[r].key = k
      /\ \A q \in DOMAIN lease : lease'[q] = lease[q]
      /\ reservations' = reservations \cup {r}
  BY <1>1, <1>3 DEF Grant
<1> QED BY <1>2, <1>3, <1>4 DEF Admit

\* Every step of the proxy is a step of the pool or leaves it alone.
LEMMA ProxyIsPoolStep ==
  ASSUME ProxyInv, [ProxyNext]_proxyVars
  PROVE  [Next]_vars
<1>1. CASE PoolMoves
  BY <1>1 DEF PoolMoves, Next
<1>2. ASSUME NEW c \in Calls, Obtain(c)
      PROVE  [Next]_vars
  <2>1. <<c, attempt[c] + 1>> \in Requests /\ SelectionOf(c) \in Selections
    BY <1>2, NextHasName DEF Obtain
  <2> QED BY <1>2, <2>1 DEF Obtain, Next, Select
<1>3. ASSUME NEW c \in Calls, GiveUp(c) \/ AskAgain(c)
      PROVE  [Next]_vars
  <2>1. SelectionOf(c) \in Selections
    BY <1>3, NextHasName DEF GiveUp, AskAgain
  <2> QED BY <1>3, <2>1 DEF GiveUp, AskAgain, Rotates, Next, Select
<1>4. ASSUME NEW c \in Calls,
             RateLimited(c) \/ QuotaRejected(c) \/ Rejected(c) \/ Accepted(c) \/ TransportFails(c)
      PROVE  [Next]_vars
  <2>1. Current(c) \in Requests
    BY <1>4, CurrentHasLease DEF RateLimited, QuotaRejected, Rejected, Accepted, TransportFails,
                                 ProxyInv, StagesFit, StageFits, TypeOK
  <2> QED BY <1>4, <2>1 DEF RateLimited, QuotaRejected, Rejected, Accepted, TransportFails,
                            Next, Resolve
<1>5. ASSUME NEW c \in Calls,
             \/ Begin(c) \/ ReadNoTask(c) \/ ReadTask(c) \/ StreamEnds(c)
             \/ TaskEnds(c) \/ McpPoll(c) \/ StatusAsked(c) \/ StatusRead(c)
      PROVE  [Next]_vars
  BY <1>5 DEF Begin, ReadNoTask, ReadTask, StreamEnds, TaskEnds, McpPoll, StatusAsked, StatusRead
<1>6. ASSUME NEW r \in Requests, Followup(r)
      PROVE  [Next]_vars
  BY <1>6 DEF Followup, TimerFires, Expire, Settle, SettleHold, Next
<1>7. CASE UNCHANGED proxyVars
  BY <1>7 DEF proxyVars
<1> QED BY <1>1, <1>2, <1>3, <1>4, <1>5, <1>6, <1>7 DEF ProxyNext, Proceed

----------------------------------------------------------------------------
(* The invariant.                                                           *)

LEMMA ProxyInit_Inv == ProxyInit => ProxyInv
<1> SUFFICES ASSUME ProxyInit PROVE ProxyInv
  OBVIOUS
<1>1. TypeOK
  BY TypeInit DEF ProxyInit
<1>2. DOMAIN lease = {} /\ reservations = {}
  BY DEF ProxyInit, Init
<1>3. /\ \A c \in Calls : stage[c] = "idle" /\ attempt[c] = 0 /\ excluded[c] = {}
      /\ mapped = {} /\ timers = {} /\ settling = {} /\ polls = {}
  BY DEF ProxyInit
<1>4. Attempts \in Nat
  BY AttemptsAssumption
<1>5. {r \in Requests : r[2] <= attempt[r[1]]} = {}
  BY <1>3, LeaseNames
<1>6. ProxyTypeOK
  BY <1>2, <1>3, <1>4, <1>5 DEF ProxyInit, ProxyTypeOK, Stages, Calls
<1>7. StagesFit
  BY <1>3 DEF StagesFit, StageFits
<1>8. TriedExcluded
  BY <1>3, FS_EmptySet DEF TriedExcluded, Calls
<1>9. LeaseHasHandler /\ HoldHasWayOut /\ AttemptsDistinct
  BY <1>1, <1>2, <1>3 DEF TypeOK, LeaseHasHandler, HoldHasWayOut, AttemptsDistinct
<1> QED BY <1>1, <1>6, <1>7, <1>8, <1>9 DEF ProxyInv

\* A handler that neither waits for an answer nor has ended has no lease out.
LEMMA NoneInflight ==
  ASSUME ProxyInv, NEW c \in Calls, stage[c] \notin {"sent", "done"}
  PROVE  Current(c) \notin inflight
BY DEF ProxyInv, LeaseHasHandler, Current

\* Steps that move no handler: nothing in hand gets lost.
LEMMA HandlersStay ==
  ASSUME ProxyInv, TypeOK', PoolQuiet, UNCHANGED handlers,
         task' \in [Calls -> Tasks],
         InHand' \cup polls' \subseteq ResearchLeases,
         \A r \in Open' : /\ r \in InHand => r \in InHand'
                          /\ r \in timers => r \in timers'
  PROVE  ProxyInv'
<1>1. /\ UNCHANGED <<lease, inflight, stage, attempt, excluded>>
      /\ Open' \subseteq Open
  BY DEF PoolQuiet, handlers, Open
<1>2. ProxyTypeOK'
  BY <1>1 DEF ProxyInv, ProxyTypeOK, InHand, ResearchLeases, Tasks
<1>3. StagesFit' /\ TriedExcluded' /\ AttemptsDistinct'
  BY <1>1 DEF ProxyInv, StagesFit, TriedExcluded, AttemptsDistinct
<1>4. LeaseHasHandler'
  BY <1>1 DEF PoolQuiet, ProxyInv, LeaseHasHandler, Open, Current
<1>5. HoldHasWayOut'
  BY <1>1 DEF ProxyInv, HoldHasWayOut, Open, InHand, Current
<1> QED BY <1>2, <1>3, <1>4, <1>5 DEF ProxyInv

\* A handler moves on: when it waited for an answer, its lease is resolved or the
\* safety timer has it, and when it had a reservation, that is passed on, gone or
\* still with the handler.
LEMMA HandlerMoves ==
  ASSUME ProxyInv, TypeOK', NEW c \in Calls, NEW s \in Stages \ {"sent"}, Goto(c, s),
         StageFits(c, s, attempt[c]),
         stage[c] # "done", UNCHANGED <<attempt, excluded, lease>>,
         inflight' \subseteq inflight, inflight \ {Current(c)} \subseteq inflight',
         Current(c) \in inflight'
           => c \in ResearchCalls /\ s = "done" /\ Current(c) \in timers',
         timers \subseteq timers',
         reservations' \subseteq reservations, settled \cap reservations' \subseteq settled',
         task' \in [Calls -> Tasks],
         InHand \subseteq InHand', InHand' \cup polls' \subseteq ResearchLeases,
         stage[c] \in {"sent", "reading"} /\ c \in ResearchCalls /\ Current(c) \in reservations'
           => s = "reading" \/ Current(c) \in InHand'
  PROVE  ProxyInv'
<1>1. /\ stage' \in [Calls -> Stages] /\ stage'[c] = s
      /\ \A d \in Calls : d # c => stage'[d] = stage[d]
  BY DEF Goto, ProxyInv, ProxyTypeOK
<1>2. \A d : Current(d)' = Current(d)
  BY DEF Current
<1>3. \A r \in DOMAIN lease : r[1] \in Calls
  BY LeaseNames DEF ProxyInv, TypeOK
<1>4. ProxyTypeOK'
  BY <1>1 DEF ProxyInv, ProxyTypeOK, InHand, ResearchLeases, Tasks
<1>5. StagesFit' /\ TriedExcluded' /\ AttemptsDistinct'
  <2>1. StagesFit'
    BY <1>1 DEF ProxyInv, StagesFit
  <2> QED BY <2>1 DEF ProxyInv, TriedExcluded, AttemptsDistinct
<1>6. LeaseHasHandler'
  <2>1. ASSUME NEW d \in Calls, stage'[d] = "sent"
        PROVE  Current(d) \in inflight'
    <3>1. d # c /\ stage[d] = "sent"
      BY <1>1, <2>1
    <3>2. Current(d) \in inflight
      BY <3>1 DEF ProxyInv, LeaseHasHandler
    <3>3. Current(d) # Current(c)
      BY <3>1 DEF Current
    <3> QED BY <3>2, <3>3
  <2>2. ASSUME NEW r \in inflight'
        PROVE  /\ r = Current(r[1])
               /\ \/ stage'[r[1]] = "sent"
                  \/ /\ r[1] \in ResearchCalls /\ stage'[r[1]] = "done"
                     /\ r \in timers' \cup settled' \/ r \notin reservations'
    <3>1. /\ r \in inflight /\ r \in DOMAIN lease /\ r = Current(r[1])
          /\ \/ stage[r[1]] = "sent"
             \/ /\ r[1] \in ResearchCalls /\ stage[r[1]] = "done"
                /\ r \in timers \cup settled \/ r \notin reservations
      BY DEF ProxyInv, LeaseHasHandler, TypeOK
    <3>2. CASE r[1] = c
      BY <1>1, <3>1, <3>2
    <3>3. CASE r[1] # c
      <4>1. stage'[r[1]] = stage[r[1]]
        BY <1>1, <1>3, <3>1, <3>3
      <4>2. r \in timers \cup settled \/ r \notin reservations
              => r \in timers' \cup settled' \/ r \notin reservations'
        OBVIOUS
      <4> QED BY <3>1, <4>1, <4>2
    <3> QED BY <3>2, <3>3
  <2> QED BY <1>2, <2>1, <2>2 DEF LeaseHasHandler
<1>7. HoldHasWayOut'
  <2> SUFFICES ASSUME NEW r \in Open', r[1] \in ResearchCalls
               PROVE  \/ stage'[r[1]] \in {"sent", "reading"} /\ r = Current(r[1])
                      \/ r \in InHand'
    BY <1>2 DEF HoldHasWayOut, Open, InHand
  <2>1. r \in Open /\ r \in reservations' /\ r \in DOMAIN lease
    BY DEF Open, ProxyInv, TypeOK
  <2>2. \/ stage[r[1]] \in {"sent", "reading"} /\ r = Current(r[1])
        \/ r \in InHand
    BY <2>1 DEF ProxyInv, HoldHasWayOut, Open, InHand
  <2>3. CASE r \in InHand
    BY <2>3
  <2>4. CASE r \notin InHand /\ r[1] = c
    BY <1>1, <2>1, <2>2, <2>4
  <2>5. CASE r \notin InHand /\ r[1] # c
    BY <1>1, <1>3, <2>1, <2>2, <2>5
  <2> QED BY <2>3, <2>4, <2>5
<1> QED BY <1>4, <1>5, <1>6, <1>7 DEF ProxyInv

\* A new attempt: its lease waits for the answer, and a research has not had its
\* key before.
LEMMA ObtainKeepsInv ==
  ASSUME ProxyInv, TypeOK', NEW c \in Calls, Obtain(c)
  PROVE  ProxyInv'
<1> DEFINE n == attempt[c] + 1
           r == <<c, n>>
<1>1. PICK t \in 0..now : Admit(r, t, SelectionOf(c))
  BY DEF Obtain
<1>2. /\ stage[c] = "selecting"
      /\ stage' = [stage EXCEPT ![c] = "sent"]
      /\ attempt' = [attempt EXCEPT ![c] = n]
      /\ excluded' = [excluded EXCEPT ![c] = ExcludedWith(c, lease'[r].key)]
      /\ UNCHANGED <<mapped, timers, settling, polls, task>>
  BY DEF Obtain, Goto, followups
<1>3. /\ n \in 1..Attempts /\ attempt[c] \in Nat
      /\ c \in PlainCalls => attempt[c] <= 1
      /\ r \in Requests /\ r[1] = c /\ r[2] = n
  BY <1>2, NextHasName, LeaseNames DEF ProxyInv, ProxyTypeOK
<1>4. /\ r \notin DOMAIN lease
      /\ DOMAIN lease' = DOMAIN lease \cup {r}
      /\ \A q \in DOMAIN lease : lease'[q] = lease[q]
      /\ lease'[r].key \in Keys \ excluded[c]
      /\ reservations' = reservations \cup {r}
      /\ inflight' = inflight \cup {r}
      /\ settled' = settled
  <2>1. SelectionOf(c).excluded = excluded[c]
    BY DEF SelectionOf, SelectionWith
  <2>2. TypeOK
    BY DEF ProxyInv
  <2> HIDE DEF r
  <2> QED BY <1>1, <2>1, <2>2, AdmitEffect
<1>5. /\ stage' \in [Calls -> Stages] /\ stage'[c] = "sent"
      /\ attempt' \in [Calls -> 0..Attempts] /\ attempt'[c] = n
      /\ excluded' \in [Calls -> SUBSET Keys]
      /\ \A d \in Calls : d # c => /\ stage'[d] = stage[d] /\ attempt'[d] = attempt[d]
                                   /\ excluded'[d] = excluded[d]
  <2>1. ExcludedWith(c, lease'[r].key) \in SUBSET Keys
    BY <1>4 DEF ExcludedWith, ProxyInv, ProxyTypeOK
  <2> QED BY <1>2, <1>3, <2>1 DEF ProxyInv, ProxyTypeOK, Stages
<1>6. \A q \in DOMAIN lease : q[1] \in Calls /\ q[2] \in Nat /\ q = <<q[1], q[2]>>
  BY LeaseNames, AttemptsAssumption DEF ProxyInv, TypeOK
<1>7. DOMAIN lease' = {q \in Requests : q[2] <= attempt'[q[1]]}
  <2>1. ASSUME NEW q \in Requests
        PROVE  q \in DOMAIN lease' <=> q[2] <= attempt'[q[1]]
    <3>1. q = <<q[1], q[2]>> /\ q[1] \in Calls /\ q[2] \in Nat
      BY LeaseNames, AttemptsAssumption
    <3>2. q \in DOMAIN lease <=> q[2] <= attempt[q[1]]
      BY DEF ProxyInv, ProxyTypeOK
    <3>3. CASE q[1] # c
      BY <1>3, <1>4, <1>5, <3>1, <3>2, <3>3
    <3>4. CASE q[1] = c
      <4>1. q = r <=> q[2] = n
        BY <1>3, <3>1, <3>4
      <4>2. q[2] <= n <=> q[2] = n \/ q[2] <= attempt[c]
        BY <1>3, <3>1
      <4> QED BY <1>4, <1>5, <3>2, <3>4, <4>1, <4>2
    <3> QED BY <3>3, <3>4
  <2>2. DOMAIN lease' \subseteq Requests
    BY DEF TypeOK
  <2> QED BY <2>1, <2>2
<1>8. ProxyTypeOK'
  <2>1. \A d \in PlainCalls : attempt'[d] <= 2
    BY <1>3, <1>5 DEF ProxyInv, ProxyTypeOK, Calls
  <2> QED BY <1>2, <1>4, <1>5, <1>7, <2>1 DEF ProxyInv, ProxyTypeOK
<1>9. StagesFit'
  BY <1>3, <1>5 DEF ProxyInv, StagesFit, StageFits
<1>10. TriedExcluded'
  <2> SUFFICES ASSUME NEW d \in ResearchCalls
               PROVE  /\ Cardinality(excluded'[d]) = attempt'[d]
                      /\ \A m \in 1..attempt'[d] : lease'[<<d, m>>].key \in excluded'[d]
    BY DEF TriedExcluded
  <2>1. /\ d \in Calls /\ Cardinality(excluded[d]) = attempt[d]
        /\ attempt[d] \in 0..Attempts
        /\ \A m \in 1..attempt[d] : lease[<<d, m>>].key \in excluded[d]
    BY DEF ProxyInv, ProxyTypeOK, TriedExcluded, Calls
  <2>2. \A m \in 1..attempt[d] : <<d, m>> \in DOMAIN lease
    <3>1. \A m \in 1..attempt[d] : m \in 1..Attempts /\ m <= attempt[d]
      BY <2>1, AttemptsAssumption
    <3> QED BY <2>1, <3>1, LeaseNames DEF ProxyInv, ProxyTypeOK
  <2>3. CASE d # c
    BY <1>4, <1>5, <2>1, <2>2, <2>3
  <2>4. CASE d = c
    <3>1. excluded'[c] = excluded[c] \cup {lease'[r].key}
      BY <1>2, <2>4 DEF ExcludedWith, ProxyInv, ProxyTypeOK
    <3>2. IsFiniteSet(excluded[c])
      BY KeysAssumption, FS_Subset DEF ProxyInv, ProxyTypeOK
    <3>3. Cardinality(excluded'[c]) = n
      BY <1>4, <2>1, <2>4, <3>1, <3>2, FS_AddElement
    <3>4. ASSUME NEW m \in 1..n
          PROVE  lease'[<<c, m>>].key \in excluded'[c]
      <4>1. CASE m = n
        BY <3>1, <4>1
      <4>2. CASE m # n
        <5>1. m \in 1..attempt[c]
          BY <1>3, <4>2
        <5> QED BY <1>4, <2>1, <2>2, <2>4, <3>1, <5>1
      <4> QED BY <4>1, <4>2
    <3> QED BY <1>5, <2>4, <3>3, <3>4
  <2> QED BY <2>3, <2>4
<1>11. \A d \in Calls : Current(d)' = IF d = c THEN r ELSE Current(d)
  BY <1>5 DEF Current
<1>12. LeaseHasHandler'
  <2>1. ASSUME NEW d \in Calls, stage'[d] = "sent"
        PROVE  Current(d)' \in inflight'
    <3>1. CASE d = c
      BY <1>4, <1>11, <3>1
    <3>2. CASE d # c
      <4>1. Current(d) \in inflight
        BY <1>5, <2>1, <3>2 DEF ProxyInv, LeaseHasHandler
      <4> QED BY <1>4, <1>11, <3>2, <4>1
    <3> QED BY <3>1, <3>2
  <2>2. ASSUME NEW q \in inflight'
        PROVE  /\ q = Current(q[1])'
               /\ \/ stage'[q[1]] = "sent"
                  \/ /\ q[1] \in ResearchCalls /\ stage'[q[1]] = "done"
                     /\ q \in timers' \cup settled' \/ q \notin reservations'
    <3>1. CASE q = r
      BY <1>3, <1>5, <1>11, <3>1
    <3>2. CASE q # r
      <4>1. /\ q \in DOMAIN lease /\ q[1] \in Calls /\ q = Current(q[1])
            /\ \/ stage[q[1]] = "sent"
               \/ /\ q[1] \in ResearchCalls /\ stage[q[1]] = "done"
                  /\ q \in timers \cup settled \/ q \notin reservations
        BY <1>4, <1>6, <3>2 DEF ProxyInv, LeaseHasHandler, TypeOK
      <4>2. q[1] # c
        BY <1>2, <4>1
      <4>3. q = Current(q[1])' /\ stage'[q[1]] = stage[q[1]]
        BY <1>5, <1>11, <4>1, <4>2
      <4>4. q \in timers \cup settled \/ q \notin reservations
              => q \in timers' \cup settled' \/ q \notin reservations'
        BY <1>2, <1>4, <3>2
      <4> QED BY <4>1, <4>3, <4>4
    <3> QED BY <3>1, <3>2
  <2> QED BY <2>1, <2>2 DEF LeaseHasHandler
<1>13. HoldHasWayOut'
  <2> SUFFICES ASSUME NEW q \in Open', q[1] \in ResearchCalls
               PROVE  \/ stage'[q[1]] \in {"sent", "reading"} /\ q = Current(q[1])'
                      \/ q \in InHand'
    BY DEF HoldHasWayOut, Open, InHand
  <2>1. CASE q = r
    BY <1>3, <1>5, <1>11, <2>1
  <2>2. CASE q # r
    <3>1. q \in Open /\ q \in DOMAIN lease
      BY <1>4, <2>2 DEF Open, ProxyInv, TypeOK
    <3>2. \/ stage[q[1]] \in {"sent", "reading"} /\ q = Current(q[1])
          \/ q \in InHand
      BY <3>1 DEF ProxyInv, HoldHasWayOut, Open, InHand
    <3>3. CASE q \in InHand
      BY <1>2, <3>3 DEF InHand
    <3>4. CASE q \notin InHand
      <4>1. q[1] # c
        BY <1>2, <3>2, <3>4
      <4> QED BY <1>5, <1>6, <1>11, <3>1, <3>2, <3>4, <4>1
    <3> QED BY <3>3, <3>4
  <2> QED BY <2>1, <2>2
<1>14. AttemptsDistinct'
  <2> SUFFICES ASSUME NEW p \in DOMAIN lease', NEW q \in DOMAIN lease', p # q,
                      p[1] = q[1], p[1] \in ResearchCalls
               PROVE  lease'[p].key # lease'[q].key
    BY DEF AttemptsDistinct
  <2>1. ASSUME NEW o \in DOMAIN lease, o[1] = c, c \in ResearchCalls
        PROVE  lease'[o].key # lease'[r].key
    <3>1. o[2] \in 1..attempt[c] /\ o = <<c, o[2]>>
      BY <2>1, LeaseNames, AttemptsAssumption DEF ProxyInv, ProxyTypeOK
    <3>2. lease[o].key \in excluded[c]
      BY <2>1, <3>1 DEF ProxyInv, TriedExcluded
    <3> QED BY <1>4, <3>2
  <2>2. CASE p = r
    BY <1>3, <1>4, <2>1, <2>2
  <2>3. CASE q = r
    BY <1>3, <1>4, <2>1, <2>3
  <2>4. CASE p # r /\ q # r
    <3>1. p \in DOMAIN lease /\ q \in DOMAIN lease
      BY <1>4, <2>4
    <3>2. lease[p].key # lease[q].key
      BY <3>1 DEF ProxyInv, AttemptsDistinct
    <3> QED BY <1>4, <3>1, <3>2
  <2> QED BY <2>2, <2>3, <2>4
<1> QED BY <1>8, <1>9, <1>10, <1>12, <1>13, <1>14 DEF ProxyInv

\* The answer to an attempt, or its failure.
LEMMA AnswerKeepsInv ==
  ASSUME ProxyInv, TypeOK', NEW c \in Calls,
         RateLimited(c) \/ QuotaRejected(c) \/ Rejected(c) \/ Accepted(c) \/ TransportFails(c)
  PROVE  ProxyInv'
<1>1. stage[c] = "sent" /\ attempt[c] >= 1
  BY DEF RateLimited, QuotaRejected, Rejected, Accepted, TransportFails,
         ProxyInv, StagesFit, StageFits
<1>2. Current(c) \in DOMAIN lease /\ Current(c)[1] = c
  BY <1>1, CurrentHasLease
<1>3. \/ Resolved(Current(c)) \/ ResolveSuccess(Current(c)) \/ ResolveOther(Current(c))
      \/ c \in ResearchCalls /\ TransportFails(c) /\ UNCHANGED vars
  BY DEF RateLimited, QuotaRejected, Rejected, Accepted, TransportFails, Resolved
<1>4. /\ lease' = lease
      /\ inflight' \subseteq inflight /\ inflight \ {Current(c)} \subseteq inflight'
      /\ Resolved(Current(c)) \/ ResolveSuccess(Current(c)) \/ ResolveOther(Current(c))
           => Current(c) \notin inflight'
      /\ reservations' \subseteq reservations
      /\ settled \cap reservations' \subseteq settled'
      /\ Resolved(Current(c)) => Current(c) \notin reservations'
  <2>1. CASE c \in ResearchCalls /\ TransportFails(c) /\ UNCHANGED vars
    <3>1. UNCHANGED <<lease, inflight, reservations, settled>>
      BY <2>1 DEF vars, history
    <3>2. Resolved(Current(c)) => Current(c) \notin reservations'
      BY ResolveEffect
    <3>3. Resolved(Current(c)) \/ ResolveSuccess(Current(c)) \/ ResolveOther(Current(c))
            => inflight' = inflight \ {Current(c)}
      BY ResolveEffect
    <3> QED BY <3>1, <3>2, <3>3
  <2>2. CASE \/ Resolved(Current(c)) \/ ResolveSuccess(Current(c)) \/ ResolveOther(Current(c))
    <3>1. inflight' = inflight \ {Current(c)}
      BY <2>2, ResolveEffect
    <3> QED BY <2>2, <3>1, ResolveEffect
  <2> QED BY <1>3, <2>1, <2>2
<1>5. UNCHANGED <<attempt, excluded, mapped, settling, polls>> /\ ResearchLeases' = ResearchLeases
  BY <1>4 DEF RateLimited, QuotaRejected, Rejected, Accepted, TransportFails, followups,
              ResearchLeases
<1>6. task' \in [Calls -> Tasks]
  BY DEF RateLimited, QuotaRejected, Rejected, Accepted, TransportFails, ProxyInv,
         ProxyTypeOK, Tasks
<1>7. /\ InHand \subseteq InHand' /\ timers \subseteq timers'
      /\ InHand' \cup polls' \subseteq ResearchLeases
  <2>1. timers' = timers \/ (c \in ResearchCalls /\ timers' = timers \cup {Current(c)})
    BY DEF RateLimited, QuotaRejected, Rejected, Accepted, TransportFails, followups, Defer
  <2> QED BY <1>2, <1>5, <2>1 DEF InHand, ResearchLeases, ProxyInv, ProxyTypeOK
<1>8. PICK s \in Stages \ {"sent"} :
        /\ Goto(c, s)
        /\ s = "selecting" => c \in ResearchCalls \/ attempt[c] = 1
        /\ s # "idle" /\ (s \in {"reading", "polling"} => c \in ResearchCalls)
        /\ c \in ResearchCalls /\ s # "reading" =>
             Resolved(Current(c)) \/ Current(c) \in timers'
        /\ Current(c) \in inflight' =>
             c \in ResearchCalls /\ s = "done" /\ Current(c) \in timers'
  <2>1. CASE RateLimited(c)
    <3>1. Resolved(Current(c)) /\ Current(c) \notin inflight'
      BY <1>4, <2>1 DEF RateLimited, Resolved
    <3> QED BY <2>1, <3>1 DEF RateLimited, Retries, PassOn, Stages
  <2>2. CASE QuotaRejected(c)
    <3>1. Resolved(Current(c)) /\ Current(c) \notin inflight'
      BY <1>4, <2>2 DEF QuotaRejected, Resolved
    <3> QED BY <2>2, <3>1 DEF QuotaRejected, Stages
  <2>3. CASE Rejected(c) \/ Accepted(c)
    <3>1. Current(c) \notin inflight'
      BY <1>4, <2>3 DEF Rejected, Accepted, Resolved
    <3>2. Goto(c, IF c \in ResearchCalls THEN "reading" ELSE "done")
      BY <2>3 DEF Rejected, Accepted, PassOn
    <3> QED BY <3>1, <3>2 DEF Stages
  <2>4. CASE TransportFails(c)
    <3>1. c \notin ResearchCalls => Current(c) \notin inflight'
      BY <1>4, <2>4 DEF TransportFails
    <3>2. Goto(c, "done") /\ (c \in ResearchCalls => Current(c) \in timers')
      BY <2>4 DEF TransportFails, Defer
    <3> QED BY <3>1, <3>2 DEF Stages
  <2> QED BY <2>1, <2>2, <2>3, <2>4
<1>9. StageFits(c, s, attempt[c])
  BY <1>1, <1>8, CallsAssumption DEF StageFits, ResearchCalls
<1>10. c \in ResearchCalls /\ Current(c) \in reservations'
         => s = "reading" \/ Current(c) \in InHand'
  BY <1>4, <1>8 DEF InHand
<1> QED BY <1>1, <1>4, <1>5, <1>6, <1>7, <1>8, <1>9, <1>10, HandlerMoves

\* What the handler does with the answer to a research.
LEMMA ReadKeepsInv ==
  ASSUME ProxyInv, TypeOK', NEW c \in Calls,
         ReadNoTask(c) \/ ReadTask(c) \/ StreamEnds(c) \/ McpPoll(c)
  PROVE  ProxyInv'
<1>1. stage[c] \in {"reading", "polling"} /\ UNCHANGED vars
  BY DEF ReadNoTask, ReadTask, StreamEnds, McpPoll
<1>2. attempt[c] >= 1 /\ c \in ResearchCalls
  BY <1>1 DEF ProxyInv, StagesFit, StageFits
<1>3. Current(c) \in ResearchLeases
  BY <1>2, CurrentHasLease DEF ResearchLeases
<1>4. /\ UNCHANGED <<attempt, excluded, polls, lease, inflight, reservations, settled, task>>
      /\ ResearchLeases' = ResearchLeases
  BY <1>1 DEF ReadNoTask, ReadTask, StreamEnds, McpPoll, vars, ResearchLeases
<1>5. PICK s \in {"done", "polling"} :
        Goto(c, s) /\ (stage[c] = "reading" => Current(c) \in InHand')
  BY DEF ReadNoTask, ReadTask, StreamEnds, McpPoll, Defer, InHand
<1>6. /\ InHand \subseteq InHand' /\ InHand' \subseteq InHand \cup {Current(c)}
      /\ timers \subseteq timers'
  BY DEF ReadNoTask, ReadTask, StreamEnds, McpPoll, Defer, InHand
<1>7. InHand' \cup polls' \subseteq ResearchLeases
  BY <1>3, <1>4, <1>6 DEF ProxyInv, ProxyTypeOK, InHand, ResearchLeases
<1>8. StageFits(c, s, attempt[c]) /\ s \in Stages \ {"sent"}
  BY <1>2, <1>5 DEF StageFits, Stages
<1>9. task' \in [Calls -> Tasks]
  BY <1>4 DEF ProxyInv, ProxyTypeOK, Tasks
<1>10. Current(c) \notin inflight'
  BY <1>1, <1>4, NoneInflight
<1> QED BY <1>1, <1>4, <1>5, <1>6, <1>7, <1>8, <1>9, <1>10, HandlerMoves

\* A call begins, or ends without a lease.
LEMMA SelectingKeepsInv ==
  ASSUME ProxyInv, TypeOK', NEW c \in Calls, Begin(c) \/ GiveUp(c)
  PROVE  ProxyInv'
<1>1. PoolQuiet
  BY QuietSteps DEF Begin, GiveUp, Rotates
<1>2. stage[c] \in {"idle", "selecting"} /\ UNCHANGED <<attempt, excluded, followups, task>>
  BY DEF Begin, GiveUp
<1>3. PICK s \in {"selecting", "done"} : Goto(c, s) /\ StageFits(c, s, attempt[c])
  <2>1. CASE Begin(c)
    <3>1. attempt[c] = 0
      BY <2>1 DEF Begin, ProxyInv, StagesFit, StageFits
    <3> QED BY <2>1, <3>1 DEF Begin, StageFits
  <2>2. CASE GiveUp(c)
    BY <2>2 DEF GiveUp, StageFits
  <2> QED BY <2>1, <2>2
<1>4. s \in Stages \ {"sent"}
  BY DEF Stages
<1>5. /\ task' \in [Calls -> Tasks]
      /\ InHand' = InHand /\ InHand' \cup polls' \subseteq ResearchLeases
      /\ timers' = timers
  BY <1>2 DEF followups, InHand, ResearchLeases, ProxyInv, ProxyTypeOK, Tasks
<1>6. Current(c) \notin inflight'
  BY <1>1, <1>2, NoneInflight DEF PoolQuiet
<1> QED BY <1>1, <1>2, <1>3, <1>4, <1>5, <1>6, HandlerMoves DEF PoolQuiet

\* The timers, the polls and everything beside the calls.
LEMMA FollowupKeepsInv ==
  ASSUME ProxyInv, TypeOK',
         \/ PoolMoves \/ UNCHANGED proxyVars
         \/ \E c \in Calls : AskAgain(c) \/ TaskEnds(c) \/ StatusAsked(c) \/ StatusRead(c)
         \/ \E r \in Requests : Followup(r)
  PROVE  ProxyInv'
<1>1. InHand \cup polls \subseteq ResearchLeases /\ task \in [Calls -> Tasks]
  BY DEF InHand, ResearchLeases, ProxyInv, ProxyTypeOK, Tasks
<1>2. CASE PoolMoves \/ UNCHANGED proxyVars \/ \E c \in Calls : AskAgain(c)
  <2>1. PoolQuiet
    BY <1>2, QuietSteps DEF PoolMoves, proxyVars, AskAgain, Rotates
  <2>2. UNCHANGED <<handlers, task, polls, timers>> /\ InHand' = InHand
    BY <1>2 DEF PoolMoves, proxyVars, callVars, AskAgain, followups, InHand
  <2> QED BY <1>1, <2>1, <2>2, HandlersStay
<1>3. CASE \E c \in Calls : TaskEnds(c) \/ StatusAsked(c) \/ StatusRead(c)
  <2>1. PICK c \in Calls : TaskEnds(c) \/ StatusAsked(c) \/ StatusRead(c)
    BY <1>3
  <2>2. PoolQuiet /\ UNCHANGED handlers
    BY <2>1, QuietSteps DEF TaskEnds, StatusAsked, StatusRead
  <2>3. task' \in [Calls -> Tasks]
    BY <1>1, <2>1 DEF TaskEnds, StatusAsked, StatusRead, Tasks
  <2>4. /\ InHand \subseteq InHand' /\ timers' = timers
        /\ InHand' \cup polls' \subseteq InHand \cup polls
    BY <2>1 DEF TaskEnds, StatusAsked, StatusRead, followups, InHand
  <2> QED BY <1>1, <2>2, <2>3, <2>4, HandlersStay
<1>4. CASE \E r \in Requests : Followup(r)
  <2>1. PICK r \in Requests : Followup(r)
    BY <1>4
  <2>2. PoolQuiet /\ UNCHANGED <<handlers, task, polls>>
    BY <2>1, QuietSteps DEF Followup, TimerFires, Expire, Settle
  <2>3. InHand' \subseteq InHand
    BY <2>1 DEF Followup, TimerFires, Expire, Settle, InHand
  <2>4. \A q \in Open' : /\ q \in InHand => q \in InHand'
                         /\ q \in timers => q \in timers'
    <3>1. CASE Expire(r)
      BY <3>1 DEF Expire, InHand
    <3>2. CASE TimerFires(r) \/ Settle(r)
      <4>1. r \notin Open'
        BY <3>2 DEF TimerFires, Settle, SettleHold, SettleResearch, Open, vars
      <4> QED BY <3>2, <4>1 DEF TimerFires, Settle, InHand
    <3> QED BY <2>1, <3>1, <3>2 DEF Followup
  <2> QED BY <1>1, <2>2, <2>3, <2>4, HandlersStay
<1> QED BY <1>2, <1>3, <1>4

LEMMA ProxyStep ==
  ASSUME ProxyInv, [ProxyNext]_proxyVars
  PROVE  ProxyInv'
<1>1. TypeOK'
  BY ProxyIsPoolStep, TypeStep DEF ProxyInv
<1>2. CASE \/ PoolMoves \/ UNCHANGED proxyVars
           \/ \E c \in Calls : AskAgain(c) \/ TaskEnds(c) \/ StatusAsked(c) \/ StatusRead(c)
           \/ \E r \in Requests : Followup(r)
  BY <1>1, <1>2, FollowupKeepsInv
<1>3. CASE \E c \in Calls : Begin(c) \/ Proceed(c) \/ McpPoll(c)
  BY <1>1, <1>3, ObtainKeepsInv, AnswerKeepsInv, ReadKeepsInv, SelectingKeepsInv DEF Proceed
<1> QED BY <1>2, <1>3 DEF ProxyNext

LEMMA ProxyInvHolds == ProxySafety => []ProxyInv
BY ProxyInit_Inv, ProxyStep, PTL DEF ProxySafety

\* The handlers keep their types: a plain call makes two attempts at most, and
\* the mappings, timers and polls name leases of research calls.
THEOREM ProxyTypeCorrect == ProxySafety => []ProxyTypeOK
BY ProxyInvHolds, PTL DEF ProxyInv

\* A handler that waits has an unresolved lease, and the paths through ServeHTTP,
\* serveResearchCreate and RunResearch leave none behind but that of a research
\* whose request had no answer, which a safety timer settles.
THEOREM LeasesHaveHandlers == ProxySafety => []LeaseHasHandler
BY ProxyInvHolds, PTL DEF ProxyInv

\* admitResearch tries every key once at most, whatever refreshes and other
\* requests do to the pauses in between; so its loop ends.
THEOREM AttemptsAreDistinct == ProxySafety => []AttemptsDistinct
BY ProxyInvHolds, PTL DEF ProxyInv

\* No path drops a research reservation: somebody is always left to settle it.
THEOREM HoldsHaveWayOut == ProxySafety => []HoldHasWayOut
BY ProxyInvHolds, PTL DEF ProxyInv

\* The proxy uses the pool as KeyPool says, with a new lease for every attempt.
THEOREM ProxyUsesPool == ProxySafety => Spec
<1>1. ProxyInit => Init
  BY DEF ProxyInit
<1>2. ProxyInv /\ [ProxyNext]_proxyVars => [Next]_vars
  BY ProxyIsPoolStep
<1> QED BY <1>1, <1>2, ProxyInvHolds, PTL DEF ProxySafety, Spec

\* The credits on every key are exact, every group keeps to its budget, no answer to
\* another request takes a running research its reservation, and the promises of
\* CreditLedger are kept, whatever calls, retries, polls and timers the proxy has at
\* work.
THEOREM ProxyBooks ==
  ProxySafety => [](EstimateIsHeld /\ RoundBudget) /\ ResearchHoldSurvives /\ ImplementsLedger
BY ProxyUsesPool, BooksAreExact, BudgetsHold, ResearchHoldsSurvive, PoolImplementsLedger, PTL
=============================================================================
