------------------------------- MODULE KeyPool -------------------------------
(***************************************************************************)
(* The key pool of internal/pool/pool.go: what it knows of every Tavily    *)
(* key, which requests hold credits on which key, the rotation of the key  *)
(* groups, and every operation the request paths and the usage refreshes   *)
(* call on it.                                                             *)
(*                                                                         *)
(* Pool.mu makes every operation one atomic step.  What is not atomic is   *)
(* what the callers do around them: a request reads the clock, selects,    *)
(* calls Tavily and resolves, while other requests, snapshots of the usage *)
(* and rebuilds of the groups come in between, in any order.  A selection  *)
(* and a rebuild are therefore given any clock reading that has been       *)
(* current, since the caller may have waited for a lock after taking it.   *)
(*                                                                         *)
(* Time is counted in ticks, and credits in a unit of which the estimates, *)
(* the snapshots and group_usage_limit are all multiples: single credits,  *)
(* since every estimate of internal/proxy/handler.go is a whole number, or *)
(* a fraction of one when the configured limit has a fraction.             *)
(***************************************************************************)
EXTENDS Integers, FiniteSets, Sequences, KeyPartition

CONSTANTS
  Keys,               \* the names of the configured Tavily keys
  Requests,           \* calls of SelectFor; each names the lease it obtains
  Selections,         \* what the request paths ask for
  UsageSnapshots,     \* what the Tavily usage endpoint may answer
  GroupSize,          \* key_group_size; 0 when grouping is disabled
  GroupUsageLimit,    \* group_usage_limit
  RetryAfters,        \* the Retry-After of a 429; 0 when none was understood
  DefaultRetryAfter,  \* the minute Resolve falls back to
  MonthLength,        \* ticks in a rotation month
  MaxTime             \* bound: the last tick of the clock

Workloads == {"default", "research"}

ASSUME KeysAssumption == IsFiniteSet(Keys)
ASSUME SelectionsAssumption ==
  Selections \subseteq [workload : Workloads,
                        estimate : Nat \ {0},
                        excluded : SUBSET Keys]
ASSUME SnapshotsAssumption == UsageSnapshots \subseteq [limit : Nat, used : Nat]
ASSUME GroupingAssumption == GroupSize \in Nat /\ GroupUsageLimit \in Nat \ {0}
ASSUME TimeAssumption ==
  /\ RetryAfters \subseteq Nat
  /\ DefaultRetryAfter \in Nat \ {0}
  /\ MonthLength \in Nat \ {0}
  /\ MaxTime \in Nat

VARIABLES
  now,                \* the clock
  serving,            \* main has left its startup
  \* keyState, one function per field
  limit,
  realUsage,
  estimated,
  ready,
  state,
  retryAt,
  researchBlockedAt,
  \* the rotation
  groups,             \* groupState, in rotation order; <<>> is nil
  activeGroup,        \* position in groups; 0 where the code has -1
  rotationMonth,
  \* the leases
  lease,              \* the lease of every request that was admitted
  reservations,       \* the leases that hold credits: the keys of the map
  settled,            \* the reservations marked by SettleResearch
  \* history, read by the properties only
  inflight,           \* admitted requests whose answer is not resolved yet
  thisRound           \* requests admitted since the last rebuild

usageVars   == <<limit, realUsage, ready>>
rotation    == <<groups, activeGroup, rotationMonth>>
history     == <<inflight, thisRound>>
vars == <<now, serving, limit, realUsage, estimated, ready, state, retryAt,
          researchBlockedAt, groups, activeGroup, rotationMonth,
          lease, reservations, settled, inflight, thisRound>>

NoMonth    == -1
NotBlocked == -1
Monus(a, b) == IF a >= b THEN a - b ELSE 0

----------------------------------------------------------------------------
(* What the pool derives from its state.                                    *)

\* keyState.remaining
Remaining(k) == Monus(Monus(limit[k], realUsage[k]), estimated[k])

\* researchBlocked: the pause a research quota rejection leaves behind holds
\* until the key can serve more than it could at the rejection.
ResearchBlocked(k) ==
  researchBlockedAt[k] # NotBlocked /\ Remaining(k) <= researchBlockedAt[k]

\* The part of eligible that does not depend on the request.
Selectable(k) ==
  /\ ready[k]
  /\ limit[k] > 0
  /\ Remaining(k) > 0
  /\ state[k] \notin {"exhausted", "probing"}

\* Mutant: a key with any credits left takes any request.
CanHoldAnything(k, s) == Selectable(k)

CanHold(k, s) == Selectable(k) /\ Remaining(k) >= s.estimate

\* Mutant: the cooldown of a key is not asked for.
EligibleWhileCooling(k, t, s) ==
  /\ CanHold(k, s)
  /\ s.workload = "research" => ~ResearchBlocked(k)

Eligible(k, t, s) ==
  /\ CanHold(k, s)
  /\ s.workload = "research" => ~ResearchBlocked(k)
  /\ state[k] = "cooling" => retryAt[k] <= t

\* candidatesFor: every candidate has a positive weight, so the weighted choice
\* may fall on each of them.
Candidates(allowed, t, s) ==
  {k \in allowed \ s.excluded : Eligible(k, t, s)}

Month(t) == t \div MonthLength

Grouped == GroupSize > 0 /\ groups # <<>>

\* groupTerminal of a group record
IsTerminal(group) ==
  group.closed \/ group.deferred \/ group.reserved >= GroupUsageLimit

\* allGroupsTerminal of a rotation
AllTerminal(gs) == gs # <<>> /\ \A g \in DOMAIN gs : IsTerminal(gs[g])

\* groupCooling: some key of the group could serve but for its cooldown or its
\* probe, and no key of the group could serve right away.
GroupCooling(group, t) ==
  LET alive == {k \in group.keys :
                  ready[k] /\ limit[k] > 0 /\ Remaining(k) > 0
                    /\ state[k] # "exhausted"}
      away  == {k \in alive :
                  state[k] = "probing" \/ (state[k] = "cooling" /\ t < retryAt[k])}
  IN  alive # {} /\ alive = away

\* Mutant: only a budget that is already used up closes the group.
OverflowsWhenSpent(group, s) == group.reserved > GroupUsageLimit

\* groupCandidates gives up a group that the request would push over its limit.
Overflows(group, s) ==
  group.reserved > 0 /\ group.reserved + s.estimate > GroupUsageLimit

\* Mutant: a group lends every key.
LendsAll(g) == Keys

\* The keys a selection may use: those of group g, or all without groups.
Lends(g) == IF g = 0 THEN Keys ELSE groups[g].keys

Offers(g, t, s) ==
  /\ ~IsTerminal(groups[g])
  /\ ~Overflows(groups[g], s)
  /\ Candidates(Lends(g), t, s) # {}

\* How many groups the circular scan passes before it looks at g.
ScanPosition(g) == (g + Len(groups) - activeGroup) % Len(groups)

\* The group the scan settles on: the first one that offers a key.
ChosenGroups(t, s) ==
  {g \in DOMAIN groups :
     /\ Offers(g, t, s)
     /\ \A h \in DOMAIN groups :
          ScanPosition(h) < ScanPosition(g) => ~Offers(h, t, s)}

\* What the scan leaves on the groups it passes.
MarkPassed(passed, t, s) ==
  [g \in DOMAIN groups |->
     IF g \notin passed \/ IsTerminal(groups[g])
     THEN groups[g]
     ELSE [groups[g] EXCEPT
             !.closed   = Overflows(groups[g], s),
             !.deferred = ~Overflows(groups[g], s) /\ GroupCooling(groups[g], t)]]

\* Mutant: every pause that is looked at is lifted.
LiftPausesAsked(asked) ==
  [k \in Keys |-> IF k \in asked THEN NotBlocked ELSE researchBlockedAt[k]]

\* researchBlocked also lifts the pause it finds outlived.
LiftPauses(asked) ==
  [k \in Keys |-> IF k \in asked /\ ~ResearchBlocked(k)
                  THEN NotBlocked ELSE researchBlockedAt[k]]

\* The keys whose pause a selection looks at, in eligible.
PausesAsked(s) ==
  IF s.workload = "research"
  THEN {k \in Keys \ s.excluded : CanHold(k, s)}
  ELSE {}

----------------------------------------------------------------------------
(* The reservations.                                                        *)

\* reservation.persistent and not yet settled
Persists(r) == lease[r].workload = "research" /\ r \notin settled

HeldOn(k) == {r \in reservations : lease[r].key = k}

\* Credits(rs) is the sum of the estimates of the leases rs, as the number of
\* their single credits.
Credits(rs) == Cardinality(UNION {{r} \X (1..lease[r].estimate) : r \in rs})

\* Mutant: a snapshot drops every reservation of its key.
SupersedesAll(k) == HeldOn(k)

\* Mutant: a snapshot drops no reservation.
SupersedesNone(k) == {}

\* The reservations a snapshot of k stands for.
Superseded(k) == {r \in HeldOn(k) : ~Persists(r)}

\* Mutant: the reservation is not looked up first.
RemoveTwice(r) ==
  /\ reservations' = reservations \ {r}
  /\ settled' = settled \ {r}
  /\ estimated' = [estimated EXCEPT ![lease[r].key] = @ - lease[r].estimate]
  /\ UNCHANGED groups

\* removeReservation(r, rollbackGroup = TRUE), with rollbackGroupEstimate.
RemoveAndRollback(r) ==
  IF r \in reservations
  THEN /\ reservations' = reservations \ {r}
       /\ settled' = settled \ {r}
       /\ estimated' = [estimated EXCEPT ![lease[r].key] =
                          Monus(@, lease[r].estimate)]
       /\ groups' = IF lease[r].group \in DOMAIN groups
                    THEN [groups EXCEPT ![lease[r].group].reserved =
                            Monus(@, lease[r].estimate)]
                    ELSE groups
  ELSE UNCHANGED <<reservations, settled, estimated, groups>>
----------------------------------------------------------------------------
Init ==
  /\ now = 0
  /\ serving = FALSE
  /\ limit = [k \in Keys |-> 0]
  /\ realUsage = [k \in Keys |-> 0]
  /\ estimated = [k \in Keys |-> 0]
  /\ ready = [k \in Keys |-> FALSE]
  /\ state = [k \in Keys |-> "pending"]
  /\ retryAt = [k \in Keys |-> 0]
  /\ researchBlockedAt = [k \in Keys |-> NotBlocked]
  /\ groups = <<>>
  /\ activeGroup = 0
  /\ rotationMonth = NoMonth
  /\ lease = [r \in {} |-> 0]
  /\ reservations = {}
  /\ settled = {}
  /\ inflight = {}
  /\ thisRound = {}

Tick ==
  /\ now < MaxTime
  /\ now' = now + 1
  /\ UNCHANGED <<serving, usageVars, estimated, state, retryAt, researchBlockedAt,
                 rotation, lease, reservations, settled, history>>

\* UpdateUsage: the snapshot replaces what the pool knew, and with it the
\* estimates it stands for.  A research reservation stays until it is settled.
UpdateUsage(k, u) ==
  LET superseded == Superseded(k)
  IN  /\ limit' = [limit EXCEPT ![k] = u.limit]
      /\ realUsage' = [realUsage EXCEPT ![k] = u.used]
      /\ ready' = [ready EXCEPT ![k] = TRUE]
      /\ reservations' = reservations \ superseded
      /\ settled' = settled \ superseded
      /\ estimated' = [estimated EXCEPT ![k] = Monus(@, Credits(superseded))]
      /\ state' = [state EXCEPT ![k] =
                     IF u.limit <= u.used THEN "exhausted"
                     ELSE IF @ \in {"pending", "exhausted"} THEN "ready" ELSE @]
      /\ UNCHANGED <<now, serving, retryAt, researchBlockedAt, rotation, lease, history>>

\* What every selection that reaches the keys leaves on the pauses.
LiftPausesOf(s) == researchBlockedAt' = LiftPauses(PausesAsked(s))

\* SelectFor refuses a clock reading of another month before it does anything.
MonthPassed(t) == Grouped /\ Month(t) # rotationMonth

\* The tail of SelectFor: request r gets key k of group g.
Grant(r, t, s, g, k) ==
  /\ lease' = [q \in DOMAIN lease \cup {r} |->
                 IF q = r THEN [key      |-> k,
                                estimate |-> s.estimate,
                                workload |-> s.workload,
                                group    |-> g]
                 ELSE lease[q]]
  /\ reservations' = reservations \cup {r}
  /\ estimated' = [estimated EXCEPT ![k] = @ + s.estimate]
  /\ state' = [state EXCEPT ![k] = IF @ = "cooling" THEN "probing" ELSE @]
  /\ IF g = 0
     THEN UNCHANGED <<groups, activeGroup>>
     ELSE LET passed == {h \in DOMAIN groups : ScanPosition(h) < ScanPosition(g)}
          IN  /\ groups' = [MarkPassed(passed, t, s) EXCEPT ![g].reserved = @ + s.estimate]
              /\ activeGroup' = g

\* SelectFor, when it finds a key.
Admit(r, t, s) ==
  /\ serving
  /\ r \notin DOMAIN lease
  /\ ~MonthPassed(t)
  /\ \E g \in IF Grouped THEN ChosenGroups(t, s) ELSE {0} :
       \E k \in Candidates(Lends(g), t, s) : Grant(r, t, s, g, k)
  /\ LiftPausesOf(s)
  /\ inflight' = inflight \cup {r}
  /\ thisRound' = thisRound \cup {r}
  /\ UNCHANGED <<now, serving, usageVars, retryAt, rotationMonth, settled>>

\* SelectFor, when it finds none.  The marks and the lifted pauses stay.
Refuse(t, s) ==
  /\ serving
  /\ ~MonthPassed(t)
  /\ IF Grouped THEN ChosenGroups(t, s) = {} ELSE Candidates(Keys, t, s) = {}
  /\ groups' = MarkPassed(DOMAIN groups, t, s)
  /\ LiftPausesOf(s)
  /\ UNCHANGED <<now, serving, usageVars, estimated, state, retryAt, activeGroup,
                 rotationMonth, lease, reservations, settled, history>>

\* Resolve, 429
ResolveRateLimited(r, d) ==
  LET k == lease[r].key
  IN  /\ r \in inflight
      /\ RemoveAndRollback(r)
      /\ retryAt' = [retryAt EXCEPT ![k] =
                       now + (IF d = 0 THEN DefaultRetryAfter ELSE d)]
      /\ state' = [state EXCEPT ![k] = "cooling"]
      /\ inflight' = inflight \ {r}
      /\ UNCHANGED <<now, serving, usageVars, researchBlockedAt, activeGroup,
                     rotationMonth, lease, thisRound>>

\* Resolve, 432 and 433
ResolveQuotaRejected(r) ==
  LET k == lease[r].key
  IN  /\ r \in inflight
      /\ RemoveAndRollback(r)
      /\ researchBlockedAt' =
           IF lease[r].workload = "research"
           THEN [researchBlockedAt EXCEPT ![k] =
                   Monus(Monus(limit[k], realUsage[k]), estimated'[k])]
           ELSE researchBlockedAt
      /\ inflight' = inflight \ {r}
      /\ UNCHANGED <<now, serving, usageVars, state, retryAt, activeGroup,
                     rotationMonth, lease, thisRound>>

\* Resolve, any other 4xx
ResolveClientError(r) ==
  /\ r \in inflight
  /\ RemoveAndRollback(r)
  /\ inflight' = inflight \ {r}
  /\ UNCHANGED <<now, serving, usageVars, state, retryAt, researchBlockedAt,
                 activeGroup, rotationMonth, lease, thisRound>>

\* Mutant: every success opens the key.
AfterAnySuccess(st) == "ready"

\* A success ends a probe and nothing else.
AfterSuccess(st) == IF st = "probing" THEN "ready" ELSE st

\* Resolve, 200 and 201
ResolveSuccess(r) ==
  LET k == lease[r].key
  IN  /\ r \in inflight
      /\ state' = [state EXCEPT ![k] = AfterSuccess(@)]
      /\ inflight' = inflight \ {r}
      /\ UNCHANGED <<now, serving, usageVars, estimated, retryAt, researchBlockedAt,
                     rotation, lease, reservations, settled, thisRound>>

\* Resolve with any other status, which changes nothing: 5xx, the 500 that
\* ServeHTTP makes of a transport error, 202 and other answers.
ResolveOther(r) ==
  /\ r \in inflight
  /\ inflight' = inflight \ {r}
  /\ UNCHANGED <<now, serving, usageVars, estimated, state, retryAt,
                 researchBlockedAt, rotation, lease, reservations, settled,
                 thisRound>>

\* SettleResearch: a poll, the mapping or the safety timer ends the research.  The
\* safety timer does so for a request that never had an answer, too.
SettleResearch(r) ==
  /\ r \in reservations
  /\ lease[r].workload = "research"
  /\ settled' = settled \cup {r}
  /\ UNCHANGED <<now, serving, usageVars, estimated, state, retryAt,
                 researchBlockedAt, rotation, lease, reservations, history>>

\* The keys a rebuild distributes, and what each of them can serve.
UsableKeys == {k \in Keys : ready[k] /\ state[k] # "exhausted" /\ Remaining(k) > 0}

\* Mutant: the index is advanced without wrapping around.
NextGroupUnwrapped(n, month) ==
  IF activeGroup = 0 \/ month # rotationMonth THEN 1 ELSE activeGroup + 1

\* The first group of the new round, out of n.
NextGroup(n, month) ==
  IF activeGroup = 0 \/ month # rotationMonth THEN 1 ELSE (activeGroup % n) + 1

\* Mutant: a group goes on with the budget of the group it replaces.
CarriedGroup(assignment, g) ==
  [keys |-> KeysOf(assignment, g),
   reserved |-> IF g \in DOMAIN groups THEN groups[g].reserved ELSE 0,
   closed |-> FALSE, deferred |-> FALSE]

FreshGroup(assignment, g) ==
  [keys |-> KeysOf(assignment, g), reserved |-> 0, closed |-> FALSE, deferred |-> FALSE]

\* RebuildGroups
Rebuild(t) ==
  /\ GroupSize > 0
  /\ rotationMonth' = Month(t)
  /\ thisRound' = {}
  /\ IF UsableKeys = {}
     THEN groups' = <<>> /\ activeGroup' = 0
     ELSE LET n == GroupCount(UsableKeys, GroupSize)
              amount == [k \in UsableKeys |-> Remaining(k)]
          IN  /\ \E assignment \in Rotations(UsableKeys, GroupSize, amount) :
                   groups' = [g \in 1..n |-> FreshGroup(assignment, g)]
              /\ activeGroup' = NextGroup(n, Month(t))
  /\ UNCHANGED <<now, usageVars, estimated, state, retryAt, researchBlockedAt,
                 lease, reservations, settled, inflight>>

RebuildGroups(t) == serving /\ Rebuild(t) /\ UNCHANGED serving

\* main, after the startup sweep: ConfigureGroups and the first RebuildGroups
\* when grouping is enabled, then the listener.
Boot ==
  /\ ~serving
  /\ serving' = TRUE
  /\ \/ Rebuild(now)
     \/ /\ GroupSize = 0
        /\ UNCHANGED <<now, usageVars, estimated, state, retryAt, researchBlockedAt,
                       rotation, lease, reservations, settled, history>>

\* MonitorSnapshot and Snapshots ask researchBlocked of every key.
MonitorSnapshot ==
  /\ serving
  /\ researchBlockedAt' = LiftPauses(Keys)
  /\ UNCHANGED <<now, serving, usageVars, estimated, state, retryAt, rotation,
                 lease, reservations, settled, history>>

Select ==
  \E t \in 0..now, s \in Selections : (\E r \in Requests : Admit(r, t, s)) \/ Refuse(t, s)

Resolve ==
  \E r \in Requests :
    \/ \E d \in RetryAfters : ResolveRateLimited(r, d)
    \/ ResolveQuotaRejected(r)
    \/ ResolveClientError(r)
    \/ ResolveSuccess(r)
    \/ ResolveOther(r)

Next ==
  \/ Tick
  \/ Boot
  \/ \E k \in Keys, u \in UsageSnapshots : UpdateUsage(k, u)
  \/ Select
  \/ Resolve
  \/ \E r \in Requests : SettleResearch(r)
  \/ \E t \in 0..now : RebuildGroups(t)
  \/ MonitorSnapshot

Spec == Init /\ [][Next]_vars

----------------------------------------------------------------------------
(* Properties.                                                              *)

KeyStates == {"ready", "cooling", "probing", "exhausted", "pending"}

Lease == [key : Keys, estimate : Nat \ {0}, workload : Workloads, group : Nat]
Group == [keys : SUBSET Keys, reserved : Nat, closed : BOOLEAN, deferred : BOOLEAN]

\* The types of the pool's fields; reservations and their marks name leases.
TypeOK ==
  /\ now \in Nat
  /\ serving \in BOOLEAN
  /\ limit \in [Keys -> Nat]
  /\ realUsage \in [Keys -> Nat]
  /\ estimated \in [Keys -> Nat]
  /\ ready \in [Keys -> BOOLEAN]
  /\ state \in [Keys -> KeyStates]
  /\ retryAt \in [Keys -> Nat]
  /\ researchBlockedAt \in [Keys -> Nat \cup {NotBlocked}]
  /\ groups \in Seq(Group)
  /\ activeGroup \in Nat
  /\ rotationMonth \in Nat \cup {NoMonth}
  /\ lease \in [DOMAIN lease -> Lease]
  /\ DOMAIN lease \subseteq Requests
  /\ IsFiniteSet(DOMAIN lease)
  /\ reservations \subseteq DOMAIN lease
  /\ settled \subseteq reservations
  /\ inflight \subseteq DOMAIN lease
  /\ thisRound \subseteq DOMAIN lease

\* keyState.estimated is kept by increments and decrements in three operations
\* (SelectFor, removeReservation from Resolve, removeReservation from
\* UpdateUsage).  It is always the sum of the reservations on the key, whatever
\* snapshots, answers and settlements come in between: no credit is counted
\* twice, and none is lost to the max(0, ...) of removeReservation.
EstimateIsHeld == \A k \in Keys : estimated[k] = Credits(HeldOn(k))

\* A key whose last snapshot is spent never serves until a newer snapshot gives
\* it credits, whatever late answers of earlier requests do to its state: a late
\* 200 does not reopen it, and a late 429 parks it in cooling, where it has
\* nothing to serve.  A key without a snapshot stays pending.
SpentKeyStaysOut ==
  \A k \in Keys :
    /\ state[k] = "pending" <=> ~ready[k]
    /\ state[k] = "exhausted" => limit[k] <= realUsage[k]
    /\ ready[k] /\ limit[k] <= realUsage[k] => state[k] \in {"exhausted", "cooling"}

\* A cooldown ends by a probe after its deadline, or by a snapshot that finds the
\* key spent.  A late 200 of a request admitted before the 429 does not end it, and
\* neither does a snapshot with credits nor another request's rejection.
CooldownIsServed ==
  [][\A k \in Keys :
       state[k] = "cooling" /\ state'[k] # "cooling" =>
         \/ state'[k] = "probing" /\ retryAt[k] <= now
         \/ state'[k] = "exhausted" /\ limit'[k] <= realUsage'[k]]_vars

\* A key is probed only once the cooldown of its last 429 has passed, though the
\* selection may run on an old clock reading and the 429s of other requests in
\* flight keep moving the deadline.
ProbeFollowsCooldown ==
  \A k \in Keys : state[k] = "probing" => retryAt[k] <= now

\* groupCandidates and RebuildGroups index p.groups by activeGroup and p.keys by
\* the names in a group without a check.  The index is in range whenever there
\* are groups, across rebuilds that shrink the rotation, and no key is in two
\* groups.
RotationIndexSafe ==
  /\ groups # <<>> <=> activeGroup > 0
  /\ activeGroup <= Len(groups)
  /\ \A g, h \in DOMAIN groups : g # h => groups[g].keys \cap groups[h].keys = {}
  /\ \A g \in DOMAIN groups :
       groups[g].keys # {} /\ Cardinality(groups[g].keys) <= GroupSize

ChargedTo(g) == {r \in thisRound : lease[r].group = g}

\* A group is charged beyond group_usage_limit only by one request of this round
\* that is alone larger than the limit: its estimate covers the whole charge, so
\* that no second request has been added to it, however rollbacks have lowered and
\* other requests raised the charge before.
RoundBudget ==
  \A g \in DOMAIN groups :
    \/ groups[g].reserved <= GroupUsageLimit
    \/ \E r \in ChargedTo(g) : groups[g].reserved <= lease[r].estimate

\* A group is never charged more than the requests of this round hold or held on
\* it: a rebuild starts every budget at zero, and no answer to a request of an
\* earlier round adds to one.
NeverOvercharged ==
  \A g \in DOMAIN groups : groups[g].reserved <= Credits(ChargedTo(g))

\* The credits of a request are charged to the group its key belongs to.
ChargedGroupOwnsKey ==
  \A g \in DOMAIN groups : \A r \in ChargedTo(g) : lease[r].key \in groups[g].keys

\* A research task may spend its whole reservation until it ends.  The
\* reservation leaves the books only by the task's own rejection or, once it was
\* settled, by a snapshot: never by a snapshot fetched for some other reason,
\* nor by the answer to another request.
ResearchHoldSurvives ==
  [][\A r \in reservations :
       lease[r].workload = "research" /\ r \notin settled
         => r \in reservations' \/ r \in inflight \ inflight']_vars

\* When a request is admitted, the real usage of its key and everything reserved
\* on it, this request included, fit the limit of the key's last snapshot.
AdmissionFits ==
  [][\A r \in DOMAIN lease' \ DOMAIN lease, k \in Keys :
       lease'[r].key = k => realUsage[k] + Credits(HeldOn(k))' <= limit[k]]_vars

\* A key that is paused for research stays paused until it can serve more than it
\* could at the rejection: neither a reading of the monitor, nor a selection that
\* passes the key over, nor a rejection of another research that measures the key
\* again, nor a snapshot ends the pause otherwise.
PauseIsOutlived ==
  [][\A k \in Keys :
       ResearchBlocked(k) => ResearchBlocked(k)' \/ Remaining(k)' > researchBlockedAt[k]]_vars

\* The ledger that the pool's books amount to.  The running totals of keyState,
\* the key states, the groups and the clock are gone.
Ledger == INSTANCE CreditLedger WITH
  Amounts <- {s.estimate : s \in Selections}
               \cup {Monus(u.limit, u.used) : u \in UsageSnapshots},
  balance <- [k \in Keys |-> Monus(limit[k], realUsage[k])],
  held    <- [r \in reservations |-> [key     |-> lease[r].key,
                                      credits |-> lease[r].estimate,
                                      kept    |-> Persists(r)]],
  past    <- DOMAIN lease

\* The pool keeps the promises of CreditLedger: an admission fits what the last
\* snapshot leaves beside all live reservations, which estimated stands for; a
\* request holds credits at most once; a rejection frees its own hold and no
\* other; a snapshot drops exactly the holds no running research may still spend.
ImplementsLedger == Ledger!LedgerSpec
=============================================================================
