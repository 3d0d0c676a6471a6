# TvLink: a verification project

TvLink is a pool of Tavily API keys behind one REST and one MCP endpoint. This
directory models how it decides which key serves a request and who pays for it, how a request
and a research task pass through it, and when it asks Tavily for a key's usage. The
model is checked with TLC and its safety proved with TLAPS.
Line numbers refer to the Go sources; `PROJECT.json` maps every definition to its
lines.

Run a check with `tlc -config <run>.cfg <module>.tla`, the proofs with
`tlapm` on the modules whose names end in `Proofs`.

## Inventory

| Part | State it keeps | Operations | Who calls it |
|---|---|---|---|
| Key allocation and circuits, `internal/pool/pool.go` | per key: limit, real usage, estimated usage, ready, state (pending, ready, cooling, probing, exhausted), `retryAt`, `researchBlockedAt`; the reservations by lease | `SelectFor`, `Resolve`, `SettleResearch`, `UpdateUsage`, `Snapshots`, `MonitorSnapshot` | proxy, coordinator, usage client, monitor |
| Group rotation, `pool.go` | the groups (keys, reserved, closed, deferred), `activeGroup`, `rotationMonth` | `ConfigureGroups`, `RebuildGroups`, the scan in `groupCandidates` | main, coordinator |
| Selection coordinator, `coordinator.go` | `rebuildMu`, `refreshing` | `SelectFor`: select, lock, select, rebuild, select; `refreshAsync` | proxy |
| Usage refresh throttle, `pool.go`, `main.go` | per key `refreshAt`, `refreshFloor`; histories for the monitor | `DueKeys`, `Refreshable`, `RecordRefreshAttempt`, `rescheduleRefreshes`, `refreshLoop` | main, coordinator, research settlement |
| Usage client, `tavily/client.go` | none | `RefreshUsage`, `effectiveUsage`, `parseRetryAfter` | refresh loop, sweeps, settlement |
| REST proxy, `proxy/handler.go` | none of its own per request | at most two attempts per request | HTTP clients, MCP |
| Research tasks, `proxy/research.go` and the mapping in `handler.go` | request id to lease and expiry | admission over several keys, mapping, expiry timers, polls, settlement | HTTP clients, MCP |
| MCP endpoint, `mcp/handler.go` | progress of one call | tool calls, research progress | HTTP clients |
| Monitor, `monitor/` | none | renders a snapshot | browsers |
| Configuration, `config/` and startup, `cmd/tvlink/main.go` | settings | load, validate, wire, listen | the process |

How they interact: every request runs in its own goroutine. It reads the clock,
asks the coordinator for a lease, calls Tavily without any lock, and reports the
answer with `Resolve`. A usage refresh (the loop, the sweep after a rebuild, or
the settlement of a research task) fetches a snapshot without any lock and stores
it with `UpdateUsage`. `Pool.mu` makes each of these pool calls atomic; everything
between two calls interleaves.

What is hard here, and what must hold nevertheless:

- **Money.** Between two snapshots the pool knows a key's usage only through its
  own running estimate, raised by admissions and lowered by rejections and
  snapshots in any order. The estimate must be exactly what is reserved, an
  admission must fit the last known limit, and a research task keeps its
  reservation while it may still spend it.
- **Late answers.** A 200, a 429 or a 5xx may arrive after a snapshot or another
  answer has changed the key. It must not reopen a spent key or probe a key whose
  cooldown has not passed.
- **Rounds.** Groups are found by position; rebuilds change what a position means
  while leases that name it are still out. Budgets must not be overcharged and the
  rotation index must stay in range.
- **Concurrent rebuilds.** Many requests find a round over at once, possibly with
  clock readings from before the end of a month. None may rebuild, on the strength of
  what it saw before, a round that another has built since, and every one of them
  comes to an end.
- **Refreshes.** The loop, the sweep and the settlements share one throttle per key, checked before and
  recorded after the network call.
- **Research tasks.** A task has a mapping, a timer, polls and a settlement that
  race with each other.

What makes each part correct:

| Part | Properties |
|---|---|
| Key allocation | exact estimates, no overbooking, spent keys stay out, cooldowns are served and probes follow them, research holds survive |
| Group rotation | index in range, disjoint groups, budgets overrun by a single oversized request at most and never overcharged, a charge goes to the group of its key, best division of keys |
| Coordinator | a request rebuilds only a round that it has itself found over under the mutex, one holder of the mutex, every request ends |
| Refresh throttle | no entry point picks a key before the floor of its last attempt, only one that had the key in hand by then breaks a floor, the sweep's flag is cleared, every key is refreshed again and again |
| Usage client | the binding one of the key's and the account's quota is reported, each attempt recorded once |
| REST proxy | at most two attempts per request, the second only after a 429 of the first; no lease left unresolved but that of a research without an answer |
| Research tasks | no key is tried twice for one task; whatever fails, somebody who will settle the reservation is left, and it is settled in the end |
| MCP | reported progress only grows, one final message |
| Monitor, configuration | what is shown is one consistent snapshot; what is accepted satisfies the assumptions of the pool |

`PROJECT.json` lists each hazard at its line.

## Modules

| Module | Models |
|---|---|
| `KeyPool` | the whole of `pool.go` but the refresh schedule: one action per operation |
| `KeyPartition` | what the division of keys into groups must be: `Rotations` |
| `KeyPartitionSearch` | how `optimalGroups` searches for it, with its pruning, one iteration of its loop per step |
| `CreditLedger` | the abstract specification: balances and holds, nothing else |
| `PoolCoordinator` | `Coordinator.SelectFor` step by step, any number of requests at once, on `KeyPool` |
| `ProxyCalls` | `ServeHTTP`, `RunResearch` and the life of a research reservation, any number of calls at once, on `KeyPool` |
| `RefreshThrottle` | the refresh schedule of `pool.go` and the four entry points that ask it, with the request to Tavily between the question and the record |
| `PoolDocumented`, `ProxyDocumented`, `RefreshDocumented` | statements of comments and documents that the program does not keep |
| `MCKeyPool`, `MCPoolCoordinator`, `MCProxyCalls`, `MCRefreshThrottle` | small instances for TLC |
| `KeyPoolProofs` | types and running totals of `KeyPool`, proved |
| `KeyPoolSafetyProofs` | spent keys, probes, research holds, admissions, pauses and budgets, and that `KeyPool` implements `CreditLedger`, proved |
| `KeyPoolRotationProofs` | the rotation index, the size of the groups and what they are charged, proved |
| `KeyPartitionProofs` | sums, sizes and scores of divisions, and that there always is a rotation, proved |
| `KeyPartitionSearchProofs` | the search finds a best division, proved |
| `PoolCoordinatorProofs` | the coordinator's steps are steps of `KeyPool`, and its mutex excludes, proved |
| `ProxyCallsProofs` | the proxy's steps are steps of `KeyPool`, and no path loses a lease, proved |
| `RefreshThrottleProofs` | the safety of the throttle, proved |

`PoolCoordinator` and `ProxyCalls` compose with the pool by taking the actions of
`KeyPool` as their own steps. `ProxyCalls` reduces the selector to its results (a
lease, a refusal, a rebuild in between); `PoolCoordinator` has the steps that lead to
them. `RefreshThrottle` stands beside the pool: the fields it keeps are read by no
selection, and what a refresh does to the credits is `UpdateUsage` of `KeyPool`, which
may come at any time with any snapshot.

### State and actions of KeyPool

Each field of `keyState` is a function from keys: `limit`, `realUsage`,
`estimated`, `ready`, `state`, `retryAt`, `researchBlockedAt` (`NotBlocked` for
nil). `groups`, `activeGroup` and `rotationMonth` are the rotation; positions start
at 1, and `activeGroup` is 0 where the code has -1. `lease` keeps every lease ever
given, `reservations` the ones that hold credits, `settled` the marked ones.
`inflight` and `thisRound` are history: which admitted requests have no call of
`Resolve` yet (a research whose request fails never gets one), and which were admitted
since the last rebuild. Only properties and the guards that
say "this request is still running" read them.

`Admit` and `Refuse` are `SelectFor` with a key and without one, the marks that the
scan leaves on the groups it passes included. `Resolve` has one action per class of
status code. `UpdateUsage`, `SettleResearch`, `RebuildGroups` and
`MonitorSnapshot` (which lifts outlived research pauses) carry the code's names.
`Boot` is `main`: snapshots may arrive before it, requests only after it. `Tick`
moves the clock. `Admit`, `Refuse` and `RebuildGroups` take any clock reading up to
now, because the caller reads the clock before it waits for a mutex.

Abstractions, each on data and not on control:

- the weighted random choice is any candidate, since every weight is positive;
- credits are whole numbers (every estimate in `handler.go` is 1, 2, 110 or 250,
  and so is every snapshot). `group_usage_limit` is a float: a limit with a fraction is
  a whole number of a smaller unit, in which the estimates and the snapshots count, too;
- the SHA-256 order of groups that can serve the same is any order;
- a month is `MonthLength` ticks;
- lease numbers are the requests' names, each used once;
- `Resolve` reads the clock at its own step: a reading taken just before it waits
  for `Pool.mu` would only shorten a cooldown by that wait.

### State and actions of KeyPartitionSearch

A behaviour takes what every key can still serve (`amount`) and a group size, and runs
`optimalGroups` on them. A key is its position in the order of `sort.Slice`. The calls
of `searchPartition` on the stack are numbered by the key that each one places, so that
`keyIndex` is the running call and `groupIndex` says where the loop of each call
stands. `PlaceKey` is an iteration that goes down, `SkipBucket` one that continues,
`LoopEnds` the return of a call whose loop is through, `ScorePartition` the call after
the last key, which keeps the better partition and returns, and `OrderGroups` what
`optimalGroups` and `orderGroupsForRotation` do afterwards. A return and what the
caller does next, taking its key out again, are one step.

The score is that of the code with whole numbers: the variance is compared as the sum
of the squares of n times the distance from the mean, which scales every score by the
same factor, and below 30,000 groups the epsilon of `betterPartition` is smaller than
the distance of any two scores that differ.

### State and actions of ProxyCalls

A call is one client's request: a plain one (search, extract, crawl, map), a
`POST /research` or a research over MCP. `stage` is where its handler is and
`attempt` how many leases it has obtained; the lease of its n-th attempt is
`<<c, n>>`. `excluded` is the set `admitResearch` hands to the selector. `mapped` is
`Handler.research`, `timers` the closures of `deferResearchSettlement`, `settling`
the calls of `SettleResearch` that are about to happen, `polls` the requests of
`GET /research/<id>` that wait for Tavily, and `task` what Tavily does.

`Obtain`, `GiveUp` and `AskAgain` are the selector's results. `RateLimited`,
`QuotaRejected`, `Rejected`, `Accepted` and `TransportFails` are the answers, each
with the `Resolve` it leads to and with the branch of `ServeHTTP` or `admitResearch`
that follows. `TransportFails` has two faces: `ServeHTTP` reports a 500 to the pool,
while `admitResearch` reports nothing and leaves the unresolved lease to a safety timer.
`ReadTask`, `ReadNoTask` and `StreamEnds` are what becomes of an answer to a research,
over REST and over MCP. A status that is missing or unknown counts as terminal
(`researchTerminal`), and so does the clean end of a stream: each of these may settle
the reservation of a task that is still at work. `Expire` is the end of a mapping, whoever
notices it first; `TimerFires` the safety timer; `Settle` the `SettleResearch` that a
handler, a poll or an expiry has decided on earlier, so that anything can come between.

Abstractions: the TTL is left open, so that a mapping or timer may end at any time
(a longer one only delays it); Tavily gives every task a `request_id` of its own, so
that the lease stands for the id; a poll that reports a task still at work changes
nothing and is no step; bodies and headers are left out but for whether they name a
task and whether what they say counts as its end; the request to Tavily can always be
built, since its URL is one of a few paths under a fixed address, so that the return of
`ServeHTTP` between a selection and the request (handler.go:98) is never taken.

### State and actions of RefreshThrottle

`refreshIn` and `floorIn` are `refreshAt` and `refreshFloor` as the time left until
them. An entry point that runs (`running`) has a `batch` of keys to ask for and a
`request` that is out. `rebuilding` is the moment between a rebuild and
`refreshAsync`, `refreshing` the coordinator's flag. `stragglers` is history: per key,
the entry points that had the key in hand when its floor was set.

`LoopWakes`, `SweepStarts` and `Settle` read the due keys; `Send`, `Answer` and
`Abort` are one request of `Client.Refresh` each, and the record follows the answer.
`RescheduleRefreshes` lays slots for every way the groups may divide the keys.
`Boot` is `main`, which serves only after the startup sweep. A tick is longer than
the 20 seconds of the usage client, than the budget of a sweep and than the longest
sleep of the loop, so that nobody is between two requests while it passes.

## Runs

| Run | Shows |
|---|---|
| `KeyPoolBooks` | two keys, three requests, no groups, searches of 1 credit and researches of 2 against limits of 3, snapshots with everything left or nothing left, Retry-After of a default tick or two: `TypeOK`, `EstimateIsHeld`, `SpentKeyStaysOut`, `CooldownIsServed`, `ProbeFollowsCooldown`, `ResearchHoldSurvives`, `AdmissionFits`, `PauseIsOutlived`, and the refinement `ImplementsLedger` |
| `KeyPoolRotation` | one key per group, a budget of 2, searches of 1 credit and researches of 3 against limits of 4, two months of two ticks, rebuilds at any moment: `RotationIndexSafe`, `RoundBudget`, `NeverOvercharged`, `ChargedGroupOwnsKey` |
| `KeyPartitionSearch` | every distribution of 1 to 4 credits over five keys and every group size up to 3: `SearchIsOptimal`, and `SearchReturns` under fairness |
| `Coordinator` | three requests on one key, budget 1, two months of one tick: `CoordTypeOK`, `RebuildsOnlyRoundsFoundOver`, and `RequestsFinish` under fairness |
| `ProxyTasks` | a research over REST and one over MCP on two keys without groups: `AttemptsDistinct`, `HoldHasWayOut`, and `HoldsSettle` under fairness |
| `ProxyRetries` | a search beside a research over REST, while a cooldown passes: `ProxyTypeOK`, `LeaseHasHandler` |
| `RefreshThrottle` | two keys, one settlement, groups rebuilt at any moment: `ThrottleTypeOK`, `SlotRespectsFloor`, `OnlyStragglersBreakFloor`, and `SweepEnds`, `KeysRefreshed` under fairness |
| `ProbingKeyHasRequest`, `OldRoundsLeaveBudgets`, `ServedByActiveGroup`, `RunningTaskHeld`, `ThrottleHolds` | each finds a behaviour against the one statement it is named for; see Findings |

Why these bounds are enough to be interesting. Two keys are the fewest for which a
credit can be booked on the wrong one, for which the rotation has a second group,
and for which a rebuild can shrink it. Limits of 3 with estimates of 1 and 2 give a
full key, a key that fits a search only, and a spent one. Three requests let one
answer arrive late while a second holds credits and a third is admitted; in the
coordinator they let one request spend a round while two wait to rebuild it, which
one key is enough for. A clock of
two ticks with a Retry-After of one and of two lets a cooldown pass, lets a second
429 move the deadline, and crosses the end of a month. A budget of 2 with estimates of
1 and 3 fills a group exactly, overflows it and closes it, and a research is an
oversized first reservation; snapshots of 4 leave room for it beside a search. Five keys with groups of up to three give
even and uneven capacities, and two groups of equal capacity and equal total, the
case the pruning is about; the theorem about the search needs no bound. In the proxy two keys let a research be rejected on one and
go on to the other, and three attempts are more than it can make. A limit of 4 with
researches of 2 lets two of them share a key: one is rejected there and pauses the
key, the release of the other lifts the pause, and only the excluded set keeps the
first from the key it has tried. Groups decide on which key a hold lies and not who
settles it, so that this run, with its liveness, goes without them; `ProxyRetries` has
them. One month suffices there, since the rebuilds that a
selection makes happen as soon as the budgets are used up. In the throttle a period of
3, offsets of 1 and floors of 1 and 2 let a slot fall before, on and after the floor of
the last attempt; four entry points and two keys let one entry wait with a key while
another gets the answer that sets its floor. Symmetry over keys and requests is used
in the runs of `KeyPool` only, which check no liveness.

`CHECK_DEADLOCK FALSE`: the clock stops at `MaxTime`, every request or call is used
once, and `KeyPartitionSearch` builds one rotation. `RefreshThrottle` keeps no clock
and may not stop: it is checked for deadlock.

### Fairness

`SearchSpec` assumes weak fairness of the search: it is one goroutine that waits for
nobody.

`CoordSpec` assumes weak fairness of every step of a request (a goroutine that can
run does run) and strong fairness of taking `rebuildMu`: `sync.Mutex` hands a mutex
that is released again and again to a waiter once it has waited for a millisecond,
so it starves nobody. Nothing is assumed of the requests' arrival, of Tavily's
answers, of snapshots or of the clock.

`ProxySpec` assumes weak fairness of every step of a handler until its call is
answered, of every settlement that is due and of the timers. The proxy's
`http.Client` (main.go:77) has no timeout: an exchange ends by Tavily's answer, by a
broken connection or by the client leaving, and the assumption is that one of them
comes. Nothing is assumed of polls, of the end of a task, of snapshots or of the clock,
and so `HoldsSettle` shows that the TTL alone bounds a reservation.

`ThrottleSpec` assumes weak fairness of the goroutines and of the requests, which the
timeout of 20 seconds of the usage client (main.go:47) ends, and strong fairness of
`Tick`: time passes although entry points start and end all the while. Nothing is
assumed of rebuilds and settlements. `KeysRefreshed` therefore leaves out two cases,
which the code has: rebuilds that lay new slots again and again, each before the old
ones are due, and settlements whose client has left, each of which records a failed
attempt without having asked Tavily.

## Findings

Each is a run that TLC ends with a behaviour of `PoolCoordinator`, `ProxyCalls` or
`RefreshThrottle`.

- `ProbingKeyHasRequest`. A key cools after a 429, the cooldown passes, a request
  probes it and gets a 502. `Resolve` does nothing for a 5xx, the key stays
  probing, and `eligible` refuses a probing key. Unless an older request on the key
  is still to be answered, only a spent snapshot followed by a good one brings it
  back.
- `OldRoundsLeaveBudgets`. A request is admitted by the group at position 1, the
  round ends and is rebuilt, another request is charged to the new group at
  position 1, and then the first is rejected: the new group is credited with the
  old request's estimate and may serve beyond its limit.
- `ServedByActiveGroup`. All keys are spent when a rebuild runs (at startup, or at
  the end of a round). `groups` is nil; once snapshots bring credits back, every
  key serves without group and budget, and since `SelectFor` asks for a rebuild
  only when there are groups, this lasts until the process restarts.
- `ThrottleHolds`. The loop asks for the due keys and sets out with both. While it
  waits for the first one, a research task on the second is settled, asks for the
  second key and gets a 429. The loop then sends its own request for the second key at
  once, far inside the back-off: the throttle is asked once per batch.
- `RunningTaskHeld`. A research is created and mapped, and its client asks for the
  status. Tavily answers with an error in JSON. It has no status, which
  `researchTerminal` takes for an unknown and therefore final one, and
  `serveResearchStatus` decides to settle the reservation of a task that still runs.
  Once it has, the next snapshot frees it. `pollResearch`, for MCP, looks at the status
  code first. The answer to the creation and the polls over MCP go through
  `researchTerminal`, too: a 2xx with an unknown status settles there as well.

Smaller divergences have no run of their own; the model has each of these steps:

- a spent group is reopened by the rollback of a rejection although the
  terminal-state design excludes it for the round;
- a spent snapshot makes a cooling key forget its `Retry-After`;
- a request is admitted, a snapshot of its key drops the reservation, and the request
  is rejected: `removeReservation` returns before the rollback, and the budget stays
  charged for a request that cost nothing;
- two requests wait for `rebuildMu` at the end of a month, one with a reading of the
  old month: the other rebuilds for the new month, and the first then finds the months
  different and rebuilds for the old one;
- every rebuild lays all slots anew from now, so that rebuilds that come faster than
  the slots put a key's refresh off for as long as they go on, where the design of the
  slots counts with a delay of about one period.

## Proofs

The theorems hold for any finite set of keys, any requests, calls, estimates,
snapshots, group size, group limit, month length and refresh durations, from the named
assumptions of `KeyPool`, `PoolCoordinator`, `ProxyCalls` and `RefreshThrottle` alone;
`KeyPartitionSearch` assumes only that there are keys, credits and a group size.
Those are what the code guarantees: what `config.validate` accepts (keys, a positive
limit for the groups, a refresh period no shorter than the minute that a
success keeps a key), positive estimates, and names that are told apart.

`KeyPoolProofs`:

- `TypeCorrect`: `Spec => []TypeOK`. `TypeOK` is inductive. The work is in the
  functions that rebuild the groups and in the natural subtraction.
- `BooksAreExact`: `Spec => []EstimateIsHeld`. `EstimateIsHeld` is inductive with
  `TypeOK` (`BooksInv`), which is needed to know that the leases are finitely many,
  so that their credits can be counted. `Credits` is defined as the cardinality of
  the set of single credits, (lease, number) pairs; the lemmas `TokensAdd`,
  `TokensOne` and `TokensSame` turn it into sums without induction. Three lemmas
  say what a removal, an admission and everything else do to the totals.

`KeyPoolSafetyProofs`:

- `SpentKeysStayOut`: `Spec => []SpentKeyStaysOut`. It is not inductive alone: a
  429 of a lease on a key without a snapshot would make a pending key cool.
  `NoLeaseBeforeSnapshot` rules that out.
- `ProbesFollowCooldowns`: `Spec => []ProbeFollowsCooldown`, inductive with the
  types.
- `CooldownsAreServed`: `Spec => CooldownIsServed`. Only a selection and a spent
  snapshot take a key out of cooling; `CooldownKept` covers every other operation.
- `ResearchHoldsSurvive`: `Spec => ResearchHoldSurvives`, one look at every action
  that removes reservations.
- `AdmissionsNeverOverbook`: `Spec => AdmissionFits`. `Remaining` sees the running
  total only, so the theorem needs `BooksInv` before and after the step.
- `PausesAreOutlived`: `Spec => PauseIsOutlived`. A pause is changed by a look that
  finds it outlived, and by another research rejection, which measures the key again
  at what it can serve then and so pauses it anew.
- `BudgetsHold`: `Spec => []RoundBudget`, inductive with the types. The request that
  covers an overrun stays charged to its group until a rebuild forgets the round, and a
  rollback only lowers a charge (`WithinKept`). An admission is covered by the check in
  `groupCandidates`: it fits, or the group was unused, so that the new request is the
  whole charge.
- `PoolImplementsLedger`: `Spec => ImplementsLedger`. Each operation maps to a hold, a
  release, a snapshot, a settlement or a stutter of `CreditLedger`. The pool admits by
  its running totals and the ledger by the holds themselves, so that the step of an
  admission needs `BooksInv`, here in the form of `OwedIsCredits`.

`PoolCoordinatorProofs`:

- `CoordTypeCorrect` and `RebuildersFoundRoundOver`: `CoordSafety => []CoordTypeOK` and
  `=> []RebuildsOnlyRoundsFoundOver`. The invariant is `CoordInv`: the mutex clause
  of `CoordTypeOK` is what lets a rebuild clear `foundOver`, since nobody else can be
  about to rebuild.
- `CoordinatorUsesPool`: `CoordSafety => Spec`. Every step of the coordinator is a
  step of `KeyPool` or a stutter, so the theorems above hold for concurrent
  requests; `CoordinatedBooks` states three of them, the refinement of the ledger
  among them.

`KeyPoolRotationProofs`, with the three properties and the types together as the
invariant `RotationInv`:

- `RotationIndexIsSafe`: `Spec => []RotationIndexSafe`. A rebuild makes enough groups
  for none to exceed the configured size: `Ceiling` is about the count of groups, and
  `PartsFill` and `PartsOverfill` count an even division by injections from the pairs
  (group, number), because induction is out of reach.
- `ChargesFollowKeys` and `ChargesAreCovered`: `Spec => []ChargedGroupOwnsKey` and
  `=> []NeverOvercharged`. The first needs that a rebuild forgets which requests are of
  this round; the second that a removal takes at most what the removed lease was
  charged, and never raises a budget.
- `RebuildsFindGroups`: in every reachable state with usable keys there is a rotation
  to install. `Rebuild` asks for one by what it must be, and the theorem shows that this
  holds up no rebuild.

`KeyPartitionProofs`:

- `RotationExists`: any finite set of keys has an even division that no even division
  beats and that is in rotation order. A division is even because `EvenExists` numbers
  the places of the groups and the keys alike; among the even ones the smallest spread,
  then the smallest variance and then the smallest sum of each total times its position
  is taken. If two groups were out of order, exchanging them would keep the score
  (`SwapKeeps`) and lower that sum (`SwapLightens`).
- The lemmas below it are shared with the other modules. `SumOver` is a cardinality, so
  that sums split over disjoint sets (`SumSplits`) and follow a bijection (`SumMoves`)
  without induction. `ScoreMoves` and `RenumberedScore` say that a score does not
  depend on the order of the groups, `BetterIsOrder` that scores are ordered, and
  `WithinIsEven` and `EvenIsWithin` that the even divisions are, but for the numbers of
  the groups, those that fit the capacities.

`KeyPartitionSearchProofs`, for any number of keys, credits and group size:

- `SearchFindsOptimum`: `Spec => []SearchIsOptimal`. The invariant is `SearchInv`. A
  placing is any function from the keys to the buckets within the capacities.
  `BucketsHoldPlaced` says that the buckets hold what the calls on the stack have
  placed, `BestIsPlacing` that the best is the buckets of some placing. `BestOfPassed`
  is the heart: every placing that comes before the position of the search, in the
  order in which an unpruned search would try them, is not better than the best.
  A step down or a return passes nothing new that is not already covered. The score of
  a complete placing covers that placing. A skipped bucket passes all placings that
  use it: a full one is in no placing (`FullIsNoLoss`), and for an equivalent one
  (`EquivalentIsNoLoss`) exchanging it with the earlier bucket of the same capacity,
  fill and total, for the keys still to come, turns the placing into one that was
  passed before and has the same score. At the end every placing is passed, and every
  even division is a placing under other numbers (`EvenIsPlacing`).

`ProxyCallsProofs`, with the invariant `ProxyInv`:

- `ProxyTypeCorrect`, `LeasesHaveHandlers`, `AttemptsAreDistinct`, `HoldsHaveWayOut`:
  `ProxySafety =>` the invariants of the runs. `LeaseHasHandler` lets one kind of lease go
  unresolved, that of a research whose request had no answer, and says who has it
  instead. Two parts strengthen the invariants. `StagesFit`
  says how many leases a call has in which stage: without it a second 429 could lead
  to a third attempt. `TriedExcluded` says that a research excludes exactly one key
  for every attempt it has made, the key it was given, so that a further attempt is on
  another key and there are no more attempts than keys.
- `ProxyUsesPool`: `ProxySafety => Spec`; `ProxyBooks` states four of the theorems
  about `KeyPool` for the pool behind the proxy.

`RefreshThrottleProofs`, with the invariant `ThrottleInv`:

- `ThrottleTypeCorrect`, `FloorsHoldSlots`, `FloorBreakersAreStragglers`:
  `ThrottleSafety =>` the invariants of the run. An entry point picks keys by
  `refreshAt` alone; `SlotRespectsFloor` is what makes that enough, and it is what the
  step of `Pick` needs for `OnlyStragglersBreakFloor`. `StartupAlone` keeps the
  startup sweep, which picks keys without asking, apart from the others.

Only model-checked: `SearchReturns`, `RequestsFinish`, `HoldsSettle`, `SweepEnds` and
`KeysRefreshed`, since liveness under fairness is out of the prover's reach.

## Not modelled, and the plan

What was planned is modelled: the pool and the ledger it implements, the division of
keys, the coordinator, the refresh throttle, the proxy and its research tasks, and
every safety property of their runs is proved.

Left open in the model, so that it allows more than the code does:

- `effectiveUsage` and `parseRetryAfter` of the usage client: any snapshot and any
  positive Retry-After may come. That a snapshot reports the binding one of the quotas
  of the key and of the account (CONTEXT.md: every key has an account of its own) is
  arithmetic of one function, which its unit tests reach.
- which of two overlapping answers to `/usage` is stored last: nothing in the code
  orders them, and no property relies on an order.
- the TTL of research mappings, and the moment at which a poll is made.

Left out, because they keep no state that another part reads:

- progress notifications and JSON-RPC of the MCP endpoint: the progress of a call is a
  local variable of one goroutine;
- the HTML of the monitor, and the counters and histories it shows; what taking the
  snapshot changes in the pool is `MonitorSnapshot`;
- the parsing and validation of the configuration, whose result is the assumptions on
  the constants (a byte size so large that its multiplication overflows is a hazard
  of that code, and no model is needed to see it);
- authentication, the body limit, the copying of headers, command line, logging;
- shutdown: nothing is persisted, so that a restart is a new behaviour from `Init`.

What could follow: a clock in `ProxyCalls` that orders the TTL of a mapping against
that of its timer, and a composition of `RefreshThrottle` with `KeyPool` that ties a
snapshot to the request that fetched it, to ask how old a stored snapshot can be.
