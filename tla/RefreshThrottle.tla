---------------------------- MODULE RefreshThrottle ----------------------------
(***************************************************************************)
(* When a key's usage is fetched from Tavily: the slots and the throttle   *)
(* of internal/pool/pool.go, and the entry points that ask them: the sweep *)
(* at startup and the refresh loop (cmd/tvlink/main.go), the sweep after a *)
(* rebuild (internal/pool/coordinator.go) and the settlement of a research *)
(* task (internal/proxy/research.go).                                      *)
(*                                                                         *)
(* Pool.mu makes the question "is this key due" and the record of an       *)
(* attempt atomic, each on its own.  Between the two lies a request to     *)
(* Tavily, and for a batch one request after the other.                    *)
(*                                                                         *)
(* refreshAt and refreshFloor are kept as the time that is left until      *)
(* them, 0 once they have passed, so that the clock need not be bounded.   *)
(* A tick is longer than the HTTP timeout of a request, than the budget of *)
(* a sweep and than the longest sleep of the loop.                         *)
(***************************************************************************)
EXTENDS Integers, FiniteSets

CONSTANTS
  Keys,           \* the configured Tavily keys
  Settlements,    \* research tasks that may be settled at the same time
  Grouping,       \* whether key groups are configured
  Period,         \* usage_refresh_interval
  Jitter,         \* bound of every random offset
  SuccessFloor,   \* refreshSuccessFloor
  RetryBackoff,   \* refreshRetryBackoff
  RateFloor,      \* refreshRateFloor
  RetryAfters     \* what parseRetryAfter makes of the header of a 429

Entries == {"startup", "loop", "sweep"} \cup Settlements

ASSUME KeysAssumption == IsFiniteSet(Keys) /\ Keys # {}
ASSUME SettlementsAssumption ==
  Settlements \cap {"startup", "loop", "sweep"} = {}
ASSUME DurationsAssumption ==
  /\ Jitter \in Nat
  /\ RetryBackoff \in Nat /\ RateFloor \in Nat
  /\ RetryAfters \subseteq Nat \ {0}
\* config.validate accepts no interval below its default of 90 seconds, and a
\* success keeps a key for one minute.
ASSUME PeriodAssumption ==
  SuccessFloor \in Nat /\ Period \in Nat /\ SuccessFloor <= Period
ASSUME GroupingAssumption == Grouping \in BOOLEAN

VARIABLES
  serving,      \* main has started the refresh loop
  refreshIn,    \* per key: time left until keyState.refreshAt
  floorIn,      \* per key: time left until keyState.refreshFloor
  running,      \* the entry points that are refreshing their due keys
  batch,        \* per entry: the keys it still has to send a request for
  request,      \* per entry: the key whose request is out, as a set
  late,         \* the entries whose request is out since an earlier tick
  rebuilding,   \* a request has rebuilt the groups and will call refreshAsync
  refreshing,   \* Coordinator.refreshing
  looked,       \* the loop has asked for due keys in this tick
  stragglers    \* history: the entries that had a key in hand when its floor was set

throttle == <<refreshIn, floorIn>>
entries  == <<running, batch, request, late>>
vars == <<serving, refreshIn, floorIn, running, batch, request, late, rebuilding,
          refreshing, looked, stragglers>>

Larger(a, b) == IF a >= b THEN a ELSE b
Less(a, b) == IF a >= b THEN a - b ELSE 0

----------------------------------------------------------------------------
(* The schedule, kept by the pool.                                          *)

\* Mutant: a key is refreshed whenever somebody asks.
DueAnyTime == Keys

\* Mutant: a key is due only until its first attempt.
DueOnce == {k \in Keys : ~serving}

\* DueKeys and Refreshable
Due == {k \in Keys : refreshIn[k] = 0}

\* Mutant: a new slot may lie before the floor.
SlotAtWish(k, wish) == wish

\* scheduleRefreshLocked
SlotAt(k, wish) == Larger(wish, floorIn[k])

\* When slot i of n begins, give or take the random offsets.
Wishes(i, n) ==
  LET offset == (i - 1) * (Period \div n)
  IN  Less(offset, Jitter)..(offset + Jitter)

\* The ways to give the keys ks n slots and leave none empty.
Slotted(ks, n) == {slot \in [ks -> 1..n] : \A i \in 1..n : \E k \in ks : slot[k] = i}

\* A group of the rotation has one slot, and a key outside the groups keeps the
\* time it has; without groups every key has a slot of its own.
Layouts ==
  Slotted(Keys, Cardinality(Keys))
    \cup IF Grouping
         THEN UNION {Slotted(ks, n) : ks \in SUBSET Keys, n \in 1..Cardinality(Keys)}
         ELSE {}

\* rescheduleRefreshesLocked
RescheduleRefreshes ==
  \E slot \in Layouts :
    \E wish \in [DOMAIN slot -> 0..(Period + Jitter)] :
      /\ \A k \in DOMAIN slot :
           wish[k] \in Wishes(slot[k], Cardinality({slot[h] : h \in DOMAIN slot}))
      /\ refreshIn' = [k \in Keys |-> IF k \in DOMAIN slot THEN SlotAt(k, wish[k])
                                      ELSE refreshIn[k]]
      /\ UNCHANGED floorIn

\* RecordRefreshAttempt: the next attempt in t, none before the floor f.
Record(k, f, t) ==
  /\ floorIn' = [floorIn EXCEPT ![k] = f]
  /\ refreshIn' = [refreshIn EXCEPT ![k] = t]
  /\ stragglers' = [stragglers EXCEPT ![k] =
                      {e \in Entries : k \in batch'[e] \cup request'[e]}]

\* An attempt that never was a success nor a 429.
RecordFailure(k) == Record(k, RetryBackoff, RetryBackoff)

RecordRefreshAttempt(k) ==
  \/ \E j \in 0..Jitter : Record(k, SuccessFloor, Period + j)
  \/ \E d \in RetryAfters : Record(k, Larger(d, RateFloor), Larger(d, RateFloor))
  \/ RecordFailure(k)

----------------------------------------------------------------------------
(* The entry points.                                                        *)

Init ==
  /\ serving = FALSE
  /\ refreshIn = [k \in Keys |-> 0]
  /\ floorIn = [k \in Keys |-> 0]
  /\ running = {"startup"}
  /\ batch = [e \in Entries |-> IF e = "startup" THEN Keys ELSE {}]
  /\ request = [e \in Entries |-> {}]
  /\ late = {}
  /\ rebuilding = FALSE
  /\ refreshing = FALSE
  /\ looked = FALSE
  /\ stragglers = [k \in Keys |-> {}]

\* An entry point sets out to refresh ks.
Pick(e, ks) ==
  /\ running' = running \cup {e}
  /\ batch' = [batch EXCEPT ![e] = ks]
  /\ UNCHANGED <<request, late>>

\* refreshLoop wakes up and asks for the due keys.
LoopWakes ==
  /\ serving
  /\ "loop" \notin running
  /\ Pick("loop", Due)
  /\ looked' = TRUE
  /\ UNCHANGED <<serving, throttle, rebuilding, refreshing, stragglers>>

\* RebuildGroups, called by Coordinator.SelectFor under rebuildMu.
RebuildGroups ==
  /\ serving /\ Grouping
  /\ ~rebuilding
  /\ rebuilding' = TRUE
  /\ RescheduleRefreshes
  /\ UNCHANGED <<serving, entries, refreshing, looked, stragglers>>

\* refreshAsync: one background sweep at a time.
RefreshAsync ==
  /\ rebuilding
  /\ rebuilding' = FALSE
  /\ refreshing' = TRUE
  /\ UNCHANGED <<serving, throttle, entries, looked, stragglers>>

\* The goroutine of refreshAsync asks for the due keys.
SweepStarts ==
  /\ refreshing
  /\ "sweep" \notin running
  /\ Pick("sweep", Due)
  /\ UNCHANGED <<serving, throttle, rebuilding, refreshing, looked, stragglers>>

\* settleResearch: a throttled key is left to its next slot.
Settle(e, k) ==
  /\ serving
  /\ e \notin running
  /\ k \in Due
  /\ Pick(e, {k})
  /\ UNCHANGED <<serving, throttle, rebuilding, refreshing, looked, stragglers>>

\* RefreshUsage sends the request for the next key of the batch; the order of
\* the configuration is left open.
Send(e, k) ==
  /\ k \in batch[e]
  /\ request[e] = {}
  /\ batch' = [batch EXCEPT ![e] = @ \ {k}]
  /\ request' = [request EXCEPT ![e] = {k}]
  /\ UNCHANGED <<serving, throttle, running, late, rebuilding, refreshing, looked,
                 stragglers>>

\* Tavily has answered, or the request has failed: the attempt is recorded.
Answer(e, k) ==
  /\ k \in request[e]
  /\ request' = [request EXCEPT ![e] = {}]
  /\ late' = late \ {e}
  /\ UNCHANGED <<serving, running, batch, rebuilding, refreshing, looked>>
  /\ RecordRefreshAttempt(k)

\* The budget of the sweep is used up, or the client of the research is gone:
\* http.Client.Do fails at once, and RefreshUsage records a failed attempt.
Abort(e, k) ==
  /\ e \notin {"startup", "loop"}
  /\ k \in batch[e]
  /\ request[e] = {}
  /\ batch' = [batch EXCEPT ![e] = @ \ {k}]
  /\ UNCHANGED <<serving, running, request, late, rebuilding, refreshing, looked>>
  /\ RecordFailure(k)

\* Mutant: the last answer is not waited for.
FinishedSending(e) == e \in running /\ batch[e] = {}

Finished(e) == e \in running /\ batch[e] = {} /\ request[e] = {}

\* Mutant: nobody clears the flag.
FlagKept(e) == refreshing

\* The flag after entry e has ended: the sweep stores FALSE on every return.
FlagAfter(e) == IF e = "sweep" THEN FALSE ELSE refreshing

\* An entry has no keys left.
Finish(e) ==
  /\ e # "startup"
  /\ Finished(e)
  /\ running' = running \ {e}
  /\ refreshing' = FlagAfter(e)
  /\ UNCHANGED <<serving, throttle, batch, request, late, rebuilding, looked,
                 stragglers>>

\* main, once the startup sweep is over: the first slots, then the loop and the
\* listener.
Boot ==
  /\ Finished("startup")
  /\ running' = {}
  /\ serving' = TRUE
  /\ RescheduleRefreshes
  /\ UNCHANGED <<batch, request, late, rebuilding, refreshing, looked, stragglers>>

\* Time passes.  A running entry point spends it waiting for Tavily and never
\* longer than the HTTP timeout, and the loop wakes once per tick at least.
Tick ==
  /\ late = {}
  /\ \A e \in running : request[e] # {}
  /\ ~rebuilding
  /\ refreshing => "sweep" \in running
  /\ serving => "loop" \in running \/ looked
  /\ refreshIn' = [k \in Keys |-> Less(refreshIn[k], 1)]
  /\ floorIn' = [k \in Keys |-> Less(floorIn[k], 1)]
  /\ late' = running
  /\ looked' = FALSE
  /\ stragglers' = [k \in Keys |-> IF floorIn[k] > 1 THEN stragglers[k] ELSE {}]
  /\ UNCHANGED <<serving, running, batch, request, rebuilding, refreshing>>

Works(e) == Finish(e) \/ \E k \in Keys : Send(e, k) \/ Answer(e, k) \/ Abort(e, k)

Next ==
  \/ Boot \/ LoopWakes \/ RebuildGroups \/ RefreshAsync \/ SweepStarts \/ Tick
  \/ \E e \in Settlements, k \in Keys : Settle(e, k)
  \/ \E e \in Entries : Works(e)

ThrottleSafety == Init /\ [][Next]_vars

\* Goroutines that can run do run, http.Client ends every request, and time goes
\* on.  Nothing is assumed of rebuilds and settlements.
ThrottleSpec ==
  /\ ThrottleSafety
  /\ \A e \in Entries : WF_vars(Works(e))
  /\ WF_vars(Boot) /\ WF_vars(LoopWakes) /\ WF_vars(RefreshAsync)
  /\ WF_vars(SweepStarts) /\ SF_vars(Tick)

----------------------------------------------------------------------------
(* Properties.                                                              *)

Pending(e) == batch[e] \cup request[e]

\* The types; an entry that does not run has no keys, and only a running entry
\* has a request out.
ThrottleTypeOK ==
  /\ serving \in BOOLEAN /\ rebuilding \in BOOLEAN
  /\ refreshing \in BOOLEAN /\ looked \in BOOLEAN
  /\ refreshIn \in [Keys -> Nat] /\ floorIn \in [Keys -> Nat]
  /\ running \subseteq Entries
  /\ late \subseteq running
  /\ batch \in [Entries -> SUBSET Keys]
  /\ request \in [Entries -> SUBSET Keys]
  /\ \A e \in Entries \ running : Pending(e) = {}
  /\ stragglers \in [Keys -> SUBSET Entries]

\* DueKeys and Refreshable look at refreshAt only.  That is enough because no
\* operation leaves it before the floor of the last attempt: a rebuild that lays
\* new slots does not, nor does a success, as long as the configured period is
\* no shorter than the floor of a success.
SlotRespectsFloor == \A k \in Keys : floorIn[k] <= refreshIn[k]

\* The question and the record are two steps, so that a key can be asked for
\* again before its floor.  By then it was already in the hands of the entry that
\* asks: no entry point picks a key afresh while its floor holds, and each of
\* them breaks a floor once at most.
OnlyStragglersBreakFloor ==
  \A k \in Keys : floorIn[k] > 0 =>
    \A e \in Entries : k \in Pending(e) => e \in stragglers[k]

\* A sweep that has begun clears the flag, whatever becomes of its requests and
\* even without a due key: the next rebuild can sweep again.
SweepEnds == refreshing ~> ~refreshing

Refreshed(k) == \E e \in Entries : Answer(e, k)

Interrupted(k) == \E e \in Settlements : Abort(e, k)

\* Every key is asked for again and again, through failures, back-offs, new slots
\* and busy entry points, unless the groups are rebuilt again and again, or
\* clients again and again leave just when their research task is settled: an
\* attempt without a request moves the slot of the key as well.
KeysRefreshed ==
  \A k \in Keys :
    \/ []<><<Refreshed(k)>>_vars
    \/ []<><<RebuildGroups>>_vars
    \/ []<><<Interrupted(k)>>_vars
=============================================================================
