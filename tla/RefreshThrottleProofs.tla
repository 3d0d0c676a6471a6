------------------------ MODULE RefreshThrottleProofs -------------------------
(***************************************************************************)
(* Proofs about RefreshThrottle: its types, and what the throttle shared   *)
(* by all entry points guarantees, for any keys, settlements and           *)
(* durations.  SlotRespectsFloor is what lets an entry point that picks a  *)
(* due key conclude that no floor of the key holds.                        *)
(***************************************************************************)
EXTENDS RefreshThrottle, TLAPS

\* Before main serves, only the startup sweep runs, and never again after; a
\* request that is late is still out.
StartupAlone ==
  /\ ~serving => running \subseteq {"startup"} /\ ~refreshing /\ ~rebuilding
  /\ serving => "startup" \notin running
  /\ \A e \in late : request[e] # {}

ThrottleInv ==
  ThrottleTypeOK /\ StartupAlone /\ SlotRespectsFloor /\ OnlyStragglersBreakFloor

LEMMA LargerIsBound ==
  ASSUME NEW a \in Nat, NEW b \in Nat
  PROVE  Larger(a, b) \in Nat /\ a <= Larger(a, b) /\ b <= Larger(a, b)
BY DEF Larger

LEMMA LessType ==
  ASSUME NEW a \in Nat
  PROVE  /\ Less(a, 1) \in Nat
         /\ Less(a, 1) > 0 <=> a > 1
         /\ \A b \in Nat : a <= b => Less(a, 1) <= Less(b, 1)
BY DEF Less

\* New slots keep their types and the floors.
LEMMA RescheduleEffect ==
  ASSUME ThrottleInv, RescheduleRefreshes
  PROVE  /\ refreshIn' \in [Keys -> Nat]
         /\ floorIn' = floorIn
         /\ \A k \in Keys : floorIn[k] <= refreshIn'[k]
<1>a. PICK slot \in Layouts :
        \E wish \in [DOMAIN slot -> 0..(Period + Jitter)] :
          refreshIn' = [k \in Keys |-> IF k \in DOMAIN slot THEN SlotAt(k, wish[k])
                                       ELSE refreshIn[k]]
  BY DEF RescheduleRefreshes
<1>1. PICK wish \in [DOMAIN slot -> 0..(Period + Jitter)] :
        refreshIn' = [k \in Keys |-> IF k \in DOMAIN slot THEN SlotAt(k, wish[k])
                                     ELSE refreshIn[k]]
  BY <1>a
<1>2. floorIn' = floorIn
  BY DEF RescheduleRefreshes
<1>3. ASSUME NEW k \in Keys
      PROVE  refreshIn'[k] \in Nat /\ floorIn[k] <= refreshIn'[k]
  <2>1. floorIn[k] \in Nat /\ refreshIn[k] \in Nat /\ floorIn[k] <= refreshIn[k]
    BY DEF ThrottleInv, ThrottleTypeOK, SlotRespectsFloor
  <2>2. CASE k \in DOMAIN slot
    <3>1. wish[k] \in Nat
      BY <2>2, PeriodAssumption, DurationsAssumption
    <3>2. SlotAt(k, wish[k]) \in Nat /\ floorIn[k] <= SlotAt(k, wish[k])
      BY <2>1, <3>1, LargerIsBound DEF SlotAt
    <3> QED BY <1>1, <2>2, <3>2
  <2>3. CASE k \notin DOMAIN slot
    BY <1>1, <2>1, <2>3
  <2> QED BY <2>2, <2>3
<1>4. refreshIn' \in [Keys -> Nat]
  BY <1>1, <1>3
<1> QED BY <1>2, <1>3, <1>4

\* A record sets a floor that is not beyond the next attempt.
LEMMA RecordBounds ==
  ASSUME NEW k \in Keys, RecordRefreshAttempt(k) \/ RecordFailure(k)
  PROVE  \E f, t \in Nat : f <= t /\ Record(k, f, t)
<1>1. CASE \E j \in 0..Jitter : Record(k, SuccessFloor, Period + j)
  <2>1. PICK j \in 0..Jitter : Record(k, SuccessFloor, Period + j)
    BY <1>1
  <2>2. SuccessFloor \in Nat /\ Period + j \in Nat /\ SuccessFloor <= Period + j
    BY PeriodAssumption, DurationsAssumption
  <2> QED BY <2>1, <2>2
<1>2. CASE \E d \in RetryAfters : Record(k, Larger(d, RateFloor), Larger(d, RateFloor))
  <2>1. PICK d \in RetryAfters : Record(k, Larger(d, RateFloor), Larger(d, RateFloor))
    BY <1>2
  <2>2. Larger(d, RateFloor) \in Nat
    BY DurationsAssumption, LargerIsBound
  <2>3. Larger(d, RateFloor) <= Larger(d, RateFloor)
    BY <2>2
  <2> QED BY <2>1, <2>2, <2>3
<1>3. CASE RecordFailure(k)
  <2>1. RetryBackoff \in Nat /\ RetryBackoff <= RetryBackoff
    BY DurationsAssumption
  <2> QED BY <1>3, <2>1 DEF RecordFailure
<1> QED BY <1>1, <1>2, <1>3 DEF RecordRefreshAttempt

\* What an entry point that records an attempt on k leaves: it gives k up, and
\* whoever else has k in hand is a straggler from now on.
LEMMA RecordKeepsInv ==
  ASSUME ThrottleInv, NEW k \in Keys, NEW e \in Entries,
         RecordRefreshAttempt(k) \/ RecordFailure(k),
         batch' \in [Entries -> SUBSET Keys], request' \in [Entries -> SUBSET Keys],
         \A d \in Entries : Pending(d)' \subseteq Pending(d),
         late' \subseteq late, \A d \in late' : request'[d] # {},
         UNCHANGED <<serving, running, rebuilding, refreshing, looked>>
  PROVE  ThrottleInv'
<1>1. PICK f \in Nat, t \in Nat : f <= t /\ Record(k, f, t)
  BY RecordBounds
<1>2. /\ floorIn' = [floorIn EXCEPT ![k] = f]
      /\ refreshIn' = [refreshIn EXCEPT ![k] = t]
      /\ stragglers' = [stragglers EXCEPT ![k] = {d \in Entries : k \in batch'[d] \cup request'[d]}]
  BY <1>1 DEF Record
<1>3. /\ floorIn \in [Keys -> Nat] /\ refreshIn \in [Keys -> Nat]
      /\ stragglers \in [Keys -> SUBSET Entries]
  BY DEF ThrottleInv, ThrottleTypeOK
<1>4. ThrottleTypeOK'
  <2>1. /\ floorIn' \in [Keys -> Nat] /\ refreshIn' \in [Keys -> Nat]
        /\ stragglers' \in [Keys -> SUBSET Entries]
    BY <1>1, <1>2, <1>3
  <2>2. \A d \in Entries \ running' : Pending(d)' = {}
    BY DEF ThrottleInv, ThrottleTypeOK
  <2> QED BY <2>1, <2>2 DEF ThrottleInv, ThrottleTypeOK
<1>5. SlotRespectsFloor'
  BY <1>1, <1>2, <1>3 DEF ThrottleInv, SlotRespectsFloor
<1>6. OnlyStragglersBreakFloor'
  <2> SUFFICES ASSUME NEW h \in Keys, floorIn'[h] > 0, NEW d \in Entries, h \in Pending(d)'
               PROVE  d \in stragglers'[h]
    BY DEF OnlyStragglersBreakFloor
  <2>1. CASE h = k
    BY <1>2, <1>3, <2>1 DEF Pending
  <2>2. CASE h # k
    BY <1>2, <1>3, <2>2 DEF ThrottleInv, OnlyStragglersBreakFloor
  <2> QED BY <2>1, <2>2
<1>7. StartupAlone'
  BY DEF ThrottleInv, StartupAlone
<1> QED BY <1>4, <1>5, <1>6, <1>7 DEF ThrottleInv

\* An entry point may pick the due keys: no floor holds for any of them.
LEMMA PickKeepsInv ==
  ASSUME ThrottleInv, NEW e \in Entries \ {"startup"}, NEW ks \in SUBSET Due,
         serving, e \notin running, Pick(e, ks), looked' \in BOOLEAN,
         UNCHANGED <<serving, throttle, rebuilding, refreshing, stragglers>>
  PROVE  ThrottleInv'
<1>1. /\ batch \in [Entries -> SUBSET Keys] /\ request \in [Entries -> SUBSET Keys]
      /\ Due \subseteq Keys
  BY DEF ThrottleInv, ThrottleTypeOK, Due
<1>2. /\ running' = running \cup {e}
      /\ batch' = [batch EXCEPT ![e] = ks]
      /\ request' = request /\ late' = late
  BY DEF Pick
<1>3. \A d \in Entries : d # e => Pending(d)' = Pending(d)
  BY <1>1, <1>2 DEF Pending
<1>4. Pending(e)' = ks
  BY <1>1, <1>2 DEF Pending, ThrottleInv, ThrottleTypeOK
<1>5. ThrottleTypeOK'
  <2>1. batch' \in [Entries -> SUBSET Keys]
    BY <1>1, <1>2
  <2>2. \A d \in Entries \ running' : Pending(d)' = {}
    BY <1>2, <1>3 DEF ThrottleInv, ThrottleTypeOK
  <2> QED BY <1>2, <2>1, <2>2 DEF ThrottleInv, ThrottleTypeOK, throttle
<1>6. SlotRespectsFloor'
  BY DEF ThrottleInv, SlotRespectsFloor, throttle
<1>7. OnlyStragglersBreakFloor'
  <2> SUFFICES ASSUME NEW k \in Keys, floorIn[k] > 0, NEW d \in Entries, k \in Pending(d)'
               PROVE  d \in stragglers[k]
    BY DEF OnlyStragglersBreakFloor, throttle
  <2>1. k \notin ks
    <3>1. floorIn[k] \in Nat /\ floorIn[k] <= refreshIn[k]
      BY DEF ThrottleInv, ThrottleTypeOK, SlotRespectsFloor
    <3>2. refreshIn[k] # 0
      BY <3>1
    <3> QED BY <3>2 DEF Due
  <2>2. d # e
    BY <1>4, <2>1
  <2> QED BY <1>3, <2>2 DEF ThrottleInv, OnlyStragglersBreakFloor
<1>8. StartupAlone'
  BY <1>2 DEF ThrottleInv, StartupAlone
<1> QED BY <1>5, <1>6, <1>7, <1>8 DEF ThrottleInv

LEMMA InitKeepsInv == Init => ThrottleInv
<1> SUFFICES ASSUME Init PROVE ThrottleInv
  OBVIOUS
<1>1. /\ refreshIn \in [Keys -> Nat] /\ floorIn \in [Keys -> Nat]
      /\ batch \in [Entries -> SUBSET Keys] /\ request \in [Entries -> SUBSET Keys]
      /\ stragglers \in [Keys -> SUBSET Entries]
  BY DEF Init
<1>2. running = {"startup"} /\ running \subseteq Entries
  BY DEF Init, Entries
<1>3. \A e \in Entries \ running : Pending(e) = {}
  BY <1>2 DEF Init, Pending
<1>4. \A k \in Keys : floorIn[k] = 0 /\ refreshIn[k] = 0
  BY DEF Init
<1>5. ThrottleTypeOK /\ StartupAlone
  BY <1>1, <1>2, <1>3 DEF Init, ThrottleTypeOK, StartupAlone
<1>6. SlotRespectsFloor /\ OnlyStragglersBreakFloor
  BY <1>4 DEF SlotRespectsFloor, OnlyStragglersBreakFloor
<1> QED BY <1>5, <1>6 DEF ThrottleInv

\* The last step of the startup sweep: nobody else has run so far.
LEMMA BootKeepsInv ==
  ASSUME ThrottleInv, Boot
  PROVE  ThrottleInv'
<1>1. /\ refreshIn' \in [Keys -> Nat] /\ floorIn' = floorIn
      /\ \A k \in Keys : floorIn[k] <= refreshIn'[k]
  BY RescheduleEffect DEF Boot
<1>2. "startup" \in running /\ Pending("startup") = {}
  BY DEF Boot, Finished, Pending
<1>3. running = {"startup"} /\ ~refreshing /\ ~rebuilding
  BY <1>2 DEF ThrottleInv, StartupAlone
<1>4. \A d \in Entries : Pending(d) = {}
  BY <1>2, <1>3 DEF ThrottleInv, ThrottleTypeOK
<1>5. late = {}
  BY <1>2, <1>3 DEF ThrottleInv, ThrottleTypeOK, StartupAlone, Pending
<1>6. \A d \in Entries : Pending(d)' = {}
  BY <1>4 DEF Boot, Pending
<1>7. ThrottleTypeOK'
  BY <1>1, <1>5, <1>6 DEF Boot, ThrottleInv, ThrottleTypeOK
<1>8. StartupAlone' /\ SlotRespectsFloor' /\ OnlyStragglersBreakFloor'
  BY <1>1, <1>5, <1>6 DEF Boot, StartupAlone, SlotRespectsFloor, OnlyStragglersBreakFloor
<1> QED BY <1>7, <1>8 DEF ThrottleInv

LEMMA RebuildGroupsKeepsInv ==
  ASSUME ThrottleInv, RebuildGroups
  PROVE  ThrottleInv'
<1>1. /\ refreshIn' \in [Keys -> Nat] /\ floorIn' = floorIn
      /\ \A k \in Keys : floorIn[k] <= refreshIn'[k]
  BY RescheduleEffect DEF RebuildGroups
<1>2. \A d \in Entries : Pending(d)' = Pending(d)
  BY DEF RebuildGroups, entries, Pending
<1> QED BY <1>1, <1>2 DEF RebuildGroups, entries, ThrottleInv, ThrottleTypeOK, StartupAlone,
                          SlotRespectsFloor, OnlyStragglersBreakFloor

LEMMA RefreshAsyncKeepsInv ==
  ASSUME ThrottleInv, RefreshAsync
  PROVE  ThrottleInv'
<1>1. \A d \in Entries : Pending(d)' = Pending(d)
  BY DEF RefreshAsync, entries, Pending
<1>2. serving
  BY DEF ThrottleInv, StartupAlone, RefreshAsync
<1> QED BY <1>1, <1>2 DEF RefreshAsync, entries, throttle, ThrottleInv, ThrottleTypeOK,
                   StartupAlone, SlotRespectsFloor, OnlyStragglersBreakFloor

LEMMA SendKeepsInv ==
  ASSUME ThrottleInv, NEW e \in Entries, NEW k \in Keys, Send(e, k)
  PROVE  ThrottleInv'
<1>1. batch \in [Entries -> SUBSET Keys] /\ request \in [Entries -> SUBSET Keys]
  BY DEF ThrottleInv, ThrottleTypeOK
<1>2. /\ batch' = [batch EXCEPT ![e] = @ \ {k}]
      /\ request' = [request EXCEPT ![e] = {k}]
      /\ k \in batch[e] /\ request[e] = {}
  BY DEF Send
<1>3. /\ batch' \in [Entries -> SUBSET Keys] /\ request' \in [Entries -> SUBSET Keys]
      /\ \A d \in Entries : request[d] # {} => request'[d] # {}
  BY <1>1, <1>2
<1>4. \A d \in Entries : Pending(d)' = Pending(d)
  BY <1>1, <1>2 DEF Pending
<1>5. late \subseteq Entries
  BY DEF ThrottleInv, ThrottleTypeOK
<1> QED BY <1>3, <1>4, <1>5 DEF Send, throttle, ThrottleInv, ThrottleTypeOK, StartupAlone,
                           SlotRespectsFloor, OnlyStragglersBreakFloor

LEMMA AnswerKeepsInv ==
  ASSUME ThrottleInv, NEW e \in Entries, NEW k \in Keys, Answer(e, k)
  PROVE  ThrottleInv'
<1>1. batch \in [Entries -> SUBSET Keys] /\ request \in [Entries -> SUBSET Keys]
  BY DEF ThrottleInv, ThrottleTypeOK
<1>2. /\ request' = [request EXCEPT ![e] = {}] /\ batch' = batch
      /\ late' = late \ {e}
  BY DEF Answer
<1>3. batch' \in [Entries -> SUBSET Keys] /\ request' \in [Entries -> SUBSET Keys]
  BY <1>1, <1>2
<1>4. \A d \in Entries : Pending(d)' \subseteq Pending(d)
  BY <1>1, <1>2 DEF Pending
<1>5. late' \subseteq late /\ \A d \in late' : request'[d] # {}
  BY <1>1, <1>2 DEF ThrottleInv, ThrottleTypeOK, StartupAlone
<1> QED BY <1>3, <1>4, <1>5, RecordKeepsInv DEF Answer

LEMMA AbortKeepsInv ==
  ASSUME ThrottleInv, NEW e \in Entries, NEW k \in Keys, Abort(e, k)
  PROVE  ThrottleInv'
<1>1. batch \in [Entries -> SUBSET Keys] /\ request \in [Entries -> SUBSET Keys]
  BY DEF ThrottleInv, ThrottleTypeOK
<1>2. batch' = [batch EXCEPT ![e] = @ \ {k}] /\ request' = request /\ late' = late
  BY DEF Abort
<1>3. batch' \in [Entries -> SUBSET Keys] /\ request' \in [Entries -> SUBSET Keys]
  BY <1>1, <1>2
<1>4. \A d \in Entries : Pending(d)' \subseteq Pending(d)
  BY <1>1, <1>2 DEF Pending
<1>5. late' \subseteq late /\ \A d \in late' : request'[d] # {}
  BY <1>2 DEF ThrottleInv, StartupAlone
<1> QED BY <1>3, <1>4, <1>5, RecordKeepsInv DEF Abort

LEMMA FinishKeepsInv ==
  ASSUME ThrottleInv, NEW e \in Entries, Finish(e)
  PROVE  ThrottleInv'
<1>1. /\ running' = running \ {e} /\ batch[e] = {} /\ request[e] = {}
      /\ e # "startup" /\ e \in running
      /\ UNCHANGED <<serving, refreshIn, floorIn, batch, request, late, rebuilding, looked,
                     stragglers>>
  BY DEF Finish, Finished, throttle
<1>2. serving
  BY <1>1 DEF ThrottleInv, StartupAlone
<1>3. refreshing' \in BOOLEAN
  BY DEF Finish, FlagAfter, ThrottleInv, ThrottleTypeOK
<1>4. \A d \in Entries : Pending(d)' = Pending(d)
  BY <1>1 DEF Pending
<1>5. \A d \in Entries \ running' : Pending(d)' = {}
  BY <1>1, <1>4 DEF ThrottleInv, ThrottleTypeOK, Pending
<1>6. late' \subseteq running'
  BY <1>1 DEF ThrottleInv, ThrottleTypeOK, StartupAlone
<1>7. ThrottleTypeOK'
  BY <1>1, <1>3, <1>5, <1>6 DEF ThrottleInv, ThrottleTypeOK
<1>8. StartupAlone' /\ SlotRespectsFloor' /\ OnlyStragglersBreakFloor'
  BY <1>1, <1>2, <1>4 DEF ThrottleInv, StartupAlone, SlotRespectsFloor,
                          OnlyStragglersBreakFloor
<1> QED BY <1>7, <1>8 DEF ThrottleInv

\* The clock takes a slot and a floor down together, and forgets who was late
\* when the floor is over.
LEMMA TickKeepsInv ==
  ASSUME ThrottleInv, Tick
  PROVE  ThrottleInv'
<1>1. /\ refreshIn' = [k \in Keys |-> Less(refreshIn[k], 1)]
      /\ floorIn' = [k \in Keys |-> Less(floorIn[k], 1)]
      /\ stragglers' = [k \in Keys |-> IF floorIn[k] > 1 THEN stragglers[k] ELSE {}]
  BY DEF Tick
<1>2. \A k \in Keys : /\ refreshIn[k] \in Nat /\ floorIn[k] \in Nat
                      /\ floorIn[k] <= refreshIn[k] /\ stragglers[k] \subseteq Entries
  BY DEF ThrottleInv, ThrottleTypeOK, SlotRespectsFloor
<1>3. \A k \in Keys : /\ refreshIn'[k] \in Nat /\ floorIn'[k] \in Nat
                      /\ floorIn'[k] <= refreshIn'[k]
                      /\ floorIn'[k] > 0 <=> floorIn[k] > 1
  BY <1>1, <1>2, LessType
<1>4. \A d \in Entries : Pending(d)' = Pending(d)
  BY DEF Tick, Pending
<1>5. /\ refreshIn' \in [Keys -> Nat] /\ floorIn' \in [Keys -> Nat]
      /\ stragglers' \in [Keys -> SUBSET Entries]
  BY <1>1, <1>2, <1>3
<1>6. ThrottleTypeOK'
  BY <1>4, <1>5 DEF Tick, ThrottleInv, ThrottleTypeOK
<1>7. StartupAlone'
  BY DEF Tick, ThrottleInv, StartupAlone
<1>8. SlotRespectsFloor'
  BY <1>3 DEF SlotRespectsFloor
<1>9. OnlyStragglersBreakFloor'
  <2> SUFFICES ASSUME NEW k \in Keys, floorIn'[k] > 0, NEW d \in Entries, k \in Pending(d)'
               PROVE  d \in stragglers'[k]
    BY DEF OnlyStragglersBreakFloor
  <2>1. floorIn[k] > 1 /\ floorIn[k] > 0 /\ stragglers'[k] = stragglers[k]
    BY <1>1, <1>2, <1>3
  <2> QED BY <1>4, <2>1 DEF ThrottleInv, OnlyStragglersBreakFloor
<1> QED BY <1>6, <1>7, <1>8, <1>9 DEF ThrottleInv

LEMMA StepKeepsInv == ThrottleInv /\ [Next]_vars => ThrottleInv'
<1> SUFFICES ASSUME ThrottleInv, [Next]_vars
             PROVE  ThrottleInv'
  OBVIOUS
<1>1. CASE LoopWakes
  <2>1. "loop" \in Entries \ {"startup"} /\ Due \in SUBSET Due
    BY DEF Entries
  <2>2. looked' \in BOOLEAN /\ serving /\ "loop" \notin running
    BY <1>1 DEF LoopWakes
  <2> QED BY <1>1, <2>1, <2>2, PickKeepsInv DEF LoopWakes
<1>2. CASE SweepStarts
  <2>1. "sweep" \in Entries \ {"startup"} /\ Due \in SUBSET Due
    BY DEF Entries
  <2>2. looked' \in BOOLEAN /\ serving /\ "sweep" \notin running
    BY <1>2 DEF SweepStarts, ThrottleInv, ThrottleTypeOK, StartupAlone
  <2> QED BY <1>2, <2>1, <2>2, PickKeepsInv DEF SweepStarts
<1>3. CASE \E e \in Settlements, k \in Keys : Settle(e, k)
  <2>1. PICK e \in Settlements, k \in Keys : Settle(e, k)
    BY <1>3
  <2>2. e \in Entries \ {"startup"} /\ {k} \in SUBSET Due
    BY <2>1, SettlementsAssumption DEF Settle, Entries
  <2>3. looked' \in BOOLEAN /\ serving /\ e \notin running
    BY <2>1 DEF Settle, ThrottleInv, ThrottleTypeOK
  <2> QED BY <2>1, <2>2, <2>3, PickKeepsInv DEF Settle
<1>4. CASE \E e \in Entries : Works(e)
  BY <1>4, FinishKeepsInv, SendKeepsInv, AnswerKeepsInv, AbortKeepsInv DEF Works
<1>5. CASE UNCHANGED vars
  BY <1>5 DEF vars, ThrottleInv, ThrottleTypeOK, StartupAlone, SlotRespectsFloor,
              OnlyStragglersBreakFloor, Pending
<1> QED BY <1>1, <1>2, <1>3, <1>4, <1>5, BootKeepsInv, RebuildGroupsKeepsInv,
           RefreshAsyncKeepsInv, TickKeepsInv DEF Next

LEMMA ThrottleInvHolds == ThrottleSafety => []ThrottleInv
BY InitKeepsInv, StepKeepsInv, PTL DEF ThrottleSafety

\* Timers are never negative, and only a running entry point has a key in hand or
\* a request out, whatever the order of boots, sweeps, rebuilds and settlements.
THEOREM ThrottleTypeCorrect == ThrottleSafety => []ThrottleTypeOK
BY ThrottleInvHolds, PTL DEF ThrottleInv

\* No operation of the pool leaves a key's next attempt before the floor that the
\* last one set: rescheduleRefreshesLocked and RecordRefreshAttempt keep to it.
THEOREM FloorsHoldSlots == ThrottleSafety => []SlotRespectsFloor
BY ThrottleInvHolds, PTL DEF ThrottleInv

\* DueKeys and Refreshable hand out no key whose floor holds: whoever breaks a
\* floor had the key in hand before the attempt that set it was recorded.
THEOREM FloorBreakersAreStragglers == ThrottleSafety => []OnlyStragglersBreakFloor
BY ThrottleInvHolds, PTL DEF ThrottleInv
=============================================================================
