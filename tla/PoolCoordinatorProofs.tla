------------------------ MODULE PoolCoordinatorProofs ------------------------
(***************************************************************************)
(* Proofs about PoolCoordinator: its steps are steps of KeyPool or none of *)
(* them, so that every theorem about KeyPool holds of the pool under any   *)
(* number of concurrent requests, and the rebuild mutex does what it is    *)
(* there for.                                                              *)
(***************************************************************************)
EXTENDS PoolCoordinator, KeyPoolSafetyProofs

\* The mutex clause of CoordTypeOK is what makes RebuildsOnlyRoundsFoundOver
\* inductive: a rebuild forgets who found the round over, and nobody else may be
\* about to rebuild then.  The types of the pool give the clock.
CoordInv == TypeOK /\ CoordTypeOK /\ RebuildsOnlyRoundsFoundOver

Holding == {"second", "rebuild", "third"}

Calls(t) == [stage : Stages, at : 0..t, selection : Selections]

\* The clock only moves forward.
LEMMA ClockGrows ==
  ASSUME TypeOK, [Next]_vars
  PROVE  now \in Nat /\ now' \in Nat /\ now <= now'
<1>1. now \in Nat /\ now' \in Nat
  BY TypeStep DEF TypeOK
<1>2. CASE now' = now
  BY <1>1, <1>2
<1>3. CASE Tick
  BY <1>1, <1>3 DEF Tick
<1>4. CASE Resolve
  BY <1>2, <1>4 DEF Resolve, ResolveRateLimited, ResolveQuotaRejected,
                    ResolveClientError, ResolveSuccess, ResolveOther
<1>5. CASE Select
  BY <1>2, <1>5 DEF Select, Admit, Refuse
<1>6. CASE Boot
  BY <1>2, <1>6 DEF Boot, Rebuild
<1>7. CASE \E k \in Keys, u \in UsageSnapshots : UpdateUsage(k, u)
  BY <1>2, <1>7 DEF UpdateUsage
<1>8. CASE \E r \in Requests : SettleResearch(r)
  BY <1>2, <1>8 DEF SettleResearch
<1>9. CASE \E t \in 0..now : RebuildGroups(t)
  BY <1>2, <1>9 DEF RebuildGroups, Rebuild
<1>10. CASE MonitorSnapshot \/ UNCHANGED vars
  BY <1>2, <1>10 DEF MonitorSnapshot, vars
<1> QED BY <1>3, <1>4, <1>5, <1>6, <1>7, <1>8, <1>9, <1>10 DEF Next

\* A call's clock reading and selection are ones the pool may be asked with.
LEMMA CallType ==
  ASSUME CoordTypeOK, NEW r \in DOMAIN call
  PROVE  /\ r \in Requests
         /\ call[r].at \in 0..now
         /\ call[r].selection \in Selections
BY DEF CoordTypeOK

LEMMA SelectIsPoolStep ==
  ASSUME CoordTypeOK, NEW r \in DOMAIN call,
         Obtains(r) \/ FindsNoKey(r) \/ FindsRoundOver(r)
  PROVE  [Next]_vars
<1>1. /\ r \in Requests /\ call[r].at \in 0..now /\ call[r].selection \in Selections
  BY CallType
<1>2. CASE Obtains(r)
  BY <1>1, <1>2 DEF Obtains, Next, Select
<1>3. CASE Refuse(call[r].at, call[r].selection)
  BY <1>1, <1>3 DEF Next, Select
<1>4. CASE UNCHANGED vars
  BY <1>4
<1> QED BY <1>2, <1>3, <1>4 DEF FindsNoKey, FindsRoundOver

\* Every step of the coordinator is a step of the pool or leaves it alone.
LEMMA CoordIsPoolStep ==
  ASSUME CoordTypeOK, [CoordNext]_coordVars
  PROVE  [Next]_vars
<1>1. CASE \E r \in Requests, s \in Selections : Begin(r, s)
  BY <1>1 DEF Begin
<1>2. CASE \E r \in Requests : SelectFor(r)
  <2>1. PICK r \in Requests : SelectFor(r)
    BY <1>2
  <2>2. r \in DOMAIN call
    BY <2>1 DEF SelectFor, FirstSelect, LockRebuild, SecondSelect, RebuildRound, ThirdSelect, At
  <2>3. CASE FirstSelect(r) \/ SecondSelect(r) \/ ThirdSelect(r)
    BY <2>2, <2>3, SelectIsPoolStep DEF FirstSelect, SecondSelect, ThirdSelect
  <2>4. CASE LockRebuild(r)
    BY <2>4 DEF LockRebuild
  <2>5. CASE RebuildRound(r)
    BY <2>2, <2>5, CallType DEF RebuildRound, Next
  <2> QED BY <2>1, <2>3, <2>4, <2>5 DEF SelectFor
<1>3. CASE Elsewhere
  BY <1>3 DEF Elsewhere, Next
<1>4. CASE UNCHANGED coordVars
  BY <1>4 DEF coordVars
<1> QED BY <1>1, <1>2, <1>3, <1>4 DEF CoordNext

\* What moving a call to another stage does to all calls.
LEMMA GotoEffect ==
  ASSUME CoordTypeOK, NEW r \in DOMAIN call, NEW stage \in Stages, Goto(r, stage),
         now \in Nat, now' \in Nat, now <= now'
  PROVE  /\ DOMAIN call' = DOMAIN call
         /\ call' \in [DOMAIN call -> Calls(now')]
         /\ \A q, st : At(q, st)' <=> IF q = r THEN st = stage ELSE At(q, st)
<1>1. call \in [DOMAIN call -> Calls(now)]
  BY DEF CoordTypeOK, Calls
<1>2. call' = [call EXCEPT ![r].stage = stage]
  BY DEF Goto
<1>3. Calls(now) \subseteq Calls(now')
  BY DEF Calls
<1>4. [call[r] EXCEPT !.stage = stage] \in Calls(now')
  BY <1>1, <1>3 DEF Calls
<1>5. DOMAIN call' = DOMAIN call /\ call' \in [DOMAIN call -> Calls(now')]
  BY <1>1, <1>2, <1>3, <1>4
<1>6. call'[r].stage = stage
  BY <1>1, <1>2 DEF Calls
<1>7. \A q \in DOMAIN call : q # r => call'[q] = call[q]
  BY <1>1, <1>2
<1> QED BY <1>5, <1>6, <1>7 DEF At

\* Whoever holds the mutex is alone in the stages that hold it.
LEMMA HolderStages ==
  ASSUME CoordTypeOK
  PROVE  \A r \in Requests : (rebuildMu = r) <=> \E st \in Holding : At(r, st)
BY DEF CoordTypeOK, Holding

LEMMA CoordInit_Inv == CoordInit => CoordInv
<1> SUFFICES ASSUME CoordInit PROVE CoordInv
  OBVIOUS
<1>1. TypeOK
  BY TypeInit DEF CoordInit
<1>2. DOMAIN call = {}
  BY DEF CoordInit
<1>3. \A r, st : ~At(r, st)
  BY <1>2 DEF At
<1>4. CoordTypeOK
  BY <1>2, <1>3, HolderAssumption DEF CoordInit, CoordTypeOK
<1> QED BY <1>1, <1>3, <1>4 DEF CoordInv, RebuildsOnlyRoundsFoundOver

\* The steps of one request, whatever they do to the pool.
LEMMA SelectForKeepsInv ==
  ASSUME CoordInv, NEW r \in Requests, SelectFor(r),
         now \in Nat, now' \in Nat, now <= now'
  PROVE  CoordTypeOK' /\ RebuildsOnlyRoundsFoundOver'
<1> USE DEF CoordInv
<1>1. PICK stage \in Stages : Goto(r, stage)
  BY DEF SelectFor, FirstSelect, LockRebuild, SecondSelect, RebuildRound, ThirdSelect, Stages
<1>2. r \in DOMAIN call
  BY DEF SelectFor, FirstSelect, LockRebuild, SecondSelect, RebuildRound, ThirdSelect, At
<1>3. foundOver' \subseteq DOMAIN call
  BY <1>2 DEF SelectFor, FirstSelect, LockRebuild, SecondSelect, RebuildRound,
              ThirdSelect, CoordTypeOK
<1>4. /\ DOMAIN call' = DOMAIN call
      /\ call' \in [DOMAIN call -> Calls(now')]
      /\ \A q, st : At(q, st)' <=> IF q = r THEN st = stage ELSE At(q, st)
  BY <1>1, <1>2, GotoEffect
<1>5. \A q \in Requests : (rebuildMu = q) <=> \E st \in Holding : At(q, st)
  BY HolderStages
<1>6. r # NoHolder /\ \A q \in Requests : q # NoHolder
  BY HolderAssumption
<1> SUFFICES /\ rebuildMu' \in Requests \cup {NoHolder}
             /\ \A q \in Requests : (rebuildMu' = q) <=> \E st \in Holding : At(q, st)'
             /\ \A q \in Requests : At(q, "rebuild")' => q \in foundOver'
  BY <1>3, <1>4 DEF CoordTypeOK, Calls, Holding, RebuildsOnlyRoundsFoundOver
<1>7. call'[r].stage = stage
  BY <1>2, <1>4 DEF At
<1>8. \A st : At(r, st) <=> st = call[r].stage
  BY <1>2 DEF At
<1>9. CASE FirstSelect(r)
  <2>1. stage \notin Holding /\ call[r].stage \notin Holding /\ rebuildMu' = rebuildMu
    <3>1. stage \in {"admitted", "refused", "waiting"}
      BY <1>2, <1>4, <1>7, <1>9 DEF FirstSelect, Goto, CoordTypeOK
    <3> QED BY <1>8, <1>9, <3>1 DEF FirstSelect, Holding
  <2>2. foundOver \subseteq foundOver'
    BY <1>9 DEF FirstSelect
  <2> QED BY <1>4, <1>5, <1>8, <2>1, <2>2 DEF Holding, CoordTypeOK, RebuildsOnlyRoundsFoundOver
<1>10. CASE LockRebuild(r)
  <2>1. stage = "second" /\ rebuildMu = NoHolder /\ rebuildMu' = r /\ foundOver' = foundOver
    BY <1>2, <1>7, <1>10 DEF LockRebuild, Goto, CoordTypeOK
  <2>2. \A q \in Requests : ~\E st \in Holding : At(q, st)
    BY <1>5, <1>6, <2>1
  <2> QED BY <1>4, <2>1, <2>2 DEF Holding, RebuildsOnlyRoundsFoundOver
<1>11. CASE SecondSelect(r)
  <2>1. rebuildMu = r
    BY <1>5, <1>11 DEF SecondSelect, Holding
  <2>2. \A q \in Requests : q # r => ~\E st \in Holding : At(q, st)
    BY <1>5, <2>1
  <2>3. \/ stage \in {"admitted", "refused"} /\ rebuildMu' = NoHolder
        \/ stage = "rebuild" /\ rebuildMu' = r /\ r \in foundOver'
    BY <1>2, <1>7, <1>11, <2>1 DEF SecondSelect, Goto, CoordTypeOK
  <2> QED BY <1>4, <1>6, <2>2, <2>3 DEF Holding
<1>12. CASE RebuildRound(r)
  <2>1. rebuildMu = r
    BY <1>5, <1>12 DEF RebuildRound, Holding
  <2>2. \A q \in Requests : q # r => ~\E st \in Holding : At(q, st)
    BY <1>5, <2>1
  <2>3. stage = "third" /\ rebuildMu' = r
    BY <1>2, <1>7, <1>12, <2>1 DEF RebuildRound, Goto, CoordTypeOK
  <2> QED BY <1>4, <2>2, <2>3 DEF Holding
<1>13. CASE ThirdSelect(r)
  <2>1. rebuildMu = r
    BY <1>5, <1>13 DEF ThirdSelect, Holding
  <2>2. \A q \in Requests : q # r => ~\E st \in Holding : At(q, st)
    BY <1>5, <2>1
  <2>3. stage \in {"admitted", "refused"} /\ rebuildMu' = NoHolder
    BY <1>2, <1>7, <1>13 DEF ThirdSelect, Goto, CoordTypeOK
  <2> QED BY <1>4, <1>6, <2>2, <2>3 DEF Holding
<1> QED BY <1>9, <1>10, <1>11, <1>12, <1>13 DEF SelectFor

LEMMA BeginKeepsInv ==
  ASSUME CoordInv, NEW r \in Requests, NEW s \in Selections, Begin(r, s), now \in Nat
  PROVE  CoordTypeOK' /\ RebuildsOnlyRoundsFoundOver'
<1>1. /\ r \notin DOMAIN call /\ now' = now
      /\ rebuildMu' = rebuildMu /\ foundOver' = foundOver
  BY DEF Begin, vars
<1>2. /\ DOMAIN call' = DOMAIN call \cup {r}
      /\ call'[r] = [stage |-> "first", at |-> now, selection |-> s]
      /\ \A q \in DOMAIN call : call'[q] = call[q]
      /\ call' = [q \in DOMAIN call' |-> call'[q]]
  BY <1>1 DEF Begin
<1>3. call'[r] \in Calls(now)
  BY <1>2 DEF Calls, Stages
<1>4. \A q \in DOMAIN call : call[q] \in Calls(now)
  BY DEF CoordInv, CoordTypeOK, Calls
<1>5. call' \in [DOMAIN call' -> Calls(now)]
  BY <1>2, <1>3, <1>4
<1>6. \A q, st : st # "first" => (At(q, st)' <=> At(q, st))
  BY <1>1, <1>2 DEF At
<1>7. CoordTypeOK'
  BY <1>1, <1>2, <1>5, <1>6 DEF CoordInv, CoordTypeOK, Calls
<1> QED BY <1>1, <1>6, <1>7 DEF CoordInv, RebuildsOnlyRoundsFoundOver

LEMMA CallsUnchangedKeepInv ==
  ASSUME CoordInv, UNCHANGED <<call, rebuildMu, foundOver>>,
         now \in Nat, now' \in Nat, now <= now'
  PROVE  CoordTypeOK' /\ RebuildsOnlyRoundsFoundOver'
<1>1. \A q, st : At(q, st)' <=> At(q, st)
  BY DEF At
<1>2. 0..now \subseteq 0..now'
  OBVIOUS
<1>3. call' \in [DOMAIN call' -> [stage : Stages, at : 0..now', selection : Selections]]
  BY <1>2 DEF CoordInv, CoordTypeOK
<1> QED BY <1>1, <1>3 DEF CoordInv, CoordTypeOK, RebuildsOnlyRoundsFoundOver

LEMMA CoordStep ==
  ASSUME CoordInv, [CoordNext]_coordVars
  PROVE  CoordInv'
<1>1. [Next]_vars
  BY CoordIsPoolStep DEF CoordInv
<1>2. TypeOK'
  BY <1>1, TypeStep DEF CoordInv
<1>3. now \in Nat /\ now' \in Nat /\ now <= now'
  BY <1>1, ClockGrows DEF CoordInv
<1> SUFFICES CoordTypeOK' /\ RebuildsOnlyRoundsFoundOver'
  BY <1>2 DEF CoordInv
<1>4. CASE \E r \in Requests : SelectFor(r)
  BY <1>3, <1>4, SelectForKeepsInv
<1>5. CASE \E r \in Requests, s \in Selections : Begin(r, s)
  BY <1>3, <1>5, BeginKeepsInv
<1>6. CASE Elsewhere \/ UNCHANGED coordVars
  BY <1>3, <1>6, CallsUnchangedKeepInv DEF Elsewhere, coordVars
<1> QED BY <1>4, <1>5, <1>6 DEF CoordNext

\* The coordinator keeps its types, and the rebuild mutex excludes: at most one
\* request is between its lock and its return.
THEOREM CoordTypeCorrect == CoordSafety => []CoordTypeOK
<1>1. CoordInv /\ [CoordNext]_coordVars => CoordInv'
  BY CoordStep
<1>2. CoordInv => CoordTypeOK
  BY DEF CoordInv
<1> QED BY <1>1, <1>2, CoordInit_Inv, PTL DEF CoordSafety

\* However many requests wait for the mutex, a rebuild replaces a round that its own
\* request has found over, none that another has built since it looked.
THEOREM RebuildersFoundRoundOver == CoordSafety => []RebuildsOnlyRoundsFoundOver
<1>1. CoordInv /\ [CoordNext]_coordVars => CoordInv'
  BY CoordStep
<1>2. CoordInv => RebuildsOnlyRoundsFoundOver
  BY DEF CoordInv
<1> QED BY <1>1, <1>2, CoordInit_Inv, PTL DEF CoordSafety

\* Concurrent requests through the coordinator use the pool as KeyPool says.
THEOREM CoordinatorUsesPool == CoordSafety => Spec
<1>1. CoordInit => Init
  BY DEF CoordInit
<1>2. CoordInv /\ [CoordNext]_coordVars => [Next]_vars
  BY CoordIsPoolStep DEF CoordInv
<1>3. CoordInv /\ [CoordNext]_coordVars => CoordInv'
  BY CoordStep
<1> QED BY <1>1, <1>2, <1>3, CoordInit_Inv, PTL DEF CoordSafety, Spec

\* In particular the credits on every key are exact under concurrent requests, every
\* group keeps to its budget, and the calls together keep the promises of CreditLedger.
THEOREM CoordinatedBooks ==
  CoordSafety => [](EstimateIsHeld /\ RoundBudget) /\ ImplementsLedger
BY CoordinatorUsesPool, BooksAreExact, BudgetsHold, PoolImplementsLedger, PTL
=============================================================================
