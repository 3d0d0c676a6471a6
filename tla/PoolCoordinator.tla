--------------------------- MODULE PoolCoordinator ---------------------------
(***************************************************************************)
(* The request paths' way to a key: Coordinator.SelectFor of               *)
(* internal/pool/coordinator.go, run by any number of requests at once     *)
(* against the pool of KeyPool.                                            *)
(*                                                                         *)
(* A request reads the clock once, asks the pool, and when the round is    *)
(* over takes rebuildMu, asks again, rebuilds and asks a last time, always *)
(* with the clock reading it started with.  Between two of these steps the *)
(* other requests, their answers and the usage refreshes change the pool.  *)
(* Here the groups are rebuilt by requests only, as in the program.        *)
(***************************************************************************)
EXTENDS KeyPool

NoHolder == "nobody"

ASSUME HolderAssumption == NoHolder \notin Requests

VARIABLES
  call,       \* the call of every request that has begun
  rebuildMu,  \* the request that holds the mutex, or NoHolder
  foundOver   \* history: the requests that found the current round over

coordVars == <<vars, call, rebuildMu, foundOver>>

Goto(r, stage) == call' = [call EXCEPT ![r].stage = stage]

At(r, stage) == r \in DOMAIN call /\ call[r].stage = stage

CoordInit ==
  /\ Init
  /\ call = [r \in {} |-> 0]
  /\ rebuildMu = NoHolder
  /\ foundOver = {}

\* The proxy reads time.Now() and calls Select.
Begin(r, s) ==
  /\ serving
  /\ r \notin DOMAIN call
  /\ call' = [q \in DOMAIN call \cup {r} |->
                IF q = r THEN [stage |-> "first", at |-> now, selection |-> s]
                ELSE call[q]]
  /\ UNCHANGED <<vars, rebuildMu, foundOver>>

\* The three outcomes of pool.SelectFor for request r.
Obtains(r) == Admit(r, call[r].at, call[r].selection)

FindsNoKey(r) ==
  /\ Refuse(call[r].at, call[r].selection)
  /\ ~(Grouped /\ AllTerminal(groups'))

FindsRoundOver(r) ==
  \/ /\ Refuse(call[r].at, call[r].selection)
     /\ Grouped
     /\ AllTerminal(groups')
  \/ /\ MonthPassed(call[r].at)
     /\ UNCHANGED vars

FirstSelect(r) ==
  /\ At(r, "first")
  /\ \/ Obtains(r) /\ Goto(r, "admitted") /\ UNCHANGED foundOver
     \/ FindsNoKey(r) /\ Goto(r, "refused") /\ UNCHANGED foundOver
     \/ FindsRoundOver(r) /\ Goto(r, "waiting") /\ foundOver' = foundOver \cup {r}
  /\ UNCHANGED rebuildMu

\* Mutant: the mutex does not exclude.
LockAlways(r) ==
  /\ At(r, "waiting")
  /\ rebuildMu' = r
  /\ Goto(r, "second")
  /\ UNCHANGED <<vars, foundOver>>

\* Mutant: the pool is not asked again under the mutex.
LockAndRebuild(r) ==
  /\ At(r, "waiting")
  /\ rebuildMu = NoHolder
  /\ rebuildMu' = r
  /\ Goto(r, "rebuild")
  /\ UNCHANGED <<vars, foundOver>>

LockRebuild(r) ==
  /\ At(r, "waiting")
  /\ rebuildMu = NoHolder
  /\ rebuildMu' = r
  /\ Goto(r, "second")
  /\ UNCHANGED <<vars, foundOver>>

\* Mutant: the mutex is released only where the request rebuilds.
SecondSelectKeepsLock(r) ==
  /\ At(r, "second")
  /\ \/ Obtains(r) /\ Goto(r, "admitted") /\ UNCHANGED foundOver
     \/ FindsNoKey(r) /\ Goto(r, "refused") /\ UNCHANGED foundOver
     \/ FindsRoundOver(r) /\ Goto(r, "rebuild") /\ foundOver' = foundOver \cup {r}
  /\ UNCHANGED rebuildMu

\* The deferred Unlock runs on every return.
SecondSelect(r) ==
  /\ At(r, "second")
  /\ \/ Obtains(r) /\ Goto(r, "admitted") /\ rebuildMu' = NoHolder /\ UNCHANGED foundOver
     \/ FindsNoKey(r) /\ Goto(r, "refused") /\ rebuildMu' = NoHolder /\ UNCHANGED foundOver
     \/ /\ FindsRoundOver(r)
        /\ Goto(r, "rebuild")
        /\ foundOver' = foundOver \cup {r}
        /\ UNCHANGED rebuildMu

RebuildRound(r) ==
  /\ At(r, "rebuild")
  /\ RebuildGroups(call[r].at)
  /\ Goto(r, "third")
  /\ foundOver' = {}
  /\ UNCHANGED rebuildMu

\* Whatever the last selection returns is returned to the request, which answers
\* 503 to either error.
ThirdSelect(r) ==
  /\ At(r, "third")
  /\ \/ Obtains(r) /\ Goto(r, "admitted")
     \/ (FindsNoKey(r) \/ FindsRoundOver(r)) /\ Goto(r, "refused")
  /\ rebuildMu' = NoHolder
  /\ UNCHANGED foundOver

SelectFor(r) ==
  FirstSelect(r) \/ LockRebuild(r) \/ SecondSelect(r) \/ RebuildRound(r) \/ ThirdSelect(r)

\* Everything else that calls the pool: the handlers of the proxy report answers and
\* settle researches, the usage client stores snapshots, main starts, and the monitor
\* looks.
Elsewhere ==
  /\ \/ Tick
     \/ Boot
     \/ \E k \in Keys, u \in UsageSnapshots : UpdateUsage(k, u)
     \/ Resolve
     \/ \E r \in Requests : SettleResearch(r)
     \/ MonitorSnapshot
  /\ UNCHANGED <<call, rebuildMu, foundOver>>

CoordNext ==
  \/ \E r \in Requests : SelectFor(r) \/ \E s \in Selections : Begin(r, s)
  \/ Elsewhere

CoordSafety == CoordInit /\ [][CoordNext]_coordVars

\* A goroutine that can run does run, and sync.Mutex hands a lock that keeps
\* being released to every goroutine that waits for it.
CoordFairness ==
  \A r \in Requests :
    /\ WF_coordVars(FirstSelect(r))
    /\ SF_coordVars(LockRebuild(r))
    /\ WF_coordVars(SecondSelect(r))
    /\ WF_coordVars(RebuildRound(r))
    /\ WF_coordVars(ThirdSelect(r))

CoordSpec == CoordSafety /\ CoordFairness

----------------------------------------------------------------------------
(* Properties.                                                              *)

Stages == {"first", "waiting", "second", "rebuild", "third", "admitted", "refused"}

\* The types of the coordinator's state; the mutex is held through the stages
\* that hold it.
CoordTypeOK ==
  /\ call \in [DOMAIN call -> [stage : Stages, at : 0..now, selection : Selections]]
  /\ DOMAIN call \subseteq Requests
  /\ foundOver \subseteq DOMAIN call
  /\ \A r \in Requests :
       rebuildMu = r <=> \E stage \in {"second", "rebuild", "third"} : At(r, stage)
  /\ rebuildMu \in Requests \cup {NoHolder}

\* However many requests find a round over at the same time, each of them looks
\* again under the mutex: whoever rebuilds has itself found the round over that it
\* replaces, and throws away none that another request built while it waited.  (A
\* reading of the old month finds a round of the new month over, too.)
RebuildsOnlyRoundsFoundOver ==
  \A r \in Requests : At(r, "rebuild") => r \in foundOver

\* A request that reaches the coordinator is given a key or an error, however
\* many others wait for the rebuild: no return path keeps the mutex.
RequestsFinish ==
  \A r \in Requests :
    At(r, "first") ~> \E stage \in {"admitted", "refused"} : At(r, stage)
=============================================================================
