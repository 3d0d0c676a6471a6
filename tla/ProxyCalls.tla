----------------------------- MODULE ProxyCalls ------------------------------
(***************************************************************************)
(* The request paths of internal/proxy: what ServeHTTP and RunResearch do  *)
(* around the pool for a search, for a research task started over REST and *)
(* for one started over MCP, and who ends the reservation of a task.       *)
(*                                                                         *)
(* A call is a client's request.  Each of its attempts obtains one lease   *)
(* of KeyPool, named <<call, attempt>>, and every operation on the pool is *)
(* an action of KeyPool.  The selector is reduced to its results:          *)
(* PoolCoordinator has the steps it takes.                                 *)
(*                                                                         *)
(* A task keeps its reservation until something settles it.  Handler keeps *)
(* the reservation's lease in its map of research mappings or in the       *)
(* closure of a safety timer; both end after researchTTL, a time that is   *)
(* left open here.  Tavily gives every task a request_id of its own, so    *)
(* that the lease stands for the id.                                       *)
(***************************************************************************)
EXTENDS KeyPool

CONSTANTS
  PlainCalls,    \* calls of /search, /extract, /crawl and /map
  RestResearch,  \* calls of POST /research
  McpResearch,   \* calls of the MCP tool for research
  Estimate,      \* estimate, of every call
  Attempts       \* more than a call can need

ResearchCalls == RestResearch \cup McpResearch
Calls == PlainCalls \cup ResearchCalls

ASSUME CallsAssumption ==
  /\ PlainCalls \cap ResearchCalls = {}
  /\ RestResearch \cap McpResearch = {}
ASSUME AttemptsAssumption ==
  /\ Attempts \in Nat
  /\ Attempts >= 2
  /\ Attempts > Cardinality(Keys)
ASSUME LeasesAssumption == Requests = Calls \X (1..Attempts)
ASSUME EstimateAssumption == Estimate \in [Calls -> Nat \ {0}]

SelectionWith(c, keys) ==
  [workload |-> IF c \in ResearchCalls THEN "research" ELSE "default",
   estimate |-> Estimate[c],
   excluded |-> keys]

ASSUME CallSelectionsAssumption ==
  \A c \in Calls : \A keys \in SUBSET Keys : SelectionWith(c, keys) \in Selections

VARIABLES
  stage,     \* where the handler of every call is
  attempt,   \* leases the call has obtained
  excluded,  \* Selection.Excluded of admitResearch
  mapped,    \* the leases in Handler.research
  timers,    \* the leases that deferResearchSettlement waits for
  settling,  \* the leases somebody is about to call SettleResearch for
  polls,     \* the leases whose status a client of GET /research/<id> waits for
  task       \* what Tavily does for the call

handlers  == <<stage, attempt, excluded>>
followups == <<mapped, timers, settling, polls>>
callVars  == <<handlers, followups, task>>
proxyVars == <<vars, callVars>>

Stages == {"idle", "selecting", "sent", "reading", "polling", "done"}

Goto(c, s) == stage' = [stage EXCEPT ![c] = s]

\* The lease of the attempt a call is in.
Current(c) == <<c, attempt[c]>>

SelectionOf(c) == SelectionWith(c, excluded[c])

ProxyInit ==
  /\ Init
  /\ stage = [c \in Calls |-> "idle"]
  /\ attempt = [c \in Calls |-> 0]
  /\ excluded = [c \in Calls |-> {}]
  /\ mapped = {}
  /\ timers = {}
  /\ settling = {}
  /\ polls = {}
  /\ task = [c \in Calls |-> "none"]

----------------------------------------------------------------------------
(* The selection and the request to Tavily.                                 *)

\* The handler has read the body.
Begin(c) ==
  /\ serving
  /\ stage[c] = "idle"
  /\ Goto(c, "selecting")
  /\ UNCHANGED <<vars, attempt, excluded, followups, task>>

\* Mutant: a research attempt may choose the same key again.
ExcludedNever(c, k) == {}

\* admitResearch notes every key it has tried; a plain call does not.
ExcludedWith(c, k) == IF c \in ResearchCalls THEN excluded[c] \cup {k} ELSE {}

\* The selector returns a lease and the request goes out.  It can always be built:
\* its URL is one of five paths under the fixed address that main gives.
Obtain(c) ==
  /\ stage[c] = "selecting"
  /\ attempt' = [attempt EXCEPT ![c] = @ + 1]
  /\ \E t \in 0..now : Admit(<<c, attempt[c] + 1>>, t, SelectionOf(c))
  /\ excluded' = [excluded EXCEPT ![c] =
                    ExcludedWith(c, lease'[<<c, attempt[c] + 1>>].key)]
  /\ Goto(c, "sent")
  /\ UNCHANGED <<followups, task>>

\* The selector rebuilds the groups once their round is over.
Rotates(t) == Grouped /\ (MonthPassed(t) \/ AllTerminal(groups)) /\ RebuildGroups(t)

\* The selector finds no key, or no new round: the caller gets 503, or the last
\* quota rejection.
GiveUp(c) ==
  /\ stage[c] = "selecting"
  /\ \E t \in 0..now : Refuse(t, SelectionOf(c)) \/ (Rotates(t) /\ groups' = <<>>)
  /\ Goto(c, "done")
  /\ UNCHANGED <<attempt, excluded, followups, task>>

\* The selector finds the round over or turns to the next, and will ask again.
AskAgain(c) ==
  /\ stage[c] = "selecting"
  /\ \E t \in 0..now :
       \/ Grouped /\ Refuse(t, SelectionOf(c)) /\ AllTerminal(groups')
       \/ Rotates(t)
  /\ UNCHANGED callVars

\* Mutant: a rate limit leads to another attempt as long as there are keys.
RetriesAlways(c) == c \in PlainCalls

\* ServeHTTP makes a second attempt, and no third, after a 429.
Retries(c) == c \in PlainCalls /\ attempt[c] = 1

\* Any answer but a quota rejection of a research or the 429 that is retried is
\* passed on to the client; only an answer to a research is read by the proxy.
PassOn(c) == Goto(c, IF c \in ResearchCalls THEN "reading" ELSE "done")

\* Mutant: the lease of an attempt that is retried is not resolved.
RateLimitedUnresolved(c) ==
  /\ stage[c] = "sent"
  /\ IF Retries(c) THEN Goto(c, "selecting") ELSE PassOn(c)
  /\ UNCHANGED <<vars, attempt, excluded, followups, task>>

\* 429
RateLimited(c) ==
  /\ stage[c] = "sent"
  /\ \E d \in RetryAfters : ResolveRateLimited(Current(c), d)
  /\ IF Retries(c) THEN Goto(c, "selecting") ELSE PassOn(c)
  /\ UNCHANGED <<attempt, excluded, followups, task>>

\* 432 and 433: admitResearch goes on to another key.
QuotaRejected(c) ==
  /\ stage[c] = "sent"
  /\ ResolveQuotaRejected(Current(c))
  /\ Goto(c, IF c \in ResearchCalls THEN "selecting" ELSE "done")
  /\ UNCHANGED <<attempt, excluded, followups, task>>

Rejected(c) ==
  /\ stage[c] = "sent"
  /\ ResolveClientError(Current(c)) \/ ResolveOther(Current(c))
  /\ PassOn(c)
  /\ UNCHANGED <<attempt, excluded, followups, task>>

\* 200 and 201, or another 2xx, which the pool ignores; a research task begins.
Accepted(c) ==
  /\ stage[c] = "sent"
  /\ ResolveSuccess(Current(c)) \/ ResolveOther(Current(c))
  /\ PassOn(c)
  /\ task' = [task EXCEPT ![c] = IF c \in ResearchCalls THEN "running" ELSE @]
  /\ UNCHANGED <<attempt, excluded, followups>>

\* Mutant: the reservation of a request without an answer is left to itself.
DeferNothing(c) == timers

\* deferResearchSettlement, for a research.
Defer(c) == timers \cup {Current(c)}

\* http.Client.Do fails, or the client leaves before the answer.  ServeHTTP reports
\* a 500 to the pool; admitResearch reports nothing and leaves the lease, which
\* nobody will resolve, to a safety timer.
TransportFails(c) ==
  /\ stage[c] = "sent"
  /\ IF c \in ResearchCalls
     THEN timers' = Defer(c) /\ UNCHANGED vars
     ELSE ResolveOther(Current(c)) /\ UNCHANGED timers
  /\ Goto(c, "done")
  /\ UNCHANGED <<attempt, excluded, mapped, settling, polls, task>>

----------------------------------------------------------------------------
(* The answer to a research, in serveResearchCreate and RunResearch.        *)

\* A body that breaks off or names no request_id, and for MCP any answer but a
\* 2xx: the reservation is left to the safety timer.
ReadNoTask(c) ==
  /\ stage[c] = "reading"
  /\ timers' = Defer(c)
  /\ Goto(c, "done")
  /\ UNCHANGED <<vars, attempt, excluded, mapped, settling, polls, task>>

\* The body names a request_id: storeResearchMapping, and a settlement unless the
\* status is pending or in_progress.  A status that is missing or unknown counts as
\* terminal whatever the task does.  Over REST the status code is not looked at, so
\* that an error may be mapped, too; MCP reads a 2xx only.
ReadTask(c) ==
  /\ stage[c] = "reading"
  /\ c \in McpResearch => task[c] # "none"
  /\ mapped' = mapped \cup {Current(c)}
  /\ \/ /\ settling' = settling \cup {Current(c)}
        /\ Goto(c, "done")
     \/ /\ Goto(c, IF c \in McpResearch THEN "polling" ELSE "done")
        /\ UNCHANGED settling
  /\ UNCHANGED <<vars, attempt, excluded, timers, polls, task>>

\* A stream is copied to its end, which counts as the task's end.
StreamEnds(c) ==
  /\ c \in RestResearch
  /\ stage[c] = "reading"
  /\ settling' = settling \cup {Current(c)}
  /\ Goto(c, "done")
  /\ UNCHANGED <<vars, attempt, excluded, mapped, timers, polls, task>>

----------------------------------------------------------------------------
(* A task at work.                                                          *)

\* Tavily completes the task, or it fails.
TaskEnds(c) ==
  /\ task[c] = "running"
  /\ task' = [task EXCEPT ![c] = "ended"]
  /\ UNCHANGED <<vars, handlers, followups>>

\* RunResearch polls: a 2xx whose status is terminal, unknown or missing settles; an
\* error, another request_id or a client that has left end the call and nothing else.
McpPoll(c) ==
  /\ stage[c] = "polling"
  /\ settling' \in {settling, settling \cup {Current(c)}}
  /\ Goto(c, "done")
  /\ UNCHANGED <<vars, attempt, excluded, mapped, timers, polls, task>>

\* serveResearchStatus finds the mapping and asks Tavily.
StatusAsked(c) ==
  /\ Current(c) \in mapped
  /\ polls' = polls \cup {Current(c)}
  /\ UNCHANGED <<vars, handlers, mapped, timers, settling, task>>

\* The answer has a status or is an error.  An error in JSON, which has no
\* status, settles the reservation like the status of a task that has ended.
StatusRead(c) ==
  /\ Current(c) \in polls
  /\ polls' = polls \ {Current(c)}
  /\ settling' \in {settling, settling \cup {Current(c)}}
  /\ UNCHANGED <<vars, handlers, mapped, timers, task>>

\* Mutant: the mapping is removed and nothing else.
ExpireQuietly(r) ==
  /\ r \in mapped
  /\ mapped' = mapped \ {r}
  /\ UNCHANGED <<vars, handlers, timers, settling, polls, task>>

\* The TTL of a mapping is over; its timer, a client that asks for its status or
\* the next mapping to be stored removes it, and settles after researchMu.
Expire(r) ==
  /\ r \in mapped
  /\ mapped' = mapped \ {r}
  /\ settling' = settling \cup {r}
  /\ UNCHANGED <<vars, handlers, timers, polls, task>>

\* SettleResearch, which finds the reservation or not.
SettleHold(r) ==
  IF r \in reservations THEN SettleResearch(r) ELSE UNCHANGED vars

TimerFires(r) ==
  /\ r \in timers
  /\ timers' = timers \ {r}
  /\ SettleHold(r)
  /\ UNCHANGED <<handlers, mapped, settling, polls, task>>

Settle(r) ==
  /\ r \in settling
  /\ settling' = settling \ {r}
  /\ SettleHold(r)
  /\ UNCHANGED <<handlers, mapped, timers, polls, task>>

----------------------------------------------------------------------------
\* What goes on in the pool beside the calls: the clock, startup, the usage
\* refreshes and the monitor.
PoolMoves ==
  /\ \/ Tick
     \/ Boot
     \/ \E k \in Keys, u \in UsageSnapshots : UpdateUsage(k, u)
     \/ MonitorSnapshot
  /\ UNCHANGED callVars

\* The steps that a handler takes for its call until it is answered.
Proceed(c) ==
  \/ Obtain(c) \/ GiveUp(c)
  \/ RateLimited(c) \/ QuotaRejected(c) \/ Rejected(c) \/ Accepted(c) \/ TransportFails(c)
  \/ ReadNoTask(c) \/ ReadTask(c) \/ StreamEnds(c)

Followup(r) == TimerFires(r) \/ Expire(r) \/ Settle(r)

ProxyNext ==
  \/ PoolMoves
  \/ \E c \in Calls :
       \/ Begin(c) \/ AskAgain(c) \/ Proceed(c)
       \/ TaskEnds(c) \/ McpPoll(c) \/ StatusAsked(c) \/ StatusRead(c)
  \/ \E r \in Requests : Followup(r)

ProxySafety == ProxyInit /\ [][ProxyNext]_proxyVars

\* The handlers' goroutines run, an exchange with Tavily ends by its answer, its
\* failure or the client's leaving, and timers fire.  Nothing is assumed of the
\* polls, of the end of a task and of the usage refreshes.
ProxySpec ==
  /\ ProxySafety
  /\ \A c \in Calls : WF_proxyVars(Proceed(c))
  /\ \A r \in Requests : WF_proxyVars(TimerFires(r)) /\ WF_proxyVars(Expire(r)) /\ WF_proxyVars(Settle(r))

----------------------------------------------------------------------------
(* Properties.                                                              *)

\* The types; a plain call makes two attempts at most, and what the handlers
\* keep names leases of research calls.
ProxyTypeOK ==
  /\ stage \in [Calls -> Stages]
  /\ attempt \in [Calls -> 0..Attempts]
  /\ \A c \in PlainCalls : attempt[c] <= 2
  /\ excluded \in [Calls -> SUBSET Keys]
  /\ task \in [Calls -> {"none", "running", "ended"}]
  /\ DOMAIN lease = {r \in Requests : r[2] <= attempt[r[1]]}
  /\ mapped \cup timers \cup settling \cup polls
       \subseteq {r \in DOMAIN lease : r[1] \in ResearchCalls}

\* A handler that waits for an answer has a lease that is not resolved yet, and a
\* lease that is not resolved has the handler that waits with it: no path makes
\* another attempt, reads an answer or ends with an unresolved lease behind it, but
\* for the research whose request had no answer.  Its lease is never resolved; a
\* safety timer has it, or has settled it.
LeaseHasHandler ==
  /\ \A c \in Calls : stage[c] = "sent" => Current(c) \in inflight
  /\ \A r \in inflight :
       /\ r = Current(r[1])
       /\ \/ stage[r[1]] = "sent"
          \/ /\ r[1] \in ResearchCalls /\ stage[r[1]] = "done"
             /\ r \in timers \cup settled \/ r \notin reservations

\* The design: admitResearch attempts each key at most once, even if concurrent
\* changes lift the pause its rejection has left.
AttemptsDistinct ==
  \A r, q \in DOMAIN lease :
    r # q /\ r[1] = q[1] /\ r[1] \in ResearchCalls => lease[r].key # lease[q].key

\* The design: if no caller polls again, a TTL is the final bound.  A research
\* reservation that is not settled is always in the hands of a handler that waits
\* for the answer or reads it, of a mapping, of a safety timer or of somebody about
\* to settle it; no path drops it.
HoldHasWayOut ==
  \A r \in reservations \ settled :
    r[1] \in ResearchCalls =>
      \/ stage[r[1]] \in {"sent", "reading"} /\ r = Current(r[1])
      \/ r \in mapped \cup timers \cup settling

\* Every research reservation is released or settled in the end, though clients
\* leave, streams break and nobody polls.
HoldsSettle ==
  \A r \in Requests :
    r[1] \in ResearchCalls /\ r \in reservations ~> r \notin reservations \/ r \in settled
=============================================================================
