--------------------------- MODULE PoolDocumented ----------------------------
(***************************************************************************)
(* What a comment or a document of the repository says of the pool and the *)
(* coordinator, where the program does otherwise.  TLC finds a behaviour   *)
(* of PoolCoordinator against each of these; README.md tells the traces.   *)
(***************************************************************************)
EXTENDS PoolCoordinator

Admitted(r) == r \notin DOMAIN lease /\ r \in DOMAIN lease'

\* README: a rejection rolls back the usage of the group it belongs to.  The
\* answer to a request of an earlier round must leave the budgets of this round
\* alone; rollbackGroupEstimate goes by position and lowers one of them.
OldRoundsLeaveBudgets ==
  [][\A r \in inflight \ inflight' : r \notin thisRound => groups' = groups]_coordVars

\* The comment on StateProbing (pool.go): one request is testing the key.  A 5xx,
\* which a transport error of a plain request is reported as, or a 4xx ends that
\* request and leaves the key probing.
ProbingKeyHasRequest ==
  \A k \in Keys :
    state[k] = "probing" => \E r \in inflight : lease[r].key = k

\* README: with grouping enabled a request is served by the active group only.
\* A rebuild that finds no usable key leaves no groups, and from then on the
\* whole pool serves, unlimited, since nothing asks for a rebuild any more.
ServedByActiveGroup ==
  [][\A r \in Requests :
       Admitted(r) /\ GroupSize > 0 => lease'[r].group # 0]_coordVars
=============================================================================
