--------------------------- MODULE ProxyDocumented ---------------------------
(***************************************************************************)
(* What the research design (docs/superpowers/specs,                       *)
(* 2026-07-21-research-quota-routing-design.md) says of a reservation,     *)
(* where the program does otherwise.  TLC finds a behaviour of ProxyCalls  *)
(* against it; README.md tells the trace.                                  *)
(***************************************************************************)
EXTENDS ProxyCalls

\* The design: polling marks the reservation complete when it returns completed
\* or failed; a poll that ends while the task is at work leaves it held.
\* serveResearchStatus settles on any answer it can decode: the body of a 429 or of
\* a 500 has no status, which counts as terminal, and once the settlement is made
\* the next snapshot frees what the task still spends.
RunningTaskHeld ==
  [][\A r \in polls \ polls' :
       task[r[1]] = "running" /\ r \in settling' => r \in settling]_proxyVars
=============================================================================
