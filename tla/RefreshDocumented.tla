-------------------------- MODULE RefreshDocumented ---------------------------
(***************************************************************************)
(* What a document of the repository says of the usage refreshes, where    *)
(* the program does otherwise.  TLC finds a behaviour of RefreshThrottle   *)
(* against it; README.md tells the trace.                                  *)
(***************************************************************************)
EXTENDS RefreshThrottle

\* CONTEXT.md: the throttle is a least interval between two requests for the same
\* key, shared by all entry points and extended by a 429.  A key that waits in
\* the batch of one entry point is asked for right after another one's 429: a
\* floor further off than RetryBackoff is one that a 429 has set.
ThrottleHolds ==
  [][\A e \in Entries, k \in Keys : Send(e, k) => floorIn[k] <= RetryBackoff]_vars
=============================================================================
