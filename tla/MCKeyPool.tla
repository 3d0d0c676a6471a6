------------------------------ MODULE MCKeyPool ------------------------------
(* Small instances of KeyPool for TLC. *)
EXTENDS KeyPool, TLC

CONSTANTS k1, k2, r1, r2, r3

TwoKeys == {k1, k2}
TwoRequests == {r1, r2}
ThreeRequests == {r1, r2, r3}

\* A search of one credit, and a research of two that may already have been
\* turned away by one key.
SearchAndResearch ==
  {[workload |-> "default", estimate |-> 1, excluded |-> {}]}
  \cup {[workload |-> "research", estimate |-> 2, excluded |-> e] : e \in {{}, {k1}, {k2}}}

\* The same with a research that is larger than the budget of a group.
SearchAndLargeResearch ==
  {[s EXCEPT !.estimate = IF s.workload = "research" THEN 3 ELSE @] : s \in SearchAndResearch}

\* A spent key and a key with four credits, or with three.
SpentOrFour == {[limit |-> 4, used |-> 0], [limit |-> 4, used |-> 4]}
SpentOrThree == {[limit |-> 3, used |-> 0], [limit |-> 3, used |-> 3]}

AnySymmetry == Permutations(TwoKeys) \cup Permutations(ThreeRequests)
PairSymmetry == Permutations(TwoKeys) \cup Permutations(TwoRequests)
=============================================================================
