-------------------------- MODULE MCPoolCoordinator --------------------------
(* Small instances of PoolCoordinator for TLC. *)
EXTENDS PoolDocumented

CONSTANTS k1, k2, r1, r2, r3

OneKey == {k1}
TwoKeys == {k1, k2}
TwoRequests == {r1, r2}
ThreeRequests == {r1, r2, r3}

Search == [workload |-> "default", estimate |-> 1, excluded |-> {}]

OneSearch == {Search}

\* A spent key and a key with three credits.
SpentOrThree == {[limit |-> 3, used |-> 0], [limit |-> 3, used |-> 3]}
=============================================================================
