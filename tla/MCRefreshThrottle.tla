-------------------------- MODULE MCRefreshThrottle --------------------------
(* Small instances of RefreshThrottle for TLC. *)
EXTENDS RefreshDocumented

CONSTANTS k1, k2, s1

TwoKeys == {k1, k2}
OneSettlement == {s1}
=============================================================================
