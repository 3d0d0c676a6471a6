---------------------------- MODULE MCProxyCalls -----------------------------
(* Small instances of ProxyCalls for TLC. *)
EXTENDS ProxyDocumented

CONSTANTS k1, k2, search, rest, mcp

OneKey == {k1}
TwoKeys == {k1, k2}
OneSearch == {search}
OneRest == {rest}
OneMcp == {mcp}
NoCalls == {}

TwoCredits == [c \in Calls |-> IF c \in PlainCalls THEN 1 ELSE 2]
LeaseIds == Calls \X (1..Attempts)

AllSelections == {SelectionWith(c, e) : c \in Calls, e \in SUBSET Keys}
FourLeft == {[limit |-> 4, used |-> 0]}
=============================================================================
