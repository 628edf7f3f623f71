---------------------------- MODULE MCP2PServer ----------------------------
(* Constants for model checking P2PServer.tla. *)
EXTENDS P2PServerProperties, TLC

CONSTANTS k1, k2, r1

None == {}
OneRequest == {r1}
TwoCallers == {k1, k2}
OneCaller == {k1}
SameMethod == [k \in Callers |-> "m"]
OwnMethod == [k \in Callers |-> k]
ToFirst == [k \in Callers |-> 1]
ToOwn == [k \in Callers |-> IF k = k1 THEN 1 ELSE 2]
=============================================================================
