---------------------------- MODULE MCP2PClient ----------------------------
(* Constants for model checking P2PClient.tla. *)
EXTENDS P2PClientProperties, TLC

CONSTANTS r1

OneRequest == {r1}

(* Either time passes or the server makes requests, or both without calls.    *)
Ends == {"hangup", "loss", "shutdown"}
Timely == Ends \cup {"call", "time"}
Asking == Ends \cup {"call", "request"}
Both == {"request", "time"}
Three == {Timely, Asking, Both}
=============================================================================
