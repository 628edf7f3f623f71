------------------------ MODULE P2PClientProperties ------------------------
(* What the client of P2PClient.tla has to get right.                       *)
EXTENDS P2PClient

(* The threads of the first connection do not stop before its callback has     *)
(* run, whichever thread clears SERVER and whichever finds it cleared          *)
(* (close_server, client.rs:41-46). Nothing is said of a later connection:     *)
(* threads left over from an earlier one may clear its SERVER.               *)
ToldWhenClosed ==
  1 \in Conn /\ (Dead("reader", 1) \/ Dead("writer", 1)) => reports[1] > 0

(* The write thread has closed the client of a server it took for dead, which   *)
(* has sent all it owes, and the read thread still waits for a frame of it.   *)
Deaf(i) ==
  /\ server = 0 /\ link[i] = "up" /\ pc["reader"][i].at = "recv"
  /\ wire[i] = <<>> /\ asked[i] = {} /\ i \notin pinged

(* A call returns a reply or an error, unless the client was closed as not      *)
(* alive: what the write thread leaves in its queue when it ends, and what the  *)
(* server does not answer before it goes, is given up by the read thread       *)
(* (client.rs:142-143, 162, 250-252).                                        *)
CallEnds ==
  \A i \in Conn : (caller[i].at = "waiting") ~> (caller[i].at = "idle" \/ Deaf(i))

(* Once the client is closed, by whatever thread, both threads of the           *)
(* connection return, with the same exception (client.rs:128-131, 157-162).   *)
ThreadsEnd == \A i \in Conn :
  (caller[i].at # "absent" /\ server = 0)
    ~> (Dead("writer", i) /\ (Dead("reader", i) \/ Deaf(i)))

(* While the client is open the last pong on record is no older than a period   *)
(* of pings, one more for each pong in a row that a ping's update has undone,  *)
(* and the sleeps during which a pong was outstanding: for no other reason is   *)
(* a server taken for dead after 8 s (update_heartbeat, client.rs:64-73,        *)
(* 141-149).                                                                 *)
PongAgeExplained ==
  \A i \in Conn :
    (server = i /\ link[i] = "up") => beat.pong <= (lost + 1) * (PingAfter + 1) + waited
=============================================================================
