---------------------------- MODULE ClientReports ----------------------------
(* What the server promises the callback given to Server::listen             *)
(* (src/src/p2p/server.rs): client ids are announced one after another, each *)
(* once, and each announced client is reported gone at most once, afterwards. *)
EXTENDS Naturals

CONSTANT NumConns    \* bound: connections the server accepts

Conn == 1..NumConns

VARIABLES ups, downs   \* how often the callback saw (i, true) and (i, false)
vars == <<ups, downs>>

Init ==
  /\ ups = [i \in Conn |-> 0]
  /\ downs = [i \in Conn |-> 0]

Up(i) ==
  /\ ups[i] = 0
  /\ \A j \in 1..(i - 1) : ups[j] = 1
  /\ ups' = [ups EXCEPT ![i] = 1]
  /\ UNCHANGED downs

Down(i) ==
  /\ ups[i] = 1
  /\ downs[i] = 0
  /\ downs' = [downs EXCEPT ![i] = 1]
  /\ UNCHANGED ups

Next == \E i \in Conn : Up(i) \/ Down(i)

Spec == Init /\ [][Next]_vars
==============================================================================
