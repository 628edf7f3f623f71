------------------------ MODULE P2PServerProperties ------------------------
(* What the server of P2PServer.tla has to get right.                       *)
EXTENDS P2PServer

(* Every variable stays in its range: the tables, the program counters of the *)
(* threads, the frames and messages on their way.                            *)
TypeOK ==
  /\ stop \in BOOLEAN
  /\ controller \in {"loop", "ended", "panicked"}
  /\ ctl \in Seq(Messages)
  /\ worker \in WorkerSteps
  /\ lastId \in 0..NumConns
  /\ clients \in [Conn -> {"absent", "live", "closed"}]
  /\ heartbeats \in [Conn -> {"none", "fresh", "late"}]
  /\ beatGuard \in SUBSET Conn
  /\ serverClients \in SUBSET Conn
  /\ receivers \in SUBSET Conn
  /\ poisoned \in SUBSET {"CLIENTS", "SERVER_CLIENTS"}
  /\ queue \in [Conn -> Seq(Messages)]
  /\ replies \in [Conn -> [Methods -> Seq(Tags)]]
  /\ pc \in [Roles -> [Conn -> Steps]]
  /\ wire \in [Conn -> Seq(Frames)]
  /\ asked \in [Conn -> SUBSET Tags]
  /\ peer \in [Conn -> {"absent", "up", "closing", "gone"}]
  /\ caller \in [Callers -> [at : {"idle", "sending", "waiting"}, n : 0..MaxCalls]]
  /\ answers \in SUBSET [call : Tags, reply : Tags]
  /\ ups \in [Conn -> Nat]
  /\ downs \in [Conn -> Nat]

(* The callback of listen sees each client come once and go at most once and  *)
(* later, whichever of the connection's threads notice that it is gone        *)
(* (callback in close_client, server.rs:55-63, and in the worker, 184).      *)
Promise == INSTANCE ClientReports
ReportsKept == Promise!Spec

(* When the last thread of a connection has returned, close_client has been   *)
(* run to its end: no table still has an entry for the client, although a     *)
(* read thread may enter its heartbeat again after the removal               *)
(* (server.rs:60-62, 66), and the application has been told.                 *)
Returned(i) ==
  /\ pc["reader"][i] = "ended" /\ pc["writer"][i] = "ended"
  /\ \A r \in Requests : pc[r][i] \in {"none", "ended"}
ClosedLeavesNothing ==
  \A i \in Conn : Returned(i) =>
    /\ clients[i] = "closed" /\ downs[i] = 1
    /\ heartbeats[i] = "none"
    /\ i \notin serverClients /\ i \notin receivers

(* A call returns the reply to the request it sent, this time and not an       *)
(* earlier one, as long as nobody else calls the same method of the same       *)
(* client; replies are told apart by method and client only (server.rs:235,    *)
(* 326-338), so callers that share both may get each other's.                 *)
Shares(k, l) == MethodOf[k] = MethodOf[l] /\ TargetOf[k] = TargetOf[l]
OwnReply ==
  \A x \in answers :
    /\ Shares(x.call.caller, x.reply.caller)
    /\ x.reply = x.call \/ \E l \in Callers \ {x.call.caller} : Shares(x.call.caller, l)

(* The read thread never unwraps a failed send of a reply (server.rs:236):     *)
(* whoever closes the client, its receivers stay until the call is over.      *)
ReplyHasReceiver ==
  \A i \in Conn :
    (pc["reader"][i] = "recv" /\ wire[i] # <<>> /\ Head(wire[i]).kind = "reply")
      => i \in receivers

(* No more than max_connection clients are in the table, however the worker    *)
(* and the closing threads interleave (server.rs:168).                       *)
ConnectionLimit ==
  MaxConnection > 0 => Cardinality({i \in Conn : clients[i] # "absent"}) <= MaxConnection

(* A call returns, unless its client goes away before it has answered, the      *)
(* server is shut down, or the controller has panicked, which it does on a     *)
(* message to any client that is just leaving (server.rs:139): nobody forwards *)
(* the call then, though its own client may be there.                        *)
CallReturns ==
  \A k \in Callers :
    []<>(caller[k].at = "idle" \/ stop \/ controller = "panicked" \/ peer[TargetOf[k]] = "gone")

(* A call that keeps RESPONSE_RECEIVERS locked (server.rs:326-338) and the read *)
(* thread that should hand it its reply or the end of its replies wait for     *)
(* each other: that thread is in close_client and wants the lock (62).         *)
Deadlocked ==
  \E k \in Callers :
    /\ caller[k].at = "waiting"
    /\ replies[TargetOf[k]][MethodOf[k]] = <<>>
    /\ pc["reader"][TargetOf[k]] = "receivers"

(* The application learns of a client that went away, even while a call keeps  *)
(* close_client from finishing, unless the client is not registered yet: the   *)
(* worker waits (server.rs:183) for a call that is in a deadlock with the read *)
(* thread of another client, or that the controller, having panicked, will     *)
(* never forward. A panic that poisons CLIENTS (143-152) ends the rest.       *)
HangupReported ==
  \A i \in Conn :
    []<>(peer[i] = "gone"
           => \/ downs[i] = 1 \/ "CLIENTS" \in poisoned
              \/ worker = "receivers" /\ lastId = i /\ (Deadlocked \/ controller = "panicked"))

(* A client the controller told to shut down is closed, reported and left by   *)
(* its threads (server.rs:143-152, 262-263), unless a call keeps               *)
(* RESPONSE_RECEIVERS locked.                                                *)
ShutdownCloses ==
  \A i \in Conn : (\E n \in 1..Len(queue[i]) : queue[i][n] = Shutdown)
    ~> (ReadLocked \/ controller = "panicked"
          \/ (Dead("reader", i) /\ Dead("writer", i) /\ downs[i] = 1))

----------------------------------------------------------------------------
(* What a comment says and the code does not do. *)

(* "check connection alive status" (server.rs:268): a client that the write    *)
(* thread has found not alive, and is about to close, leaves the tables.       *)
NotAliveRemoved ==
  \A i \in Conn : (i \in beatGuard /\ pc["writer"][i] = "close") ~> (i \notin serverClients)
=============================================================================
