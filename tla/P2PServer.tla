------------------------------ MODULE P2PServer ------------------------------
(* The websocket server of src/src/p2p/server.rs after one call of            *)
(* Server::listen: a controller and a worker thread, a read and a write       *)
(* thread per connection, a thread per request being answered, the            *)
(* application's callers, and the lock-protected tables they share.           *)
EXTENDS Naturals, Sequences, FiniteSets

CONSTANTS
  NumConns,        \* bound: connections made to the server
  MaxConnection,   \* the max_connection argument of listen, 0 for no limit
  Requests,        \* requests a client makes, each answered by its own thread
  Callers,         \* application threads that use a ServerClient
  MethodOf,        \* the method a caller calls
  TargetOf,        \* the client id a caller has set with set_id
  MaxCalls,        \* bound: calls per caller
  Events           \* which of the environment's events may happen

EventKinds ==
  {"ping", "hangup", "loss", "bad", "handshake", "late", "shutdown"}
Conn == 1..NumConns
Methods == {MethodOf[k] : k \in Callers}

ASSUME ServerAssumption ==
  /\ NumConns \in Nat
  /\ MaxConnection \in Nat
  /\ MaxCalls \in Nat
  /\ MethodOf \in [Callers -> Methods]
  /\ TargetOf \in [Callers -> Conn]
  /\ Events \subseteq EventKinds
  /\ {"reader", "writer"} \cap Requests = {}

VARIABLES
  stop,           \* STOP
  controller,     \* state of the controller thread
  ctl,            \* messages from ServerClients to the controller
  worker,         \* what the worker thread does next
  lastId,         \* the worker's client_id
  clients,        \* CLIENTS: no entry, Some(writer) or None
  heartbeats,     \* HEARTBEATS: no entry, a fresh one or one older than 8 s
  beatGuard,      \* write threads that hold HEARTBEATS.read()
  serverClients,  \* keys of SERVER_CLIENTS
  receivers,      \* keys of RESPONSE_RECEIVERS
  poisoned,       \* locks whose holder has panicked
  queue,          \* per connection, from the controller to the write thread
  replies,        \* per connection and method, from read thread to callers
  pc,             \* per thread role and connection, the thread's next step
  wire,           \* frames from each client not read yet
  asked,          \* calls a client has received and not answered yet
  peer,           \* the client's end of each connection
  caller,         \* per caller, where it is in Caller::call and how many calls
  answers,        \* history: which reply each call returned
  ups, downs      \* history: reports to the listen callback

control  == <<stop, controller, ctl>>
accepts  == <<worker, lastId>>
tables   == <<clients, heartbeats, beatGuard, serverClients, receivers, poisoned>>
channels == <<queue, replies>>
link     == <<wire, asked, peer>>
calls    == <<caller, answers>>
reports  == <<ups, downs>>
vars == <<control, accepts, tables, channels, pc, link, calls, reports>>

Roles == {"reader", "writer"} \cup Requests
Tags  == [caller : Callers, n : 1..MaxCalls]    \* a call, and its reply
Shutdown  == [kind |-> "shutdown"]
Call(t)   == [kind |-> "call", tag |-> t]
Messages  == {Shutdown} \cup {Call(t) : t \in Tags}
Frame(k)  == [kind |-> k]
Request(r) == [kind |-> "request", request |-> r]
Reply(t)  == [kind |-> "reply", tag |-> t]
Frames == {Frame(k) : k \in {"ping", "close", "eof", "bad"}}
            \cup {Request(r) : r \in Requests} \cup {Reply(t) : t \in Tags}
CloseSteps == {"close", "report", "heartbeats", "senders", "receivers"}
Steps == {"none", "check", "recv", "ping", "pong", "fetch", "beat", "run",
          "ended", "panicked"} \cup CloseSteps
WorkerSteps == {"check", "accept", "receivers", "announce", "clients", "beat",
                "ended", "panicked"}

Dead(r, i) == pc[r][i] \in {"ended", "panicked"}
Goto(r, i, step) == pc' = [pc EXCEPT ![r][i] = step]

(* Callers between taking RESPONSE_RECEIVERS.read() and returning. *)
ReadLocked == \E k \in Callers : caller[k].at # "idle"

Init ==
  /\ stop = FALSE /\ controller = "loop" /\ ctl = <<>>
  /\ worker = "check" /\ lastId = 0
  /\ clients = [i \in Conn |-> "absent"]
  /\ heartbeats = [i \in Conn |-> "none"]
  /\ beatGuard = {} /\ serverClients = {} /\ receivers = {} /\ poisoned = {}
  /\ queue = [i \in Conn |-> <<>>]
  /\ replies = [i \in Conn |-> [m \in Methods |-> <<>>]]
  /\ pc = [r \in Roles |-> [i \in Conn |-> "none"]]
  /\ wire = [i \in Conn |-> <<>>]
  /\ asked = [i \in Conn |-> {}]
  /\ peer = [i \in Conn |-> "absent"]
  /\ caller = [k \in Callers |-> [at |-> "idle", n |-> 0]]
  /\ answers = {}
  /\ ups = [i \in Conn |-> 0] /\ downs = [i \in Conn |-> 0]

----------------------------------------------------------------------------
(* The controller thread *)

ControllerStop ==
  /\ controller = "loop" /\ stop
  /\ controller' = "ended"
  /\ UNCHANGED <<stop, ctl, accepts, tables, channels, pc, link, calls, reports>>

(* serverclient.send(message).unwrap() fails once the write thread is gone. *)
Unreachable(S) == {i \in S \cap serverClients : Dead("writer", i)}

(* The panicking thread drops the guards it holds, which poisons their locks. *)
ControllerPanics(locks) ==
  /\ controller' = "panicked"
  /\ poisoned' = poisoned \cup locks

Post(S, m) == queue' = [i \in Conn |-> IF i \in S THEN Append(queue[i], m) ELSE queue[i]]

ControllerForward ==
  /\ controller = "loop" /\ ~stop
  /\ ctl # <<>> /\ Head(ctl).kind = "call"
  /\ ctl' = Tail(ctl)
  /\ LET i == TargetOf[Head(ctl).tag.caller] IN
       IF Unreachable({i}) = {}
       THEN /\ Post({i} \cap serverClients, Head(ctl))
            /\ UNCHANGED <<controller, poisoned>>
       ELSE /\ ControllerPanics({"SERVER_CLIENTS"})
            /\ UNCHANGED queue
  /\ UNCHANGED <<stop, accepts, clients, heartbeats, beatGuard, serverClients,
                 receivers, replies, pc, link, calls, reports>>

(* The table is walked in no particular order: a panic leaves some of the    *)
(* clients without the message.                                              *)
ControllerShutdown ==
  /\ controller = "loop" /\ ~stop
  /\ ctl # <<>> /\ Head(ctl).kind = "shutdown"
  /\ ctl' = Tail(ctl)
  /\ stop' = TRUE
  /\ LET all == {i \in Conn : clients[i] # "absent"}
         dead == Unreachable(all)
         reachable == (all \cap serverClients) \ dead IN
       IF dead = {}
       THEN /\ Post(reachable, Shutdown)
            /\ UNCHANGED <<controller, poisoned>>
       ELSE /\ \E S \in SUBSET reachable : Post(S, Shutdown)
            /\ ControllerPanics({"CLIENTS", "SERVER_CLIENTS"})
  /\ UNCHANGED <<accepts, clients, heartbeats, beatGuard, serverClients,
                 receivers, replies, pc, link, calls, reports>>

----------------------------------------------------------------------------
(* The worker thread *)

Worker(from, to) == worker = from /\ worker' = to

WorkerCheck ==
  /\ Worker("check", IF stop THEN "ended" ELSE "accept")
  /\ UNCHANGED <<control, lastId, tables, channels, pc, link, calls, reports>>

(* Slip: > for >=. *)
FullLate == MaxConnection > 0
          /\ Cardinality({i \in Conn : clients[i] # "absent"}) > MaxConnection

Full == MaxConnection > 0
          /\ Cardinality({i \in Conn : clients[i] # "absent"}) >= MaxConnection

WorkerReject ==
  /\ Full /\ "CLIENTS" \notin poisoned
  /\ Worker("accept", "check")
  /\ UNCHANGED <<control, lastId, tables, channels, pc, link, calls, reports>>

(* Slip: client_id is not counted up. *)
SameId == lastId
NextId == lastId + 1

WorkerAccept ==
  /\ ~Full /\ poisoned = {}
  /\ lastId < NumConns
  /\ Worker("accept", "receivers")
  /\ lastId' = NextId
  /\ serverClients' = serverClients \cup {lastId'}
  /\ peer' = [peer EXCEPT ![lastId'] = "up"]
  /\ UNCHANGED <<control, clients, heartbeats, beatGuard, receivers, poisoned,
                 channels, pc, wire, asked, calls, reports>>

WorkerReceivers ==
  /\ ~ReadLocked
  /\ Worker("receivers", "announce")
  /\ receivers' = receivers \cup {lastId}
  /\ UNCHANGED <<control, lastId, clients, heartbeats, beatGuard, serverClients,
                 poisoned, channels, pc, link, calls, reports>>

WorkerReport ==
  /\ Worker("announce", "clients")
  /\ ups' = [ups EXCEPT ![lastId] = @ + 1]
  /\ UNCHANGED <<control, lastId, tables, channels, pc, link, calls, downs>>

WorkerClients ==
  /\ "CLIENTS" \notin poisoned
  /\ Worker("clients", "beat")
  /\ clients' = [clients EXCEPT ![lastId] = "live"]
  /\ UNCHANGED <<control, lastId, heartbeats, beatGuard, serverClients, receivers,
                 poisoned, channels, pc, link, calls, reports>>

WorkerSpawn ==
  /\ beatGuard = {}
  /\ Worker("beat", "check")
  /\ heartbeats' = [heartbeats EXCEPT ![lastId] = "fresh"]
  /\ pc' = [pc EXCEPT !["reader"][lastId] = "check", !["writer"][lastId] = "check"]
  /\ UNCHANGED <<control, lastId, clients, beatGuard, serverClients, receivers,
                 poisoned, channels, link, calls, reports>>

(* unwrap() of a failed handshake or of a poisoned lock *)
WorkerPanics ==
  /\ \/ worker = "accept" /\ ("CLIENTS" \in poisoned \/ (~Full /\ poisoned # {}))
     \/ worker = "accept" /\ "handshake" \in Events
     \/ worker = "clients" /\ "CLIENTS" \in poisoned
  /\ worker' = "panicked"
  /\ UNCHANGED <<control, lastId, tables, channels, pc, link, calls, reports>>

----------------------------------------------------------------------------
(* close_client(i), run by any thread of connection i *)

(* What the thread does after client_send or close_client returns. *)
After(r) == IF r = "reader" THEN "check" ELSE IF r = "writer" THEN "beat" ELSE "ended"

ThreadPanics(r, i) ==
  /\ Goto(r, i, "panicked")
  /\ beatGuard' = IF r = "writer" THEN beatGuard \ {i} ELSE beatGuard
  /\ UNCHANGED <<control, accepts, clients, heartbeats, serverClients, receivers,
                 poisoned, channels, link, calls, reports>>

(* insert(id, None) tells whether the entry was Some(writer) until now. Slips: *)
(* report in any case; return when another thread has closed the client.      *)
ReportAnyway(r, i) == "report"
ReturnEarly(r, i) == IF clients[i] = "live" THEN "report" ELSE After(r)
AfterInsert(r, i) == IF clients[i] = "live" THEN "report" ELSE "heartbeats"

CloseClients(r, i) ==
  /\ pc[r][i] = "close" /\ "CLIENTS" \notin poisoned
  /\ clients' = [clients EXCEPT ![i] = "closed"]
  /\ Goto(r, i, AfterInsert(r, i))
  /\ UNCHANGED <<control, accepts, heartbeats, beatGuard, serverClients, receivers,
                 poisoned, channels, link, calls, reports>>

CloseReport(r, i) ==
  /\ pc[r][i] = "report"
  /\ downs' = [downs EXCEPT ![i] = @ + 1]
  /\ Goto(r, i, "heartbeats")
  /\ UNCHANGED <<control, accepts, tables, channels, link, calls, ups>>

CloseHeartbeats(r, i) ==
  /\ pc[r][i] = "heartbeats" /\ beatGuard = {}
  /\ heartbeats' = [heartbeats EXCEPT ![i] = "none"]
  /\ Goto(r, i, "senders")
  /\ UNCHANGED <<control, accepts, clients, beatGuard, serverClients, receivers,
                 poisoned, channels, link, calls, reports>>

CloseSenders(r, i) ==
  /\ pc[r][i] = "senders" /\ "SERVER_CLIENTS" \notin poisoned
  /\ serverClients' = serverClients \ {i}
  /\ Goto(r, i, "receivers")
  /\ UNCHANGED <<control, accepts, clients, heartbeats, beatGuard, receivers,
                 poisoned, channels, link, calls, reports>>

(* Slip: call clones the receiver and lets go of the lock. *)
NotAwaited == TRUE
Unlocked == ~ReadLocked

(* Dropping the receivers drops what they have not handed out. *)
CloseReceivers(r, i) ==
  /\ pc[r][i] = "receivers" /\ Unlocked
  /\ receivers' = receivers \ {i}
  /\ replies' = [replies EXCEPT ![i] = [m \in Methods |-> <<>>]]
  /\ Goto(r, i, After(r))
  /\ UNCHANGED <<control, accepts, clients, heartbeats, beatGuard, serverClients,
                 poisoned, queue, link, calls, reports>>

(* unwrap() of a poisoned lock, in close_client, client_send or the loops *)
LockPanics(r, i) ==
  /\ \/ "CLIENTS" \in poisoned /\ pc[r][i] \in {"check", "pong", "run", "close"}
     \/ "CLIENTS" \in poisoned /\ pc[r][i] = "fetch" /\ queue[i] # <<>>
     \/ "SERVER_CLIENTS" \in poisoned /\ pc[r][i] = "senders"
  /\ ThreadPanics(r, i)

Close(r, i) ==
  \/ CloseClients(r, i) \/ CloseReport(r, i) \/ CloseHeartbeats(r, i)
  \/ CloseSenders(r, i) \/ CloseReceivers(r, i) \/ LockPanics(r, i)

(* client_send: an entry that is None refuses the message, a connection that *)
(* is gone may or may not notice. Any failure, and Close, ends in            *)
(* close_client.                                                             *)
SendResults(i) ==
  IF clients[i] = "closed" THEN {FALSE}
  ELSE IF peer[i] = "gone" THEN {TRUE, FALSE} ELSE {TRUE}

ClientSend(r, i, isClose) ==
  /\ "CLIENTS" \notin poisoned
  /\ \E sent \in SendResults(i) :
       Goto(r, i, IF sent /\ ~isClose THEN After(r) ELSE "close")

Listening(i) == clients[i] = "live" /\ peer[i] = "up"

----------------------------------------------------------------------------
(* The read thread of connection i *)

(* Each loop of a connection first looks whether close_client has run. *)
ThreadCheck(r, i, next) ==
  /\ pc[r][i] = "check" /\ "CLIENTS" \notin poisoned
  /\ Goto(r, i, IF clients[i] = "live" THEN next ELSE "ended")
  /\ UNCHANGED <<control, accepts, tables, channels, link, calls, reports>>

Receives(i, k) ==
  /\ pc["reader"][i] = "recv"
  /\ wire[i] # <<>> /\ Head(wire[i]).kind = k
  /\ wire' = [wire EXCEPT ![i] = Tail(@)]
  /\ UNCHANGED <<asked, peer>>

(* Slip: a read error only ends this round of the loop. *)
NextRound == "check"
OnClose == "close"

ReaderClose(i) ==
  /\ Receives(i, "close") \/ Receives(i, "eof")
  /\ Goto("reader", i, OnClose)
  /\ UNCHANGED <<control, accepts, tables, channels, calls, reports>>

ReaderPing(i) ==
  /\ Receives(i, "ping")
  /\ Goto("reader", i, "ping")
  /\ UNCHANGED <<control, accepts, tables, channels, calls, reports>>

(* udapte_heartbeat: the entry is made again if close_client removed it *)
ReaderBeat(i) ==
  /\ pc["reader"][i] = "ping" /\ beatGuard = {}
  /\ heartbeats' = [heartbeats EXCEPT ![i] = "fresh"]
  /\ Goto("reader", i, "pong")
  /\ UNCHANGED <<control, accepts, clients, beatGuard, serverClients, receivers,
                 poisoned, channels, link, calls, reports>>

ReaderPong(i) ==
  /\ pc["reader"][i] = "pong"
  /\ ClientSend("reader", i, FALSE)
  /\ UNCHANGED <<control, accepts, tables, channels, link, calls, reports>>

ReaderRequest(i) ==
  /\ Receives(i, "request")
  /\ pc' = [pc EXCEPT !["reader"][i] = "check", ![Head(wire[i]).request][i] = "run"]
  /\ UNCHANGED <<control, accepts, tables, channels, calls, reports>>

ReaderReply(i) ==
  /\ Receives(i, "reply")
  /\ LET t == Head(wire[i]).tag IN
       IF i \in receivers
       THEN /\ replies' = [replies EXCEPT ![i][MethodOf[t.caller]] = Append(@, t)]
            /\ Goto("reader", i, "check")
       ELSE /\ Goto("reader", i, "panicked")
            /\ UNCHANGED replies
  /\ UNCHANGED <<control, accepts, tables, queue, calls, reports>>

(* A frame that is no text, no Wrapper or names no registered method *)
ReaderPanics(i) ==
  /\ Receives(i, "bad")
  /\ Goto("reader", i, "panicked")
  /\ UNCHANGED <<control, accepts, tables, channels, calls, reports>>

Reader(i) ==
  \/ ThreadCheck("reader", i, "recv") \/ ReaderClose(i) \/ ReaderPing(i) \/ ReaderBeat(i)
  \/ ReaderPong(i) \/ ReaderRequest(i) \/ ReaderReply(i) \/ ReaderPanics(i)
  \/ Close("reader", i)

----------------------------------------------------------------------------
(* The write thread of connection i *)

WriterIdle(i) ==
  /\ pc["writer"][i] = "fetch" /\ queue[i] = <<>>
  /\ Goto("writer", i, "beat")
  /\ UNCHANGED <<control, accepts, tables, channels, link, calls, reports>>

(* A message becomes a Close frame or a text frame. Slips: the message is not  *)
(* compared; a text is dropped.                                              *)
AlwaysText(m) == FALSE
IsClose(m) == m = Shutdown
NoText(m) == {}
Text(m) == IF m = Shutdown THEN {} ELSE {m.tag}

WriterSend(i) ==
  /\ pc["writer"][i] = "fetch" /\ queue[i] # <<>>
  /\ queue' = [queue EXCEPT ![i] = Tail(@)]
  /\ LET m == Head(queue[i]) IN
       /\ ClientSend("writer", i, IsClose(m))
       /\ asked' = IF Listening(i) THEN [asked EXCEPT ![i] = @ \cup Text(m)] ELSE asked
       /\ peer' = IF Listening(i) /\ IsClose(m) THEN [peer EXCEPT ![i] = "closing"] ELSE peer
  /\ UNCHANGED <<control, accepts, tables, replies, wire, calls, reports>>

(* The guard of HEARTBEATS.read() lives until the end of the if let: the     *)
(* thread enters close_client with it.                                       *)
WriterBeat(i) ==
  /\ pc["writer"][i] = "beat"
  /\ IF heartbeats[i] = "late"
     THEN /\ beatGuard' = beatGuard \cup {i}
          /\ Goto("writer", i, "close")
     ELSE /\ Goto("writer", i, "check")
          /\ UNCHANGED beatGuard
  /\ UNCHANGED <<control, accepts, clients, heartbeats, serverClients, receivers,
                 poisoned, channels, link, calls, reports>>

Writer(i) ==
  \/ ThreadCheck("writer", i, "fetch") \/ WriterIdle(i) \/ WriterSend(i) \/ WriterBeat(i)
  \/ Close("writer", i)

(* The thread that awaits the registered function and sends its result *)
HandlerReply(r, i) ==
  /\ pc[r][i] = "run"
  /\ ClientSend(r, i, FALSE)
  /\ UNCHANGED <<control, accepts, tables, channels, link, calls, reports>>

Handler(r, i) == HandlerReply(r, i) \/ Close(r, i)

----------------------------------------------------------------------------
(* ServerClient: call and shutdown *)

Tag(k) == [caller |-> k, n |-> caller[k].n]
At(k, from, to) ==
  caller[k].at = from /\ caller' = [caller EXCEPT ![k] = [at |-> to, n |-> caller[k].n]]

(* active(), then RESPONSE_RECEIVERS.read(), held until call returns. A call  *)
(* that finds no entry returns an error and changes nothing.                 *)
CallBegin(k) ==
  /\ caller[k].at = "idle" /\ caller[k].n < MaxCalls
  /\ "CLIENTS" \notin poisoned /\ \E i \in Conn : clients[i] # "absent"
  /\ TargetOf[k] \in receivers
  /\ caller' = [caller EXCEPT ![k] = [at |-> "sending", n |-> caller[k].n + 1]]
  /\ UNCHANGED <<control, accepts, tables, channels, pc, link, answers, reports>>

CallSend(k) ==
  /\ At(k, "sending", IF controller = "loop" THEN "waiting" ELSE "idle")
  /\ ctl' = IF controller = "loop" THEN Append(ctl, Call(Tag(k))) ELSE ctl
  /\ UNCHANGED <<stop, controller, accepts, tables, channels, pc, link, answers, reports>>

(* recv() takes the reply out. Slip: it is only looked at. *)
Peeked(q) == q
Received(q) == Tail(q)

CallReturn(k) ==
  /\ At(k, "waiting", "idle")
  /\ LET i == TargetOf[k]
         m == MethodOf[k] IN
       /\ replies[i][m] # <<>>
       /\ answers' = answers \cup {[call |-> Tag(k), reply |-> Head(replies[i][m])]}
       /\ replies' = [replies EXCEPT ![i][m] = Received(@)]
  /\ UNCHANGED <<control, accepts, tables, queue, pc, link, reports>>

(* The read thread owns the senders: recv() fails when they are gone and      *)
(* nothing is left to receive. The worker owns them before it spawns it.     *)
SendersDropped(i) == Dead("reader", i) \/ (pc["reader"][i] = "none" /\ worker = "panicked")

CallFails(k) ==
  /\ At(k, "waiting", "idle")
  /\ SendersDropped(TargetOf[k]) /\ replies[TargetOf[k]][MethodOf[k]] = <<>>
  /\ UNCHANGED <<control, accepts, tables, channels, pc, link, answers, reports>>

(* Bound: shutdown is requested once. A message to an ended controller fails. *)
RequestShutdown ==
  /\ "shutdown" \in Events /\ controller = "loop" /\ ~stop
  /\ \A n \in 1..Len(ctl) : ctl[n] # Shutdown
  /\ ctl' = Append(ctl, Shutdown)
  /\ UNCHANGED <<stop, controller, accepts, tables, channels, pc, link, calls, reports>>

----------------------------------------------------------------------------
(* The environment: the client's end as src/src/p2p/client.rs runs it, the    *)
(* network, and time.                                                        *)

InWire(i, f) == \E n \in 1..Len(wire[i]) : wire[i][n] = f
(* Frames that no read thread will read are left out. *)
Sends(i, f) ==
  /\ peer[i] \in {"up", "closing"} /\ ~Dead("reader", i)
  /\ wire' = [wire EXCEPT ![i] = Append(@, f)]

(* Bound: one ping unread at a time. *)
PeerPing(i) ==
  /\ "ping" \in Events /\ ~InWire(i, Frame("ping"))
  /\ Sends(i, Frame("ping"))
  /\ UNCHANGED <<asked, peer>>

PeerRequest(r, i) ==
  /\ pc[r][i] = "none" /\ ~InWire(i, Request(r))
  /\ Sends(i, Request(r))
  /\ UNCHANGED <<asked, peer>>

(* Each call is answered by a thread of its own: in any order. *)
PeerAnswer(i) ==
  \E t \in asked[i] :
    /\ Sends(i, Reply(t))
    /\ asked' = [asked EXCEPT ![i] = @ \ {t}]
    /\ UNCHANGED peer

(* The client shuts down, or has read the server's Close. *)
PeerCloses(i) ==
  /\ \/ peer[i] = "up" /\ "hangup" \in Events /\ Sends(i, Frame("close"))
     \/ peer[i] = "closing" /\ Sends(i, Frame("eof"))
  /\ peer' = [peer EXCEPT ![i] = "gone"]
  /\ asked' = [asked EXCEPT ![i] = {}]

(* The connection breaks: what was on its way is cut off somewhere. *)
PeerLost(i) ==
  /\ "loss" \in Events /\ peer[i] \in {"up", "closing"}
  /\ \E n \in 0..Len(wire[i]) :
       wire' = [wire EXCEPT ![i] = Append(SubSeq(@, 1, n), Frame("eof"))]
  /\ peer' = [peer EXCEPT ![i] = "gone"]
  /\ asked' = [asked EXCEPT ![i] = {}]

PeerBad(i) ==
  /\ "bad" \in Events
  /\ ~InWire(i, Frame("bad"))
  /\ Sends(i, Frame("bad"))
  /\ UNCHANGED <<asked, peer>>

Peer(i) ==
  /\ PeerPing(i) \/ PeerAnswer(i) \/ PeerCloses(i) \/ PeerLost(i) \/ PeerBad(i)
       \/ \E r \in Requests : PeerRequest(r, i)
  /\ UNCHANGED <<control, accepts, tables, channels, pc, calls, reports>>

(* More than 8 s without a ping *)
HeartbeatLate(i) ==
  /\ "late" \in Events /\ heartbeats[i] = "fresh"
  /\ heartbeats' = [heartbeats EXCEPT ![i] = "late"]
  /\ UNCHANGED <<control, accepts, clients, beatGuard, serverClients, receivers,
                 poisoned, channels, pc, link, calls, reports>>

----------------------------------------------------------------------------
Controller == ControllerStop \/ ControllerForward \/ ControllerShutdown
WorkerStep == WorkerCheck \/ WorkerReject \/ WorkerAccept \/ WorkerReceivers \/ WorkerReport
                \/ WorkerClients \/ WorkerSpawn \/ WorkerPanics
CallStep(k) == CallSend(k) \/ CallReturn(k) \/ CallFails(k)

Next ==
  \/ Controller \/ WorkerStep \/ RequestShutdown
  \/ \E k \in Callers : CallBegin(k) \/ CallStep(k)
  \/ \E i \in Conn : Reader(i) \/ Writer(i) \/ Peer(i) \/ HeartbeatLate(i)
  \/ \E r \in Requests, i \in Conn : Handler(r, i)

Spec == Init /\ [][Next]_vars

(* Threads that can run do run, except that nobody has to connect, call, send *)
(* a ping or lose a connection; a client answers what it is asked and closes  *)
(* when told to.                                                             *)
Fairness ==
  /\ WF_vars(Controller)
  /\ WF_vars(WorkerCheck) /\ WF_vars(WorkerReceivers) /\ WF_vars(WorkerReport)
  /\ WF_vars(WorkerClients) /\ WF_vars(WorkerSpawn)
  /\ \A k \in Callers : WF_vars(CallStep(k))
  /\ \A i \in Conn :
       /\ WF_vars(Reader(i)) /\ WF_vars(Writer(i))
       /\ \A r \in Requests : WF_vars(Handler(r, i))
       /\ WF_vars(PeerAnswer(i) /\ UNCHANGED <<control, accepts, tables, channels, pc, calls, reports>>)
       /\ WF_vars(peer[i] = "closing" /\ PeerCloses(i)
                    /\ UNCHANGED <<control, accepts, tables, channels, pc, calls, reports>>)

FairSpec == Spec /\ Fairness
==============================================================================
