------------------------------ MODULE P2PClient ------------------------------
(* The websocket client of src/src/p2p/client.rs: a write and a read thread    *)
(* per Client::connect, a thread per request of the server, the application    *)
(* that calls and connects again, and the statics they share. Time passes     *)
(* while a write thread sleeps.                                              *)
EXTENDS Naturals, Sequences, FiniteSets

CONSTANTS
  NumConns,        \* bound: calls of Client::connect
  Requests,        \* requests a server makes, each answered by its own thread
  MaxCalls,        \* bound: calls through each ClientSender
  PingAfter,       \* 2 s, in sleeps of the write thread: when to send a ping
  PongAfter,       \* 8 s, in sleeps of the write thread: when the server is late
  Environments     \* for each environment, which events may happen in it

EventKinds == {"call", "request", "hangup", "loss", "shutdown", "time"}
Conn == 1..NumConns

ASSUME ClientAssumption ==
  /\ NumConns \in Nat
  /\ MaxCalls \in Nat
  /\ PingAfter \in Nat /\ PongAfter \in Nat
  /\ Environments \subseteq SUBSET EventKinds
  /\ {"reader", "writer"} \cap Requests = {}

VARIABLES
  events,       \* the environment the client is in
  server,       \* SERVER: the connection whose writer it holds, 0 for None
  callbackOf,   \* CALLBACK: the connect that has set it, 0 for None
  beat,         \* HEARTBEAT: how long ago the last ping and the last pong were
  times,        \* per thread role and connection, what it has read of HEARTBEAT
                \* and when its pong came (forgotten once it is used)
  pc,           \* per thread role and connection, where the thread is, and
                \* where it goes on after close_server
  queue,        \* per connection, from its ClientSender to its write thread
  replies,      \* per connection, from its read thread to its ClientSender
  caller,       \* per connection, the ClientSender's user and how many calls
  link,         \* the server's end of each connection
  wire,         \* frames from the server not read yet
  asked,        \* calls the server has received and not answered yet
  pinged,       \* connections with a ping the server has not answered yet
  reports,      \* history: callbacks run, per connect that set them
  lost,         \* history: pongs in a row that a ping's update has undone
  waited        \* history: sleeps, since the last pong came, that ended while
                \* another was outstanding

statics == <<server, callbackOf>>
beats == <<beat, times, lost, waited>>
sender == <<queue, replies, caller>>
net == <<link, wire, asked, pinged>>
vars == <<events, statics, beats, pc, sender, net, reports>>

Roles == {"reader", "writer"} \cup Requests
Tags == [conn : Conn, n : 1..MaxCalls]     \* a call, and its reply
Shutdown == [kind |-> "shutdown"]
Call(t) == [kind |-> "call", tag |-> t]
Frame(k) == [kind |-> k]
Request(r) == [kind |-> "request", request |-> r]
Reply(t) == [kind |-> "reply", tag |-> t]

Goto(r, i, step) == pc' = [pc EXCEPT ![r][i].at = step]
Dead(r, i) == pc[r][i].at = "ended"

Now == [ping |-> 0, pong |-> 0]
Forget(r, i) == times' = [times EXCEPT ![r][i] = Now]

Init ==
  /\ events \in Environments
  /\ server = 0 /\ callbackOf = 0
  /\ beat = Now
  /\ times = [r \in Roles |-> [i \in Conn |-> Now]]
  /\ pc = [r \in Roles |-> [i \in Conn |-> [at |-> "none", then |-> "none"]]]
  /\ queue = [i \in Conn |-> <<>>]
  /\ replies = [i \in Conn |-> <<>>]
  /\ caller = [i \in Conn |-> [at |-> "absent", n |-> 0]]
  /\ link = [i \in Conn |-> "none"]
  /\ wire = [i \in Conn |-> <<>>]
  /\ asked = [i \in Conn |-> {}]
  /\ pinged = {}
  /\ reports = [i \in Conn |-> 0]
  /\ lost = 0 /\ waited = 0

----------------------------------------------------------------------------
(* Client::connect. The application connects again once its callback has run,  *)
(* from a thread of its own.                                                 *)

Connect(i) ==
  /\ link[i] = "none" /\ \A j \in 1..(i - 1) : reports[j] > 0
  /\ link' = [link EXCEPT ![i] = "up"]
  /\ server' = i
  /\ UNCHANGED <<callbackOf, beats, pc, sender, wire, asked, pinged, reports>>

ConnectSpawn(i) ==
  /\ link[i] # "none" /\ caller[i].at = "absent"
  /\ callbackOf' = i
  /\ pc' = [pc EXCEPT !["writer"][i].at = "start", !["reader"][i].at = "check"]
  /\ caller' = [caller EXCEPT ![i].at = "idle"]
  /\ UNCHANGED <<server, beats, queue, replies, net, reports>>

----------------------------------------------------------------------------
(* close_server, run by any thread: SERVER is looked at under one lock and     *)
(* cleared under another.                                                    *)

(* Slip: the callback runs for a server that is closed already. *)
IsNone == server = 0
IsSome == server # 0

CloseLook(r, i) ==
  /\ pc[r][i].at = "close"
  /\ Goto(r, i, IF IsSome THEN "report" ELSE "clear")
  /\ UNCHANGED <<statics, beats, sender, net, reports>>

CloseReport(r, i) ==
  /\ pc[r][i].at = "report"
  /\ reports' = [j \in Conn |-> reports[j] + IF j = callbackOf THEN 1 ELSE 0]
  /\ Goto(r, i, "clear")
  /\ UNCHANGED <<statics, beats, sender, net>>

CloseClear(r, i) ==
  /\ pc[r][i].at = "clear"
  /\ server' = 0
  /\ Goto(r, i, pc[r][i].then)
  /\ UNCHANGED <<callbackOf, beats, sender, net, reports>>

Close(r, i) == CloseLook(r, i) \/ CloseReport(r, i) \/ CloseClear(r, i)

CloseThen(r, i, next) == pc' = [pc EXCEPT ![r][i] = [at |-> "close", then |-> next]]

(* server_send: whichever thread sends, the frame goes to the connection in    *)
(* SERVER, and nowhere if there is none. A connection that is gone may or may  *)
(* not be noticed. Close, and a failure, end in close_server.                *)
SendThen(r, i, isClose, next) ==
  \E sent \in IF server # 0 /\ link[server] # "up" THEN {TRUE, FALSE} ELSE {TRUE} :
    IF server # 0 /\ (isClose \/ ~sent) THEN CloseThen(r, i, next) ELSE Goto(r, i, next)

Reaches == server # 0 /\ link[server] = "up"

----------------------------------------------------------------------------
(* update_heartbeat: both times are read under one lock and written back, one  *)
(* of them new, under another. A pong's time is taken before the first.       *)

BeatRead(r, i, pong, next) ==
  /\ times' = [times EXCEPT ![r][i] = [ping |-> beat.ping, pong |-> pong]]
  /\ Goto(r, i, next)
  /\ UNCHANGED <<statics, beat, lost, waited, sender, net, reports>>

BeatPing(r, i, next) ==
  /\ beat' = [ping |-> 0, pong |-> times[r][i].pong]
  /\ lost' = IF beat.pong < beat'.pong THEN lost + 1 ELSE lost
  /\ Forget(r, i)
  /\ Goto(r, i, next)
  /\ UNCHANGED <<waited, statics, sender, net, reports>>

(* Slip: the time of the pong is not stored. *)
OldPong(t) == [ping |-> t.ping, pong |-> beat.pong]
NewPong(t) == t

Updating == \E i \in Conn : pc["writer"][i].at = "beatPing"

BeatPong(r, i, t, next) ==
  /\ beat' = NewPong(t)
  /\ lost' = IF Updating THEN lost ELSE 0
  /\ waited' = IF Updating THEN waited ELSE t.pong
  /\ Forget(r, i)
  /\ Goto(r, i, next)
  /\ UNCHANGED <<statics, sender, net, reports>>

----------------------------------------------------------------------------
(* The write thread of connection i *)

(* Slip: the loop goes on whatever SERVER is. *)
GoesOn == TRUE
Open == server # 0

ThreadCheck(r, i, next) ==
  /\ pc[r][i].at = "check"
  /\ Goto(r, i, IF Open THEN next ELSE "ended")
  /\ UNCHANGED <<statics, beats, sender, net, reports>>

WriterStart(i) ==
  \/ pc["writer"][i].at = "start" /\ BeatRead("writer", i, beat.pong, "startPing")
  \/ pc["writer"][i].at = "startPing" /\ BeatPing("writer", i, "startPong")
  \/ pc["writer"][i].at = "startPong" /\ BeatPong("writer", i, Now, "check")

WriterLook(i) == pc["writer"][i].at = "look" /\ BeatRead("writer", i, beat.pong, "fetch")

WriterIdle(i) ==
  /\ pc["writer"][i].at = "fetch" /\ queue[i] = <<>>
  /\ Goto("writer", i, "alive")
  /\ UNCHANGED <<statics, beats, sender, net, reports>>

(* Slip: a text is not sent. *)
NoText(m) == {}
Text(m) == IF m = Shutdown THEN {} ELSE {m.tag}

WriterSend(i) ==
  /\ pc["writer"][i].at = "fetch" /\ queue[i] # <<>>
  /\ queue' = [queue EXCEPT ![i] = Tail(@)]
  /\ LET m == Head(queue[i]) IN
       /\ SendThen("writer", i, m = Shutdown, "alive")
       /\ asked' = IF Reaches THEN [asked EXCEPT ![server] = @ \cup Text(m)] ELSE asked
       /\ link' = IF Reaches /\ m = Shutdown THEN [link EXCEPT ![server] = "closing"] ELSE link
  /\ UNCHANGED <<statics, beats, replies, caller, wire, pinged, reports>>

WriterAlive(i) ==
  /\ pc["writer"][i].at = "alive"
  /\ IF times["writer"][i].pong > PongAfter
     THEN CloseThen("writer", i, "pinging")
     ELSE Goto("writer", i, "pinging")
  /\ UNCHANGED <<statics, beats, sender, net, reports>>

WriterPing(i) ==
  /\ pc["writer"][i].at = "pinging"
  /\ IF times["writer"][i].ping > PingAfter
     THEN /\ SendThen("writer", i, FALSE, "beat")
          /\ pinged' = IF Reaches THEN pinged \cup {server} ELSE pinged
     ELSE Goto("writer", i, "sleep") /\ UNCHANGED pinged
  /\ Forget("writer", i)
  /\ UNCHANGED <<statics, beat, lost, waited, sender, link, wire, asked, reports>>

WriterBeat(i) ==
  \/ pc["writer"][i].at = "beat" /\ BeatRead("writer", i, beat.pong, "beatPing")
  \/ pc["writer"][i].at = "beatPing" /\ BeatPing("writer", i, "sleep")

(* A sleep makes every time older. Bound: ages are not counted beyond what     *)
(* makes a difference. A pong is outstanding from the ping to the update; the  *)
(* read thread, which sleeps after each frame, may leave it waiting behind     *)
(* others.                                                                   *)
Least(a, b) == IF a < b THEN a ELSE b
OlderPong(n) == Least(n, PongAfter) + 1
Older(t) == [ping |-> Least(t.ping, PingAfter) + 1, pong |-> OlderPong(t.pong)]

Holds(r, i) ==
  pc[r][i].at \in IF r = "writer"
                  THEN {"startPing", "fetch", "alive", "pinging", "beatPing",
                        "close", "report", "clear"}
                  ELSE {"pong", "beatPong"}

InWire(i, f) == \E n \in 1..Len(wire[i]) : wire[i][n] = f
Outstanding(i) ==
  i \in pinged \/ InWire(i, Frame("pong")) \/ pc["reader"][i].at \in {"pong", "beatPong"}

WriterSleep(i) ==
  /\ pc["writer"][i].at = "sleep"
  /\ IF "time" \in events
     THEN /\ beat' = Older(beat)
          /\ times' = [r \in Roles |-> [j \in Conn |->
               IF Holds(r, j) THEN Older(times[r][j]) ELSE Now]]
          /\ waited' = IF Outstanding(i) THEN OlderPong(waited) ELSE waited
     ELSE UNCHANGED <<beat, times, waited>>
  /\ Goto("writer", i, "check")
  /\ UNCHANGED <<statics, lost, sender, net, reports>>

Writer(i) ==
  \/ WriterStart(i) \/ ThreadCheck("writer", i, "look") \/ WriterLook(i) \/ WriterIdle(i)
  \/ WriterSend(i) \/ WriterAlive(i) \/ WriterPing(i) \/ WriterBeat(i) \/ WriterSleep(i)
  \/ Close("writer", i)

----------------------------------------------------------------------------
(* The read thread of connection i *)

Receives(i, k) ==
  /\ pc["reader"][i].at = "recv"
  /\ wire[i] # <<>> /\ Head(wire[i]).kind = k
  /\ wire' = [wire EXCEPT ![i] = Tail(@)]
  /\ UNCHANGED <<link, asked, pinged>>

ReaderError(i) ==
  /\ pc["reader"][i].at = "recv" /\ link[i] = "gone" /\ wire[i] = <<>>
  /\ CloseThen("reader", i, "check")
  /\ UNCHANGED <<statics, beats, sender, net, reports>>

ReaderClose(i) ==
  /\ Receives(i, "close")
  /\ CloseThen("reader", i, "check")
  /\ UNCHANGED <<statics, beats, sender, reports>>

ReaderPong(i) ==
  \/ /\ Receives(i, "pong")
     /\ Goto("reader", i, "pong")
     /\ UNCHANGED <<statics, beats, sender, reports>>
  \/ pc["reader"][i].at = "pong" /\ BeatRead("reader", i, times["reader"][i].pong, "beatPong")
  \/ pc["reader"][i].at = "beatPong" /\ BeatPong("reader", i, times["reader"][i], "check")

ReaderRequest(i) ==
  /\ Receives(i, "request")
  /\ pc' = [pc EXCEPT ![Head(wire[i]).request][i].at = "run", !["reader"][i].at = "check"]
  /\ UNCHANGED <<statics, beats, sender, reports>>

ReaderReply(i) ==
  /\ Receives(i, "reply")
  /\ replies' = [replies EXCEPT ![i] = Append(@, Head(wire[i]).tag)]
  /\ Goto("reader", i, "check")
  /\ UNCHANGED <<statics, beats, queue, caller, reports>>

Reader(i) ==
  \/ ThreadCheck("reader", i, "recv") \/ ReaderError(i) \/ ReaderClose(i) \/ ReaderPong(i)
  \/ ReaderRequest(i) \/ ReaderReply(i) \/ Close("reader", i)

(* The thread that awaits the registered function and sends its result *)
Handler(r, i) ==
  \/ /\ pc[r][i].at = "run"
     /\ SendThen(r, i, FALSE, "ended")
     /\ UNCHANGED <<statics, beats, sender, net, reports>>
  \/ Close(r, i)

----------------------------------------------------------------------------
(* ClientSender: call and shutdown. Its receivers belong to one thread: a call *)
(* is over before the next one or a shutdown. The write thread owns the other  *)
(* end of the queue, the read thread the other end of the replies.           *)

CallSend(i) ==
  /\ "call" \in events /\ caller[i].at = "idle" /\ caller[i].n < MaxCalls /\ ~Dead("writer", i)
  /\ caller' = [caller EXCEPT ![i] = [at |-> "waiting", n |-> @.n + 1]]
  /\ queue' = [queue EXCEPT ![i] = Append(@, Call([conn |-> i, n |-> caller[i].n + 1]))]
  /\ UNCHANGED <<statics, beats, pc, replies, net, reports>>

CallReturn(i) ==
  /\ caller[i].at = "waiting" /\ replies[i] # <<>>
  /\ caller' = [caller EXCEPT ![i].at = "idle"]
  /\ replies' = [replies EXCEPT ![i] = Tail(@)]
  /\ UNCHANGED <<statics, beats, pc, queue, net, reports>>

CallFails(i) ==
  /\ caller[i].at = "waiting" /\ replies[i] = <<>> /\ Dead("reader", i)
  /\ caller' = [caller EXCEPT ![i].at = "idle"]
  /\ UNCHANGED <<statics, beats, pc, queue, replies, net, reports>>

(* Bound: one shutdown waits in a queue. *)
RequestShutdown(i) ==
  /\ "shutdown" \in events /\ caller[i].at = "idle" /\ ~Dead("writer", i)
  /\ queue[i] = <<>>
  /\ queue' = [queue EXCEPT ![i] = Append(@, Shutdown)]
  /\ UNCHANGED <<statics, beats, pc, replies, caller, net, reports>>

----------------------------------------------------------------------------
(* The environment: the server's end as src/src/p2p/server.rs runs it, and the *)
(* network.                                                                  *)

Sends(i, f) == link[i] = "up" /\ wire' = [wire EXCEPT ![i] = Append(@, f)]

(* Bounds: one pong is unread at a time, and answers all pings so far.        *)
ServerPong(i) ==
  /\ i \in pinged /\ ~InWire(i, Frame("pong")) /\ Sends(i, Frame("pong"))
  /\ pinged' = pinged \ {i}
  /\ UNCHANGED <<link, asked>>

ServerAnswer(i) ==
  \E t \in asked[i] :
    /\ Sends(i, Reply(t))
    /\ asked' = [asked EXCEPT ![i] = @ \ {t}]
    /\ UNCHANGED <<link, pinged>>

ServerRequest(r, i) ==
  /\ "request" \in events /\ pc[r][i].at = "none" /\ ~InWire(i, Request(r))
  /\ Sends(i, Request(r))
  /\ UNCHANGED <<link, asked, pinged>>

(* A server that shuts down sends Close and then nothing; one that has read    *)
(* Close ends the connection.                                                *)
ServerCloses(i) ==
  /\ \/ "hangup" \in events /\ Sends(i, Frame("close")) /\ link' = [link EXCEPT ![i] = "quiet"]
     \/ link[i] = "closing" /\ link' = [link EXCEPT ![i] = "gone"] /\ UNCHANGED wire
  /\ UNCHANGED <<asked, pinged>>

(* The connection breaks: what was on its way is cut off somewhere. *)
ServerLost(i) ==
  /\ "loss" \in events /\ link[i] \in {"up", "closing", "quiet"}
  /\ \E n \in 0..Len(wire[i]) : wire' = [wire EXCEPT ![i] = SubSeq(@, 1, n)]
  /\ link' = [link EXCEPT ![i] = "gone"]
  /\ UNCHANGED <<asked, pinged>>

Others == UNCHANGED <<events, statics, beats, pc, sender, reports>>
Server(i) ==
  /\ ServerPong(i) \/ ServerAnswer(i) \/ ServerCloses(i) \/ ServerLost(i)
       \/ \E r \in Requests : ServerRequest(r, i)
  /\ Others

----------------------------------------------------------------------------
CallStep(i) == CallReturn(i) \/ CallFails(i)

Step ==
  \/ \E i \in Conn :
       \/ Connect(i) \/ ConnectSpawn(i) \/ Writer(i) \/ Reader(i) \/ Server(i)
       \/ CallSend(i) \/ CallStep(i) \/ RequestShutdown(i)
  \/ \E r \in Requests, i \in Conn : Handler(r, i)

Next == Step /\ UNCHANGED events

Spec == Init /\ [][Next]_vars

(* Threads that can run do run; a server answers calls and pings and ends a    *)
(* connection it is told to close. Nobody has to connect, call or hang up.    *)
Fairness ==
  \A i \in Conn :
    /\ WF_vars(ConnectSpawn(i) /\ UNCHANGED events)
    /\ WF_vars(Reader(i) /\ UNCHANGED events) /\ WF_vars(Writer(i) /\ UNCHANGED events)
    /\ WF_vars(CallStep(i) /\ UNCHANGED events)
    /\ \A r \in Requests : WF_vars(Handler(r, i) /\ UNCHANGED events)
    /\ WF_vars(ServerPong(i) /\ Others) /\ WF_vars(ServerAnswer(i) /\ Others)
    /\ WF_vars(link[i] = "closing" /\ ServerCloses(i) /\ Others)

FairSpec == Spec /\ Fairness
==============================================================================
