-------------------------- MODULE P2PServer_proofs --------------------------
(***************************************************************************)
(* Proofs about the server of P2PServer.tla, for any number of connections,  *)
(* clients' requests, callers and calls: its types, what it reports, what a  *)
(* closed connection leaves behind, and which reply a call returns.          *)
(***************************************************************************)
EXTENDS P2PServerProperties, FiniteSetTheorems, TLAPS

(* A caller inside Caller::call has counted the call it is making.            *)
CallsCounted == \A k \in Callers : caller[k].at # "idle" => caller[k].n \in 1..MaxCalls

(* While the worker registers a connection, its id is one it has assigned.    *)
IdAssigned == worker \in {"receivers", "announce", "clients", "beat"} => lastId \in Conn

TypeInv == TypeOK /\ CallsCounted /\ IdAssigned

LEMMA TypeInit == Init => TypeInv
<1> SUFFICES ASSUME Init PROVE TypeInv
  OBVIOUS
<1> USE ServerAssumption DEF Init
<1>1. /\ queue \in [Conn -> Seq(Messages)]
      /\ replies \in [Conn -> [Methods -> Seq(Tags)]]
      /\ wire \in [Conn -> Seq(Frames)]
      /\ ctl \in Seq(Messages)
  OBVIOUS
<1>2. /\ caller \in [Callers -> [at : {"idle", "sending", "waiting"}, n : 0..MaxCalls]]
      /\ CallsCounted
  BY DEF CallsCounted
<1>3. pc \in [Roles -> [Conn -> Steps]]
  BY DEF Steps
<1>4. lastId \in 0..NumConns /\ worker \in WorkerSteps /\ IdAssigned
  BY DEF WorkerSteps, IdAssigned
<1> QED BY <1>1, <1>2, <1>3, <1>4 DEF TypeInv, TypeOK

(* A thread that goes on with another step.                                   *)
LEMMA TypeGoto ==
  ASSUME TypeOK, NEW r \in Roles, NEW i \in Conn, NEW step \in Steps, Goto(r, i, step)
  PROVE  pc' \in [Roles -> [Conn -> Steps]]
  BY DEF TypeOK, Goto

(* close_client keeps the types.                                             *)
LEMMA TypeClose ==
  ASSUME NEW r \in Roles, NEW i \in Conn, TypeInv, Close(r, i)
  PROVE  TypeInv'
<1> USE ServerAssumption DEF TypeInv, TypeOK, CallsCounted, IdAssigned, Steps, CloseSteps, Goto,
      control, accepts, tables, channels, link, calls, reports
<1>1. CASE CloseClients(r, i)
  BY <1>1 DEF CloseClients, AfterInsert
<1>2. CASE CloseReport(r, i)
  BY <1>2 DEF CloseReport
<1>3. CASE CloseHeartbeats(r, i)
  BY <1>3 DEF CloseHeartbeats
<1>4. CASE CloseSenders(r, i)
  BY <1>4 DEF CloseSenders
<1>5. CASE CloseReceivers(r, i)
  BY <1>5 DEF CloseReceivers, After
<1>6. CASE LockPanics(r, i)
  BY <1>6 DEF LockPanics, ThreadPanics
<1> QED BY <1>1, <1>2, <1>3, <1>4, <1>5, <1>6 DEF Close

(* What is left of a connection's frames when one has been read.              *)
LEMMA TypeReceives ==
  ASSUME TypeOK, NEW i \in Conn, NEW k, Receives(i, k)
  PROVE  /\ wire' \in [Conn -> Seq(Frames)]
         /\ asked' = asked /\ peer' = peer
         /\ Head(wire[i]) \in Frames /\ Head(wire[i]).kind = k
  BY DEF TypeOK, Receives

(* The read thread keeps the types.                                          *)
LEMMA TypeReader ==
  ASSUME NEW i \in Conn, TypeInv, Reader(i)
  PROVE  TypeInv'
<1> USE ServerAssumption DEF TypeInv, TypeOK, CallsCounted, IdAssigned, Steps, CloseSteps, Goto,
      control, accepts, tables, channels, link, calls, reports, Roles
<1>1. CASE ThreadCheck("reader", i, "recv")
  BY <1>1 DEF ThreadCheck
<1>2. CASE ReaderClose(i)
  BY <1>2, TypeReceives DEF ReaderClose, OnClose
<1>3. CASE ReaderPing(i)
  BY <1>3, TypeReceives DEF ReaderPing
<1>4. CASE ReaderBeat(i)
  BY <1>4 DEF ReaderBeat
<1>5. CASE ReaderPong(i)
  BY <1>5 DEF ReaderPong, ClientSend, After
<1>6. CASE ReaderRequest(i)
  <2>1. Head(wire[i]) \in Frames /\ Head(wire[i]).kind = "request"
        /\ wire' \in [Conn -> Seq(Frames)] /\ asked' = asked /\ peer' = peer
    BY <1>6, TypeReceives DEF ReaderRequest
  <2>2. Head(wire[i]).request \in Requests
    BY <2>1 DEF Frames, Frame, Request, Reply
  <2>3. pc' \in [Roles -> [Conn -> Steps]]
    BY <1>6, <2>2 DEF ReaderRequest
  <2> QED BY <1>6, <2>1, <2>3 DEF ReaderRequest
<1>7. CASE ReaderReply(i)
  <2>1. Head(wire[i]) \in Frames /\ Head(wire[i]).kind = "reply"
        /\ wire' \in [Conn -> Seq(Frames)] /\ asked' = asked /\ peer' = peer
    BY <1>7, TypeReceives DEF ReaderReply
  <2>2. Head(wire[i]).tag \in Tags
    BY <2>1 DEF Frames, Frame, Request, Reply
  <2>3. MethodOf[Head(wire[i]).tag.caller] \in Methods
    BY <2>2 DEF Tags, Methods
  <2>4. replies' \in [Conn -> [Methods -> Seq(Tags)]] /\ pc' \in [Roles -> [Conn -> Steps]]
    <3> DEFINE t == Head(wire[i]).tag
    <3>1. CASE i \in receivers
      <4>1. replies' = [replies EXCEPT ![i][MethodOf[t.caller]] = Append(@, t)]
            /\ Goto("reader", i, "check")
        BY <1>7, <3>1 DEF ReaderReply
      <4> DEFINE m == MethodOf[t.caller]
      <4>2. replies[i] \in [Methods -> Seq(Tags)] /\ m \in Methods
        BY <2>3
      <4>3. Append(replies[i][m], t) \in Seq(Tags)
        BY <2>2, <4>2
      <4>4. replies' \in [Conn -> [Methods -> Seq(Tags)]]
        BY <4>1, <4>2, <4>3
      <4> QED BY <4>1, <4>4, TypeGoto
    <3>2. CASE i \notin receivers
      <4>1. replies' = replies /\ Goto("reader", i, "panicked")
        BY <1>7, <3>2 DEF ReaderReply
      <4> QED BY <4>1, TypeGoto
    <3> QED BY <3>1, <3>2
  <2> QED BY <1>7, <2>1, <2>4 DEF ReaderReply
<1>8. CASE ReaderPanics(i)
  BY <1>8, TypeReceives DEF ReaderPanics
<1>9. CASE Close("reader", i)
  BY <1>9, TypeClose
<1> QED BY <1>1, <1>2, <1>3, <1>4, <1>5, <1>6, <1>7, <1>8, <1>9 DEF Reader

(* The write thread keeps the types.                                         *)
LEMMA TypeWriter ==
  ASSUME NEW i \in Conn, TypeInv, Writer(i)
  PROVE  TypeInv'
<1> USE ServerAssumption DEF TypeInv, TypeOK, CallsCounted, IdAssigned, Steps, CloseSteps, Goto,
      control, accepts, tables, channels, link, calls, reports, Roles
<1>1. CASE ThreadCheck("writer", i, "fetch")
  BY <1>1 DEF ThreadCheck
<1>2. CASE WriterIdle(i)
  BY <1>2 DEF WriterIdle
<1>3. CASE WriterSend(i)
  <2>1. queue[i] \in Seq(Messages) /\ queue[i] # <<>>
    BY <1>3 DEF WriterSend
  <2>2. Head(queue[i]) \in Messages
    BY <2>1
  <2>3. Head(queue[i]) # Shutdown => Head(queue[i]).tag \in Tags
    BY <2>2 DEF Messages, Call
  <2>4. queue' \in [Conn -> Seq(Messages)]
    BY <1>3, <2>1 DEF WriterSend
  <2>5. asked' \in [Conn -> SUBSET Tags]
    <3>1. Text(Head(queue[i])) \subseteq Tags
      BY <2>3 DEF Text
    <3>2. asked' = [asked EXCEPT ![i] = @ \cup Text(Head(queue[i]))] \/ asked' = asked
      BY <1>3 DEF WriterSend
    <3>3. asked[i] \cup Text(Head(queue[i])) \in SUBSET Tags
      BY <3>1
    <3> QED BY <3>2, <3>3
  <2>6. peer' \in [Conn -> {"absent", "up", "closing", "gone"}]
    BY <1>3 DEF WriterSend
  <2>7. pc' \in [Roles -> [Conn -> Steps]]
    BY <1>3 DEF WriterSend, ClientSend, After
  <2> QED BY <1>3, <2>4, <2>5, <2>6, <2>7 DEF WriterSend
<1>4. CASE WriterBeat(i)
  <2>1. beatGuard' \in SUBSET Conn
    BY <1>4 DEF WriterBeat
  <2>2. \E step \in {"close", "check"} : Goto("writer", i, step)
    BY <1>4 DEF WriterBeat
  <2>3. pc' \in [Roles -> [Conn -> Steps]]
    BY <2>2, TypeGoto
  <2> QED BY <1>4, <2>1, <2>3 DEF WriterBeat
<1>5. CASE Close("writer", i)
  BY <1>5, TypeClose
<1> QED BY <1>1, <1>2, <1>3, <1>4, <1>5 DEF Writer

(* A thread that answers a request keeps the types.                           *)
LEMMA TypeHandler ==
  ASSUME NEW r \in Requests, NEW i \in Conn, TypeInv, Handler(r, i)
  PROVE  TypeInv'
<1>1. CASE HandlerReply(r, i)
  BY <1>1, ServerAssumption
  DEF HandlerReply, ClientSend, After, TypeInv, TypeOK, CallsCounted, IdAssigned, Steps, CloseSteps,
      Goto, control, accepts, tables, channels, link, calls, reports, Roles
<1>2. CASE Close(r, i)
  BY <1>2, TypeClose DEF Roles
<1> QED BY <1>1, <1>2 DEF Handler

(* Messages the controller hands on are messages of the write threads.        *)
LEMMA TypePost ==
  ASSUME TypeOK, NEW S, NEW m \in Messages, Post(S, m)
  PROVE  queue' \in [Conn -> Seq(Messages)]
  BY DEF TypeOK, Post

(* The controller keeps the types.                                           *)
LEMMA TypeController ==
  ASSUME TypeInv, Controller
  PROVE  TypeInv'
<1> USE ServerAssumption DEF TypeInv, TypeOK, CallsCounted, IdAssigned,
      control, accepts, tables, channels, link, calls, reports
<1>1. CASE ControllerStop
  BY <1>1 DEF ControllerStop
<1>2. CASE ControllerForward
  <2>1. Head(ctl) \in Messages /\ ctl' \in Seq(Messages)
    BY <1>2 DEF ControllerForward
  <2>2. queue' \in [Conn -> Seq(Messages)]
    BY <1>2, <2>1, TypePost DEF ControllerForward
  <2> QED BY <1>2, <2>1, <2>2 DEF ControllerForward, ControllerPanics
<1>3. CASE ControllerShutdown
  <2>1. Shutdown \in Messages /\ ctl' \in Seq(Messages)
    BY <1>3 DEF ControllerShutdown, Messages
  <2>2. queue' \in [Conn -> Seq(Messages)]
    BY <1>3, <2>1, TypePost DEF ControllerShutdown
  <2> QED BY <1>3, <2>1, <2>2 DEF ControllerShutdown, ControllerPanics
<1> QED BY <1>1, <1>2, <1>3 DEF Controller

(* The worker keeps the types.                                               *)
LEMMA TypeWorker ==
  ASSUME TypeInv, WorkerStep
  PROVE  TypeInv'
<1> USE ServerAssumption DEF TypeInv, TypeOK, CallsCounted, IdAssigned, WorkerSteps, Worker,
      control, accepts, tables, channels, link, calls, reports
<1>1. CASE WorkerCheck
  BY <1>1 DEF WorkerCheck
<1>2. CASE WorkerReject
  BY <1>2 DEF WorkerReject
<1>3. CASE WorkerAccept
  <2>1. lastId' \in 0..NumConns /\ lastId' \in Conn
    BY <1>3 DEF WorkerAccept, NextId, Conn
  <2>2. peer' \in [Conn -> {"absent", "up", "closing", "gone"}]
    BY <1>3, <2>1 DEF WorkerAccept
  <2> QED BY <1>3, <2>1, <2>2 DEF WorkerAccept
<1>4. CASE WorkerReceivers
  BY <1>4 DEF WorkerReceivers
<1>5. CASE WorkerReport
  <2>1. ups' \in [Conn -> Nat]
    BY <1>5 DEF WorkerReport
  <2> QED BY <1>5, <2>1 DEF WorkerReport
<1>6. CASE WorkerClients
  BY <1>6 DEF WorkerClients
<1>7. CASE WorkerSpawn
  BY <1>7 DEF WorkerSpawn, Steps
<1>8. CASE WorkerPanics
  BY <1>8 DEF WorkerPanics
<1> QED BY <1>1, <1>2, <1>3, <1>4, <1>5, <1>6, <1>7, <1>8 DEF WorkerStep

(* A step of a caller from one place in call to the next.                     *)
LEMMA TypeAt ==
  ASSUME TypeInv, NEW k \in Callers, NEW from \in {"sending", "waiting"},
         NEW to \in {"idle", "sending", "waiting"}, At(k, from, to)
  PROVE  /\ caller' \in [Callers -> [at : {"idle", "sending", "waiting"}, n : 0..MaxCalls]]
         /\ CallsCounted'
<1>1. caller[k].n \in 1..MaxCalls
  BY DEF TypeInv, CallsCounted, At
<1> QED BY <1>1, ServerAssumption DEF TypeInv, TypeOK, CallsCounted, At

(* The callers keep the types.                                               *)
LEMMA TypeCaller ==
  ASSUME TypeInv, NEW k \in Callers, CallBegin(k) \/ CallStep(k)
  PROVE  TypeInv'
<1> USE ServerAssumption DEF TypeInv, TypeOK, CallsCounted, IdAssigned,
      control, accepts, tables, channels, link, calls, reports
<1>0. caller[k].at # "idle" => Tag(k) \in Tags
  BY DEF Tag, Tags
<1>1. CASE CallBegin(k)
  <2>1. caller' \in [Callers -> [at : {"idle", "sending", "waiting"}, n : 0..MaxCalls]]
    BY <1>1 DEF CallBegin
  <2>2. caller[k].n + 1 \in 1..MaxCalls
        /\ caller' = [caller EXCEPT ![k] = [at |-> "sending", n |-> caller[k].n + 1]]
    BY <1>1 DEF CallBegin
  <2>3. CallsCounted'
    BY <2>2
  <2> QED BY <1>1, <2>1, <2>3 DEF CallBegin
<1>2. CASE CallSend(k)
  <2>1. Call(Tag(k)) \in Messages
    BY <1>2, <1>0 DEF CallSend, At, Messages
  <2>2. ctl' \in Seq(Messages)
    BY <1>2, <2>1 DEF CallSend
  <2> QED BY <1>2, <2>2, TypeAt DEF CallSend
<1>3. CASE CallReturn(k)
  <2>1. TargetOf[k] \in Conn /\ MethodOf[k] \in Methods
    BY DEF Methods
  <2>2. replies[TargetOf[k]][MethodOf[k]] \in Seq(Tags)
        /\ replies[TargetOf[k]][MethodOf[k]] # <<>>
    BY <1>3, <2>1 DEF CallReturn
  <2>3. Head(replies[TargetOf[k]][MethodOf[k]]) \in Tags
        /\ Received(replies[TargetOf[k]][MethodOf[k]]) \in Seq(Tags)
    BY <2>2 DEF Received
  <2>4. answers' \in SUBSET [call : Tags, reply : Tags]
    BY <1>3, <1>0, <2>3 DEF CallReturn, At
  <2>5. replies' \in [Conn -> [Methods -> Seq(Tags)]]
    BY <1>3, <2>1, <2>3 DEF CallReturn
  <2> QED BY <1>3, <2>4, <2>5, TypeAt DEF CallReturn
<1>4. CASE CallFails(k)
  BY <1>4, TypeAt DEF CallFails
<1> QED BY <1>1, <1>2, <1>3, <1>4 DEF CallStep

(* The environment keeps the types.                                          *)
LEMMA TypeEnvironment ==
  ASSUME TypeInv, RequestShutdown \/ \E i \in Conn : Peer(i) \/ HeartbeatLate(i)
  PROVE  TypeInv'
<1> USE ServerAssumption DEF TypeInv, TypeOK, CallsCounted, IdAssigned, Sends,
      control, accepts, tables, channels, link, calls, reports
<1>1. ASSUME NEW i \in Conn, Peer(i) PROVE TypeInv'
  <2>1. \A f \in Frames : Sends(i, f) => wire' \in [Conn -> Seq(Frames)]
    OBVIOUS
  <2>2. \A k \in {"ping", "close", "eof", "bad"} : Frame(k) \in Frames
    BY DEF Frames
  <2>3. \A t \in Tags : Reply(t) \in Frames
    BY DEF Frames
  <2>4. \A r \in Requests : Request(r) \in Frames
    BY DEF Frames
  <2> DEFINE Link == /\ wire' \in [Conn -> Seq(Frames)]
                     /\ asked' \in [Conn -> SUBSET Tags]
                     /\ peer' \in [Conn -> {"absent", "up", "closing", "gone"}]
  <2>5. CASE PeerPing(i)
    <3>1. Link BY <2>1, <2>2, <2>5 DEF PeerPing
    <3> QED BY <1>1, <3>1 DEF Peer
  <2>6. CASE PeerAnswer(i)
    <3>1. Link BY <2>1, <2>3, <2>6 DEF PeerAnswer
    <3> QED BY <1>1, <3>1 DEF Peer
  <2>7. CASE PeerCloses(i)
    <3>1. Link BY <2>1, <2>2, <2>7 DEF PeerCloses
    <3> QED BY <1>1, <3>1 DEF Peer
  <2>8. CASE PeerLost(i)
    <3>1. \A n \in 0..Len(wire[i]) : Append(SubSeq(wire[i], 1, n), Frame("eof")) \in Seq(Frames)
      BY <2>2
    <3>2. Link BY <3>1, <2>8 DEF PeerLost
    <3> QED BY <1>1, <3>2 DEF Peer
  <2>9. CASE PeerBad(i)
    <3>1. Link BY <2>1, <2>2, <2>9 DEF PeerBad
    <3> QED BY <1>1, <3>1 DEF Peer
  <2>10. CASE \E r \in Requests : PeerRequest(r, i)
    <3>1. Link BY <2>1, <2>4, <2>10 DEF PeerRequest
    <3> QED BY <1>1, <3>1 DEF Peer
  <2> QED BY <1>1, <2>5, <2>6, <2>7, <2>8, <2>9, <2>10 DEF Peer
<1>2. ASSUME NEW i \in Conn, HeartbeatLate(i) PROVE TypeInv'
  BY <1>2 DEF HeartbeatLate
<1>3. CASE RequestShutdown
  <2>1. Shutdown \in Messages
    BY DEF Messages
  <2>2. ctl' \in Seq(Messages)
    BY <1>3, <2>1 DEF RequestShutdown
  <2> QED BY <1>3, <2>2 DEF RequestShutdown
<1> QED BY <1>1, <1>2, <1>3

(* Every step keeps the types.                                               *)
LEMMA TypeStep == TypeInv /\ [Next]_vars => TypeInv'
<1> SUFFICES ASSUME TypeInv, [Next]_vars PROVE TypeInv'
  OBVIOUS
<1>1. CASE Controller
  BY <1>1, TypeController
<1>2. CASE WorkerStep
  BY <1>2, TypeWorker
<1>3. CASE RequestShutdown
  BY <1>3, TypeEnvironment
<1>4. ASSUME NEW k \in Callers, CallBegin(k) \/ CallStep(k) PROVE TypeInv'
  BY <1>4, TypeCaller
<1>5. ASSUME NEW i \in Conn, Reader(i) \/ Writer(i) \/ Peer(i) \/ HeartbeatLate(i)
      PROVE  TypeInv'
  BY <1>5, TypeReader, TypeWriter, TypeEnvironment
<1>6. ASSUME NEW r \in Requests, NEW i \in Conn, Handler(r, i) PROVE TypeInv'
  BY <1>6, TypeHandler
<1>7. CASE UNCHANGED vars
  BY <1>7 DEF vars, control, accepts, tables, channels, link, calls, reports,
              TypeInv, TypeOK, CallsCounted, IdAssigned
<1> QED BY <1>1, <1>2, <1>3, <1>4, <1>5, <1>6, <1>7 DEF Next

(* The tables, program counters and messages keep their ranges in every run.  *)
THEOREM TypeCorrect == Spec => []TypeOK
<1>1. Init => TypeInv
  BY TypeInit
<1>2. TypeInv /\ [Next]_vars => TypeInv'
  BY TypeStep
<1>3. TypeInv => TypeOK
  BY DEF TypeInv
<1> QED BY <1>1, <1>2, <1>3, PTL DEF Spec

----------------------------------------------------------------------------
(* The reports to the callback of listen. What has to hold in between: which   *)
(* ids are announced, which clients are in the table, and that only the thread *)
(* whose insert(id, None) took the writer out goes on to the callback.        *)

Announced(i) == i < lastId \/ (i = lastId /\ worker \notin {"receivers", "announce"})

ReportInv ==
  /\ \A i \in Conn : ups[i] = IF Announced(i) THEN 1 ELSE 0
  /\ \A i \in Conn : clients[i] # "absent" => Announced(i)
  /\ worker = "clients" => clients[lastId] = "absent"
  /\ worker = "beat" => clients[lastId] # "absent"
  /\ \A r \in Roles, i \in Conn : pc[r][i] # "none" => clients[i] # "absent"
  /\ \A i \in Conn : downs[i] = 0 \/ (downs[i] = 1 /\ clients[i] = "closed")
  /\ \A r \in Roles, i \in Conn :
       pc[r][i] = "report" => clients[i] = "closed" /\ downs[i] = 0
  /\ \A r, s \in Roles, i \in Conn :
       pc[r][i] = "report" /\ pc[s][i] = "report" => r = s

LEMMA ReportInit == Init => ReportInv
  BY ServerAssumption DEF Init, ReportInv, Announced, Conn

(* Steps that report nothing, leave CLIENTS alone and bring no thread to the   *)
(* callback.                                                                 *)
Unreported == UNCHANGED <<ups, downs, clients, lastId, worker>>

LEMMA ReportQuiet ==
  ASSUME TypeInv, ReportInv, Unreported, UNCHANGED pc
  PROVE  ReportInv'
  BY DEF ReportInv, Announced, Unreported

LEMMA ReportGoto ==
  ASSUME TypeInv, ReportInv, NEW r \in Roles, NEW i \in Conn, NEW step \in Steps \ {"report"},
         pc[r][i] # "none", Unreported, Goto(r, i, step)
  PROVE  ReportInv'
<1> USE DEF Unreported, Goto, TypeInv, TypeOK
<1>1. \A s \in Roles, j \in Conn : pc'[s][j] = IF s = r /\ j = i THEN step ELSE pc[s][j]
  OBVIOUS
<1>2. \A s \in Roles, j \in Conn : pc'[s][j] # "none" => clients[j] # "absent"
  BY <1>1 DEF ReportInv
<1>3. \A s \in Roles, j \in Conn : pc'[s][j] = "report" => pc[s][j] = "report"
  BY <1>1
<1> QED BY <1>2, <1>3 DEF ReportInv, Announced

(* close_client: only the thread that took the writer out reports.            *)
LEMMA ReportClose ==
  ASSUME TypeInv, ReportInv, NEW r \in Roles, NEW i \in Conn, Close(r, i)
  PROVE  /\ ReportInv'
         /\ UNCHANGED <<ups, downs>> \/ Promise!Down(i)
<1> USE DEF Steps, CloseSteps, Unreported, control, accepts, tables, channels, link, calls, reports
<1>1. CASE CloseClients(r, i)
  <2>1. /\ pc[r][i] = "close" /\ pc \in [Roles -> [Conn -> Steps]]
        /\ clients \in [Conn -> {"absent", "live", "closed"}]
        /\ clients' = [clients EXCEPT ![i] = "closed"]
        /\ UNCHANGED <<ups, downs, lastId, worker>>
    BY <1>1 DEF CloseClients, TypeInv, TypeOK
  <2>2. clients[i] # "absent"
    BY <2>1 DEF ReportInv
  <2>3. \A s \in Roles, j \in Conn :
          pc'[s][j] = IF s = r /\ j = i
                      THEN IF clients[i] = "live" THEN "report" ELSE "heartbeats"
                      ELSE pc[s][j]
    BY <1>1, <2>1 DEF CloseClients, AfterInsert, Goto
  <2>4. \A s \in Roles, j \in Conn : pc'[s][j] # "none" => clients'[j] # "absent"
    BY <2>1, <2>3 DEF ReportInv
  <2>5. \A s \in Roles, j \in Conn :
          pc'[s][j] = "report" => clients'[j] = "closed" /\ downs'[j] = 0
    BY <2>1, <2>3 DEF ReportInv
  <2>6. \A s, t \in Roles, j \in Conn :
          pc'[s][j] = "report" /\ pc'[t][j] = "report" => s = t
    <3>1. clients[i] = "live" => \A s \in Roles : pc[s][i] # "report"
      BY DEF ReportInv
    <3> QED BY <2>3, <3>1 DEF ReportInv
  <2>7. \A j \in Conn : downs'[j] = 0 \/ (downs'[j] = 1 /\ clients'[j] = "closed")
    BY <2>1 DEF ReportInv
  <2>8. /\ \A j \in Conn : ups'[j] = IF Announced(j)' THEN 1 ELSE 0
        /\ \A j \in Conn : clients'[j] # "absent" => Announced(j)'
    BY <2>1, <2>2 DEF ReportInv, Announced
  <2>9. /\ worker' = "clients" => clients'[lastId'] = "absent"
        /\ worker' = "beat" => clients'[lastId'] # "absent"
    BY <2>1, <2>2 DEF ReportInv, TypeInv, IdAssigned
  <2> QED BY <2>1, <2>4, <2>5, <2>6, <2>7, <2>8, <2>9 DEF ReportInv
<1>2. CASE CloseReport(r, i)
  <2>1. /\ pc[r][i] = "report" /\ pc \in [Roles -> [Conn -> Steps]]
        /\ downs \in [Conn -> Nat] /\ downs' = [downs EXCEPT ![i] = @ + 1]
        /\ UNCHANGED <<ups, clients, lastId, worker>>
    BY <1>2 DEF CloseReport, TypeInv, TypeOK
  <2>2. clients[i] = "closed" /\ downs[i] = 0 /\ ups[i] = 1
    BY <2>1 DEF ReportInv
  <2>3. \A s \in Roles, j \in Conn :
          pc'[s][j] = IF s = r /\ j = i THEN "heartbeats" ELSE pc[s][j]
    BY <1>2, <2>1 DEF CloseReport, Goto
  <2>4. \A s \in Roles : pc'[s][i] # "report"
    BY <2>1, <2>3 DEF ReportInv
  <2>5. ReportInv'
    BY <2>1, <2>2, <2>3, <2>4 DEF ReportInv, Announced
  <2>6. Promise!Down(i)
    BY <2>1, <2>2 DEF Promise!Down
  <2> QED BY <2>5, <2>6
<1>3. CASE CloseHeartbeats(r, i)
  BY <1>3, ReportGoto DEF CloseHeartbeats
<1>4. CASE CloseSenders(r, i)
  BY <1>4, ReportGoto DEF CloseSenders
<1>5. CASE CloseReceivers(r, i)
  BY <1>5, ReportGoto DEF CloseReceivers, After
<1>6. CASE LockPanics(r, i)
  BY <1>6, ReportGoto DEF LockPanics, ThreadPanics
<1> QED BY <1>1, <1>2, <1>3, <1>4, <1>5, <1>6 DEF Close

(* The other steps of a connection's threads.                                *)
LEMMA ReportThread ==
  ASSUME TypeInv, ReportInv, NEW i \in Conn,
         Reader(i) \/ Writer(i) \/ \E r \in Requests : Handler(r, i)
  PROVE  /\ ReportInv'
         /\ UNCHANGED <<ups, downs>> \/ Promise!Down(i)
<1> USE DEF Steps, Unreported, Roles, control, accepts, tables, channels, link, calls, reports
<1>1. ASSUME NEW r \in Roles, Close(r, i)
      PROVE  ReportInv' /\ (UNCHANGED <<ups, downs>> \/ Promise!Down(i))
  BY <1>1, ReportClose
<1>2. ASSUME NEW r \in Roles, NEW next \in {"recv", "fetch"}, ThreadCheck(r, i, next)
      PROVE  ReportInv' /\ UNCHANGED <<ups, downs>>
  BY <1>2, ReportGoto DEF ThreadCheck
<1>3. CASE ReaderClose(i) \/ ReaderPing(i) \/ ReaderPanics(i)
  <2>1. /\ pc["reader"][i] = "recv" /\ Unreported
        /\ \E step \in {"close", "ping", "panicked"} : Goto("reader", i, step)
    BY <1>3 DEF ReaderClose, OnClose, ReaderPing, ReaderPanics, Receives
  <2> QED BY <2>1, ReportGoto DEF CloseSteps
<1>4. CASE ReaderBeat(i)
  BY <1>4, ReportGoto DEF ReaderBeat
<1>5. CASE ReaderReply(i)
  BY <1>5, ReportGoto DEF ReaderReply, Receives
<1>6. CASE WriterIdle(i)
  BY <1>6, ReportGoto DEF WriterIdle
<1>7. CASE WriterBeat(i)
  <2>1. /\ pc["writer"][i] = "beat" /\ Unreported
        /\ \E step \in {"close", "check"} : Goto("writer", i, step)
    BY <1>7 DEF WriterBeat
  <2> QED BY <2>1, ReportGoto DEF CloseSteps
<1>8. ASSUME NEW r \in Roles, NEW b \in BOOLEAN, ClientSend(r, i, b)
      PROVE  \E step \in {"close", "check", "beat", "ended"} : Goto(r, i, step)
  BY <1>8 DEF ClientSend, After
<1>9. CASE ReaderPong(i)
  BY <1>9, <1>8, ReportGoto DEF ReaderPong, CloseSteps
<1>10. CASE WriterSend(i)
  <2>1. pc["writer"][i] = "fetch" /\ Unreported
    BY <1>10 DEF WriterSend
  <2>2. \E step \in {"close", "check", "beat", "ended"} : Goto("writer", i, step)
    BY <1>10, <1>8 DEF WriterSend, IsClose
  <2> QED BY <2>1, <2>2, ReportGoto DEF CloseSteps
<1>11. CASE \E r \in Requests : HandlerReply(r, i)
  BY <1>11, <1>8, ReportGoto DEF HandlerReply, CloseSteps
<1>12. CASE ReaderRequest(i)
  <2>1. pc["reader"][i] = "recv" /\ Unreported
    BY <1>12 DEF ReaderRequest, Receives
  <2>5. clients[i] # "absent"
    BY <2>1 DEF ReportInv
  <2>2. \A s \in Roles, j \in Conn :
          pc'[s][j] = pc[s][j] \/ (j = i /\ pc'[s][j] \in {"check", "run"})
    BY <1>12 DEF ReaderRequest, TypeInv, TypeOK
  <2>3. \A s \in Roles, j \in Conn : pc'[s][j] # "none" => clients[j] # "absent"
    BY <2>5, <2>2 DEF ReportInv
  <2>4. \A s \in Roles, j \in Conn : pc'[s][j] = "report" => pc[s][j] = "report"
    BY <2>2
  <2> QED BY <2>1, <2>3, <2>4 DEF ReportInv, Announced
<1> QED BY <1>1, <1>2, <1>3, <1>4, <1>5, <1>6, <1>7, <1>9, <1>10, <1>11, <1>12
        DEF Reader, Writer, Handler

(* The worker announces the id after the one announced last.                  *)
LEMMA ReportWorker ==
  ASSUME TypeInv, ReportInv, WorkerStep
  PROVE  /\ ReportInv'
         /\ UNCHANGED <<ups, downs>> \/ \E i \in Conn : Promise!Up(i)
<1> USE ServerAssumption DEF Worker, control, accepts, tables, channels, link, calls, reports
<1>1. CASE WorkerCheck \/ WorkerReject \/ WorkerPanics
  BY <1>1 DEF WorkerCheck, WorkerReject, WorkerPanics, ReportInv, Announced
<1>2. CASE WorkerAccept
  BY <1>2 DEF WorkerAccept, NextId, ReportInv, Announced, TypeInv, TypeOK, Conn
<1>3. CASE WorkerReceivers
  BY <1>3 DEF WorkerReceivers, ReportInv, Announced
<1>4. CASE WorkerReport
  <2>1. /\ worker = "announce" /\ worker' = "clients" /\ lastId \in Conn
        /\ UNCHANGED <<lastId, clients, pc, downs>>
        /\ ups \in [Conn -> Nat] /\ ups' = [ups EXCEPT ![lastId] = @ + 1]
    BY <1>4 DEF WorkerReport, TypeInv, TypeOK, IdAssigned
  <2>2. ups[lastId] = 0 /\ clients[lastId] = "absent"
    BY <2>1 DEF ReportInv, Announced, Conn
  <2>3. \A j \in 1..(lastId - 1) : ups[j] = 1
    BY <2>1 DEF ReportInv, Announced, Conn
  <2>4. \A j \in Conn : Announced(j)' <=> (Announced(j) \/ j = lastId)
    BY <2>1 DEF Announced, Conn
  <2>5. ReportInv'
    BY <2>1, <2>2, <2>4 DEF ReportInv
  <2>6. Promise!Up(lastId)
    BY <2>1, <2>2, <2>3 DEF Promise!Up
  <2> QED BY <2>1, <2>5, <2>6
<1>5. CASE WorkerClients
  <2>1. /\ worker = "clients" /\ worker' = "beat" /\ lastId \in Conn
        /\ UNCHANGED <<lastId, ups, pc, downs>>
        /\ clients \in [Conn -> {"absent", "live", "closed"}]
        /\ clients' = [clients EXCEPT ![lastId] = "live"]
    BY <1>5 DEF WorkerClients, TypeInv, TypeOK, IdAssigned
  <2>2. clients[lastId] = "absent" /\ downs[lastId] = 0
    BY <2>1 DEF ReportInv
  <2>3. \A r \in Roles : pc[r][lastId] = "none"
    BY <2>1, <2>2 DEF ReportInv
  <2>4. \A j \in Conn : Announced(j)' <=> Announced(j)
    BY <2>1 DEF Announced, Conn
  <2>5. Announced(lastId)
    BY <2>1 DEF Announced
  <2> QED BY <2>1, <2>2, <2>3, <2>4, <2>5 DEF ReportInv
<1>6. CASE WorkerSpawn
  <2>1. /\ worker = "beat" /\ worker' = "check" /\ lastId \in Conn
        /\ UNCHANGED <<lastId, ups, clients, downs>>
    BY <1>6 DEF WorkerSpawn, TypeInv, IdAssigned
  <2>2. \A s \in Roles, j \in Conn :
          pc'[s][j] = pc[s][j] \/ (j = lastId /\ pc'[s][j] = "check")
    BY <1>6, <2>1 DEF WorkerSpawn, TypeInv, TypeOK, Roles
  <2>3. \A s \in Roles, j \in Conn : pc'[s][j] # "none" => clients[j] # "absent"
    BY <2>1, <2>2 DEF ReportInv
  <2>4. \A s \in Roles, j \in Conn : pc'[s][j] = "report" => pc[s][j] = "report"
    BY <2>2
  <2>5. \A j \in Conn : Announced(j)' <=> Announced(j)
    BY <2>1 DEF Announced, Conn
  <2> QED BY <2>1, <2>3, <2>4, <2>5 DEF ReportInv
<1> QED BY <1>1, <1>2, <1>3, <1>4, <1>5, <1>6 DEF WorkerStep

(* Every step keeps the invariant and reports as promised, or not at all.     *)
LEMMA ReportStep ==
  ASSUME TypeInv, ReportInv, [Next]_vars
  PROVE  ReportInv' /\ [Promise!Next]_<<ups, downs>>
<1>1. CASE WorkerStep
  BY <1>1, ReportWorker DEF Promise!Next, Promise!Conn, Conn
<1>2. ASSUME NEW i \in Conn, Reader(i) \/ Writer(i) \/ \E r \in Requests : Handler(r, i)
      PROVE  ReportInv' /\ [Promise!Next]_<<ups, downs>>
  BY <1>2, ReportThread DEF Promise!Next, Promise!Conn, Conn
<1>3. CASE Controller \/ RequestShutdown
           \/ (\E k \in Callers : CallBegin(k) \/ CallStep(k))
           \/ (\E i \in Conn : Peer(i) \/ HeartbeatLate(i))
           \/ UNCHANGED vars
  <2>1. Unreported /\ UNCHANGED pc
    BY <1>3 DEF Unreported, control, accepts, tables, channels, link, calls, reports, vars,
                Controller, ControllerStop, ControllerForward, ControllerShutdown,
                RequestShutdown, CallBegin, CallStep, CallSend, CallReturn, CallFails, Peer,
                HeartbeatLate
  <2> QED BY <2>1, ReportQuiet DEF Unreported
<1> QED BY <1>1, <1>2, <1>3 DEF Next

(* However the threads that notice the end of a connection interleave, and     *)
(* whatever fails, the callback sees every client come once, in the order of   *)
(* the ids, and go at most once, afterwards.                                  *)
THEOREM ReportsCorrect == Spec => ReportsKept
<1>1. Init => TypeInv /\ ReportInv /\ Promise!Init
  BY TypeInit, ReportInit DEF Init, Promise!Init, Promise!Conn, Conn
<1>2. TypeInv /\ ReportInv /\ [Next]_vars
        => (TypeInv /\ ReportInv)' /\ [Promise!Next]_<<ups, downs>>
  BY TypeStep, ReportStep
<1> QED BY <1>1, <1>2, PTL DEF Spec, ReportsKept, Promise!Spec, Promise!vars

----------------------------------------------------------------------------
(* The table of clients stays within its limit.                              *)

InTable == {i \in Conn : clients[i] # "absent"}

(* Only the worker adds clients, one at a time, and it has found a place free *)
(* before it starts to.                                                     *)
LimitInv ==
  MaxConnection > 0 =>
    /\ Cardinality(InTable) <= MaxConnection
    /\ worker \in {"receivers", "announce", "clients"}
         => Cardinality(InTable) < MaxConnection

LEMMA InTableFinite ==
  ASSUME NEW S \in SUBSET Conn
  PROVE  IsFiniteSet(S) /\ Cardinality(S) \in Nat
<1>1. IsFiniteSet(Conn)
  BY FS_Interval, ServerAssumption DEF Conn
<1>2. IsFiniteSet(S)
  BY <1>1, FS_Subset
<1> QED BY <1>2, FS_CardinalityType

LEMMA LimitInit == Init => LimitInv
<1> SUFFICES ASSUME Init PROVE LimitInv
  OBVIOUS
<1>1. InTable = {}
  BY DEF Init, InTable
<1>2. Cardinality(InTable) = 0
  BY <1>1, FS_EmptySet
<1> QED BY <1>2, ServerAssumption DEF LimitInv, Init

(* A closed client keeps its entry.                                         *)
LEMMA LimitStep ==
  ASSUME TypeInv, ReportInv, LimitInv, [Next]_vars
  PROVE  LimitInv'
<1> USE DEF control, accepts, tables, channels, link, calls, reports
<1>0. ASSUME InTable' = InTable,
             \/ worker' = worker \/ worker' \notin {"receivers", "announce", "clients"}
             \/ worker \in {"receivers", "announce", "clients"}
      PROVE  LimitInv'
  BY <1>0 DEF LimitInv
<1>1. CASE WorkerStep
  <2>1. CASE WorkerAccept
    <3>1. clients' = clients /\ ~Full
      BY <2>1 DEF WorkerAccept
    <3>2. InTable' = InTable /\ Cardinality(InTable) \in Nat
      BY <3>1, InTableFinite DEF InTable
    <3> QED BY <3>1, <3>2, ServerAssumption DEF LimitInv, Full, InTable
  <2>2. CASE WorkerClients
    <3>1. /\ worker = "clients" /\ worker' = "beat" /\ lastId \in Conn
          /\ clients' = [clients EXCEPT ![lastId] = "live"]
          /\ clients \in [Conn -> {"absent", "live", "closed"}]
      BY <2>2 DEF WorkerClients, Worker, TypeInv, TypeOK, IdAssigned
    <3>2. clients[lastId] = "absent"
      BY <3>1 DEF ReportInv
    <3>3. InTable' = InTable \cup {lastId} /\ lastId \notin InTable
      BY <3>1, <3>2 DEF InTable
    <3>4. IsFiniteSet(InTable) /\ Cardinality(InTable) \in Nat
      BY InTableFinite DEF InTable
    <3>5. Cardinality(InTable') = Cardinality(InTable) + 1
      BY <3>3, <3>4, FS_AddElement
    <3> QED BY <3>1, <3>4, <3>5, ServerAssumption DEF LimitInv
  <2>3. CASE ~WorkerAccept /\ ~WorkerClients
    <3>1. InTable' = InTable
      BY <1>1, <2>3 DEF WorkerStep, WorkerCheck, WorkerReject, WorkerReceivers, WorkerReport,
                        WorkerSpawn, WorkerPanics, InTable
    <3>2. \/ worker' \notin {"receivers", "announce", "clients"}
          \/ worker \in {"receivers", "announce", "clients"}
      BY <1>1, <2>3 DEF WorkerStep, WorkerCheck, WorkerReject, WorkerReceivers, WorkerReport,
                        WorkerSpawn, WorkerPanics, Worker
    <3> QED BY <3>1, <3>2, <1>0
  <2> QED BY <2>1, <2>2, <2>3
<1>2. ASSUME NEW r \in Roles, NEW i \in Conn, Close(r, i) PROVE LimitInv'
  <2>1. CASE CloseClients(r, i)
    <3>1. pc[r][i] = "close" /\ clients' = [clients EXCEPT ![i] = "closed"]
          /\ clients \in [Conn -> {"absent", "live", "closed"}] /\ worker' = worker
      BY <2>1 DEF CloseClients, TypeInv, TypeOK
    <3>2. clients[i] # "absent"
      BY <3>1 DEF ReportInv
    <3>3. InTable' = InTable
      BY <3>1, <3>2 DEF InTable
    <3> QED BY <3>1, <3>3, <1>0
  <2>2. CASE ~CloseClients(r, i)
    <3>1. clients' = clients /\ worker' = worker
      BY <1>2, <2>2 DEF Close, CloseReport, CloseHeartbeats, CloseSenders, CloseReceivers,
                        LockPanics, ThreadPanics
    <3> QED BY <3>1, <1>0 DEF InTable
  <2> QED BY <2>1, <2>2
<1>3. ASSUME NEW i \in Conn, Reader(i) \/ Writer(i) PROVE LimitInv'
  <2>1. CASE Close("reader", i) \/ Close("writer", i)
    BY <2>1, <1>2 DEF Roles
  <2>2. CASE ~Close("reader", i) /\ ~Close("writer", i)
    <3>1. clients' = clients /\ worker' = worker
      BY <1>3, <2>2 DEF Reader, Writer, ThreadCheck, ReaderClose, ReaderPing, ReaderBeat,
            ReaderPong, ReaderRequest, ReaderReply, ReaderPanics, WriterIdle, WriterSend, WriterBeat
    <3> QED BY <3>1, <1>0 DEF InTable
  <2> QED BY <2>1, <2>2
<1>4. ASSUME NEW r \in Requests, NEW i \in Conn, Handler(r, i) PROVE LimitInv'
  <2>1. CASE HandlerReply(r, i)
    BY <2>1, <1>0 DEF HandlerReply, InTable
  <2>2. CASE Close(r, i)
    BY <2>2, <1>2 DEF Roles
  <2> QED BY <1>4, <2>1, <2>2 DEF Handler
<1>5. CASE \/ Controller \/ RequestShutdown \/ UNCHANGED vars
           \/ \E k \in Callers : CallBegin(k) \/ CallStep(k)
           \/ \E i \in Conn : Peer(i) \/ HeartbeatLate(i)
  <2>1. clients' = clients /\ worker' = worker
    BY <1>5 DEF vars, Controller, ControllerStop, ControllerForward, ControllerShutdown,
                RequestShutdown, CallBegin, CallStep, CallSend, CallReturn, CallFails, Peer,
                HeartbeatLate
  <2> QED BY <2>1, <1>0 DEF InTable
<1> QED BY <1>1, <1>3, <1>4, <1>5 DEF Next

(* However the worker and the threads that close clients interleave, the table *)
(* never has more than max_connection clients (server.rs:168).               *)
THEOREM LimitCorrect == Spec => []ConnectionLimit
<1>1. Init => TypeInv /\ ReportInv /\ LimitInv
  BY TypeInit, ReportInit, LimitInit
<1>2. TypeInv /\ ReportInv /\ LimitInv /\ [Next]_vars => (TypeInv /\ ReportInv /\ LimitInv)'
  BY TypeStep, ReportStep, LimitStep
<1>3. LimitInv => ConnectionLimit
  BY ServerAssumption DEF LimitInv, ConnectionLimit, InTable
<1> QED BY <1>1, <1>2, <1>3, PTL DEF Spec

----------------------------------------------------------------------------
(* What the threads of a connection leave behind. A thread of the connection   *)
(* that stands at one of the steps T, or has panicked.                       *)
Standing(T, i) == \E r \in Roles : pc[r][i] \in T \cup {"panicked"}

(* As long as a closed client is unreported or has an entry left, a thread of  *)
(* it is on its way to report it or to remove the entry. The read thread that   *)
(* has entered the heartbeat again (66) is, too: its pong will be refused.     *)
ToReport     == {"report"}
ToHeartbeats == {"close", "report", "heartbeats", "pong"}
ToSenders    == {"close", "report", "heartbeats", "senders"}
ToReceivers  == {"close", "report", "heartbeats", "senders", "receivers"}
LeftInv ==
  /\ worker = "beat" => clients[lastId] = "live" /\ \A r \in Roles : pc[r][lastId] = "none"
  /\ \A i \in Conn : pc["reader"][i] = "ended" => clients[i] = "closed"
  /\ \A i \in Conn : clients[i] = "closed" =>
       /\ downs[i] = 1 \/ Standing(ToReport, i)
       /\ heartbeats[i] = "none" \/ Standing(ToHeartbeats, i)
       /\ i \notin serverClients \/ Standing(ToSenders, i)
       /\ i \notin receivers \/ Standing(ToReceivers, i)

(* A request not read yet has no thread, and is on its way once.              *)
OnceInWire ==
  \A i \in Conn, r \in Requests : \A n \in 1..Len(wire[i]) :
    wire[i][n] = Request(r) =>
      /\ pc[r][i] = "none"
      /\ \A m \in 1..Len(wire[i]) : wire[i][m] = Request(r) => m = n

LeavesInv == LeftInv /\ OnceInWire

LEMMA LeavesInit == Init => LeavesInv
<1> SUFFICES ASSUME Init PROVE LeavesInv
  OBVIOUS
<1>1. LeftInv
  BY DEF Init, LeftInv, Roles
<1>2. OnceInWire
  BY DEF Init, OnceInWire
<1> QED BY <1>1, <1>2 DEF LeavesInv

(* The read thread takes a frame, and a thread may start for it.              *)
LEMMA OnceTaken ==
  ASSUME TypeInv, OnceInWire, NEW i \in Conn, wire[i] # <<>>,
         wire' = [wire EXCEPT ![i] = Tail(@)],
         \A s \in Requests, j \in Conn :
           pc[s][j] = "none" => pc'[s][j] = "none" \/ (j = i /\ wire[i][1] = Request(s))
  PROVE  OnceInWire'
<1> DEFINE d(j) == IF j = i THEN 1 ELSE 0
<1>1. wire \in [Conn -> Seq(Frames)]
  BY DEF TypeInv, TypeOK
<1>2. ASSUME NEW j \in Conn, NEW n \in 1..Len(wire'[j])
      PROVE  n + d(j) \in 1..Len(wire[j]) /\ wire'[j][n] = wire[j][n + d(j)]
  BY <1>1, <1>2
<1>3. ASSUME NEW j \in Conn, NEW s \in Requests,
             NEW n \in 1..Len(wire'[j]), wire'[j][n] = Request(s)
      PROVE  /\ pc'[s][j] = "none"
             /\ \A m \in 1..Len(wire'[j]) : wire'[j][m] = Request(s) => m = n
  <2>1. n + d(j) \in 1..Len(wire[j]) /\ wire[j][n + d(j)] = Request(s)
    BY <1>2, <1>3
  <2>2. pc[s][j] = "none" /\ (j = i => wire[i][1] # Request(s))
    <3>1. 1 \in 1..Len(wire[i])
      BY <1>1
    <3> QED BY <2>1, <3>1 DEF OnceInWire
  <2>3. ASSUME NEW m \in 1..Len(wire'[j]), wire'[j][m] = Request(s) PROVE m = n
    <3>1. m + d(j) \in 1..Len(wire[j]) /\ wire[j][m + d(j)] = Request(s)
      BY <1>2, <2>3
    <3>2. m + d(j) = n + d(j)
      BY <2>1, <3>1 DEF OnceInWire
    <3> QED BY <3>2
  <2> QED BY <2>2, <2>3
<1> QED BY <1>3 DEF OnceInWire

(* A thread that runs goes on, while the read thread may take a frame.         *)
LEMMA OnceGoto ==
  ASSUME TypeInv, OnceInWire, NEW r \in Roles, NEW i \in Conn, NEW step \in Steps,
         pc[r][i] # "none", Goto(r, i, step),
         \/ UNCHANGED wire
         \/ wire[i] # <<>> /\ wire' = [wire EXCEPT ![i] = Tail(@)]
  PROVE  OnceInWire'
<1>1. \A s \in Requests, j \in Conn : pc[s][j] = "none" => pc'[s][j] = "none"
  BY DEF Goto, TypeInv, TypeOK, Roles
<1>2. CASE UNCHANGED wire
  BY <1>1, <1>2 DEF OnceInWire
<1>3. CASE wire[i] # <<>> /\ wire' = [wire EXCEPT ![i] = Tail(@)]
  BY <1>1, <1>3, OnceTaken
<1> QED BY <1>2, <1>3

(* A thread of connection i goes on from a step to another: the client's        *)
(* entries only become fewer, and what the thread was on its way to do it has   *)
(* done or is still on its way to do.                                        *)
LEMMA LeftMove ==
  ASSUME TypeInv, LeftInv,
         NEW r \in Roles, NEW i \in Conn, NEW step \in Steps, pc[r][i] \notin {"none", "panicked"},
         Goto(r, i, step), UNCHANGED <<clients, worker, lastId>>,
         \A j \in Conn : downs[j] = 1 => downs'[j] = 1,
         \A j \in Conn : heartbeats[j] = "none" =>
           heartbeats'[j] = "none" \/ (j = i /\ step = "pong"),
         serverClients' \subseteq serverClients, receivers' \subseteq receivers,
         r = "reader" /\ step = "ended" => clients[i] = "closed",
         clients[i] = "closed" =>
           /\ pc[r][i] \in ToReport => downs'[i] = 1 \/ step \in ToReport \cup {"panicked"}
           /\ pc[r][i] \in ToHeartbeats
                => heartbeats'[i] = "none" \/ step \in ToHeartbeats \cup {"panicked"}
           /\ pc[r][i] \in ToSenders
                => i \notin serverClients' \/ step \in ToSenders \cup {"panicked"}
           /\ pc[r][i] \in ToReceivers
                => i \notin receivers' \/ step \in ToReceivers \cup {"panicked"}
  PROVE  LeftInv'
<1>0. pc \in [Roles -> [Conn -> Steps]] /\ (worker = "beat" => lastId \in Conn)
  BY DEF TypeInv, TypeOK, IdAssigned
<1>1. \A s \in Roles, j \in Conn : pc'[s][j] = IF s = r /\ j = i THEN step ELSE pc[s][j]
  BY <1>0 DEF Goto
<1>2. worker' = "beat" =>
        clients'[lastId'] = "live" /\ \A s \in Roles : pc'[s][lastId'] = "none"
  BY <1>0, <1>1 DEF LeftInv
<1>3. \A j \in Conn : pc'["reader"][j] = "ended" => clients'[j] = "closed"
  BY <1>1 DEF LeftInv, Roles
<1>4. ASSUME NEW j \in Conn, clients'[j] = "closed"
      PROVE  /\ downs'[j] = 1 \/ Standing(ToReport, j)'
             /\ heartbeats'[j] = "none" \/ Standing(ToHeartbeats, j)'
             /\ j \notin serverClients' \/ Standing(ToSenders, j)'
             /\ j \notin receivers' \/ Standing(ToReceivers, j)'
  <2>1. ASSUME NEW T, NEW s \in Roles, pc[s][j] \in T \cup {"panicked"},
               j = i /\ pc[r][i] \in T => step \in T \cup {"panicked"}
        PROVE  pc'[s][j] \in T \cup {"panicked"}
    BY <2>1, <1>1
  <2>2. j = i /\ step = "pong" => pc'[r][j] \in ToHeartbeats
    BY <1>1 DEF ToHeartbeats
  <2>3. downs'[j] = 1 \/ Standing(ToReport, j)'
    BY <1>4, <2>1 DEF LeftInv, Standing
  <2>4. heartbeats'[j] = "none" \/ Standing(ToHeartbeats, j)'
    BY <1>4, <2>1, <2>2 DEF LeftInv, Standing
  <2>5. j \notin serverClients' \/ Standing(ToSenders, j)'
    BY <1>4, <2>1 DEF LeftInv, Standing
  <2>6. j \notin receivers' \/ Standing(ToReceivers, j)'
    BY <1>4, <2>1 DEF LeftInv, Standing
  <2> QED BY <2>3, <2>4, <2>5, <2>6
<1> QED BY <1>2, <1>3, <1>4 DEF LeftInv

(* close_client goes through all of the tables, whoever runs it and whoever    *)
(* has run it already.                                                      *)
LEMMA LeavesClose ==
  ASSUME TypeInv, ReportInv, LeavesInv, NEW r \in Roles, NEW i \in Conn, Close(r, i)
  PROVE  LeavesInv'
<1> USE DEF Steps, CloseSteps, control, accepts, tables, channels, link, calls, reports, LeavesInv
<1>1. CASE CloseClients(r, i)
  <2>1. /\ pc[r][i] = "close" /\ pc \in [Roles -> [Conn -> Steps]]
        /\ clients \in [Conn -> {"absent", "live", "closed"}]
        /\ clients' = [clients EXCEPT ![i] = "closed"]
        /\ UNCHANGED <<worker, lastId, downs, heartbeats, serverClients, receivers, wire>>
        /\ worker = "beat" => lastId \in Conn
    BY <1>1 DEF CloseClients, TypeInv, TypeOK, IdAssigned
  <2>2. clients[i] \in {"live", "closed"}
    BY <2>1 DEF ReportInv
  <2>3. \A s \in Roles, j \in Conn :
          pc'[s][j] = IF s = r /\ j = i
                      THEN IF clients[i] = "live" THEN "report" ELSE "heartbeats"
                      ELSE pc[s][j]
    BY <1>1, <2>1 DEF CloseClients, AfterInsert, Goto
  <2>4. OnceInWire'
    BY <1>1, <2>1, OnceGoto DEF CloseClients, AfterInsert
  <2>5. worker' = "beat" =>
          clients'[lastId'] = "live" /\ \A s \in Roles : pc'[s][lastId'] = "none"
    BY <2>1, <2>3 DEF LeftInv
  <2>6. \A j \in Conn : pc'["reader"][j] = "ended" => clients'[j] = "closed"
    BY <2>1, <2>3 DEF LeftInv, Roles
  <2>7. pc'[r][i] \in ToHeartbeats \cap ToSenders \cap ToReceivers
    BY <2>3 DEF ToHeartbeats, ToSenders, ToReceivers
  <2>8. clients[i] = "live" => pc'[r][i] \in ToReport
    BY <2>3 DEF ToReport
  <2>9. clients[i] = "closed" /\ downs[i] # 1 => Standing(ToReport, i)'
    BY <2>1, <2>3 DEF LeftInv, Standing, ToReport
  <2>10. ASSUME NEW j \in Conn, clients'[j] = "closed"
         PROVE  /\ downs'[j] = 1 \/ Standing(ToReport, j)'
                /\ heartbeats'[j] = "none" \/ Standing(ToHeartbeats, j)'
                /\ j \notin serverClients' \/ Standing(ToSenders, j)'
                /\ j \notin receivers' \/ Standing(ToReceivers, j)'
    <3>1. CASE j = i
      BY <2>1, <2>2, <2>7, <2>8, <2>9, <3>1 DEF Standing
    <3>2. CASE j # i
      <4>1. clients[j] = "closed"
        BY <2>1, <2>10, <3>2
      <4>2. ASSUME NEW T, Standing(T, j) PROVE \E s \in Roles : pc'[s][j] \in T \cup {"panicked"}
        BY <2>3, <3>2, <4>2 DEF Standing
      <4> QED BY <2>1, <4>1, <4>2 DEF LeftInv, Standing
    <3> QED BY <3>1, <3>2
  <2> QED BY <2>4, <2>5, <2>6, <2>10 DEF LeftInv
<1>2. CASE CloseReport(r, i)
  <2>1. /\ pc[r][i] = "report" /\ Goto(r, i, "heartbeats")
        /\ downs \in [Conn -> Nat] /\ downs' = [downs EXCEPT ![i] = @ + 1]
        /\ UNCHANGED <<clients, worker, lastId, heartbeats, serverClients, receivers, wire>>
    BY <1>2 DEF CloseReport, TypeInv, TypeOK
  <2>2. downs[i] = 0
    BY <2>1 DEF ReportInv
  <2>3. downs'[i] = 1 /\ \A j \in Conn : downs[j] = 1 => downs'[j] = 1
    BY <2>1, <2>2
  <2> QED BY <2>1, <2>3, LeftMove, OnceGoto DEF ToReport, ToHeartbeats, ToSenders, ToReceivers
<1>3. CASE CloseHeartbeats(r, i)
  <2>1. /\ pc[r][i] = "heartbeats" /\ Goto(r, i, "senders")
        /\ heartbeats' = [heartbeats EXCEPT ![i] = "none"]
        /\ heartbeats \in [Conn -> {"none", "fresh", "late"}]
        /\ UNCHANGED <<clients, worker, lastId, downs, serverClients, receivers, wire>>
    BY <1>3 DEF CloseHeartbeats, TypeInv, TypeOK
  <2>2. heartbeats'[i] = "none" /\ \A j \in Conn : heartbeats[j] = "none" => heartbeats'[j] = "none"
    BY <2>1
  <2> QED BY <2>1, <2>2, LeftMove, OnceGoto DEF ToReport, ToHeartbeats, ToSenders, ToReceivers
<1>4. CASE CloseSenders(r, i)
  <2>1. /\ pc[r][i] = "senders" /\ Goto(r, i, "receivers")
        /\ serverClients' = serverClients \ {i}
        /\ UNCHANGED <<clients, worker, lastId, downs, heartbeats, receivers, wire>>
    BY <1>4 DEF CloseSenders
  <2> QED BY <2>1, LeftMove, OnceGoto DEF ToReport, ToHeartbeats, ToSenders, ToReceivers
<1>5. CASE CloseReceivers(r, i)
  <2>1. /\ pc[r][i] = "receivers" /\ receivers' = receivers \ {i}
        /\ UNCHANGED <<clients, worker, lastId, downs, heartbeats, serverClients, wire>>
        /\ \E step \in {"check", "beat", "ended"} :
             Goto(r, i, step) /\ (r = "reader" => step = "check")
    BY <1>5 DEF CloseReceivers, After
  <2> QED BY <2>1, LeftMove, OnceGoto DEF ToReport, ToHeartbeats, ToSenders, ToReceivers
<1>6. CASE LockPanics(r, i)
  <2>1. /\ pc[r][i] \in {"check", "pong", "run", "close", "fetch", "senders"}
        /\ Goto(r, i, "panicked")
        /\ UNCHANGED <<clients, worker, lastId, downs, heartbeats, serverClients, receivers, wire>>
    BY <1>6 DEF LockPanics, ThreadPanics
  <2> QED BY <2>1, LeftMove, OnceGoto
<1> QED BY <1>1, <1>2, <1>3, <1>4, <1>5, <1>6 DEF Close

(* The thread a request starts is the first for it, and is on its way to none   *)
(* of the tables.                                                           *)
LEMMA LeavesRequest ==
  ASSUME TypeInv, ReportInv, LeavesInv, NEW i \in Conn, ReaderRequest(i)
  PROVE  LeavesInv'
<1> DEFINE r == Head(wire[i]).request
<1> USE DEF LeavesInv
<1>1. /\ pc["reader"][i] = "recv" /\ wire[i] # <<>> /\ Head(wire[i]).kind = "request"
      /\ wire' = [wire EXCEPT ![i] = Tail(@)]
      /\ pc' = [pc EXCEPT !["reader"][i] = "check", ![r][i] = "run"]
      /\ UNCHANGED <<clients, worker, lastId, downs, heartbeats, serverClients, receivers>>
  BY DEF ReaderRequest, Receives, accepts, tables, reports
<1>2. /\ pc \in [Roles -> [Conn -> Steps]] /\ wire \in [Conn -> Seq(Frames)]
      /\ worker = "beat" => lastId \in Conn
  BY DEF TypeInv, TypeOK, IdAssigned
<1>3. r \in Requests /\ wire[i][1] = Request(r) /\ 1 \in 1..Len(wire[i])
  <2>1. wire[i][1] \in Frames /\ wire[i][1] = Head(wire[i]) /\ 1 \in 1..Len(wire[i])
    BY <1>1, <1>2
  <2> QED BY <1>1, <2>1 DEF Frames, Frame, Request, Reply
<1>4. pc[r][i] = "none" /\ r \in Roles /\ "reader" \in Roles /\ r # "reader"
  BY <1>3, ServerAssumption DEF OnceInWire, Roles
<1> HIDE DEF r
<1>5. \A s \in Roles, j \in Conn :
        pc'[s][j] = IF j = i /\ s = "reader" THEN "check"
                    ELSE IF j = i /\ s = r THEN "run" ELSE pc[s][j]
  BY <1>1, <1>2, <1>4
<1>6. ASSUME NEW j \in Conn, NEW T, Standing(T, j), "recv" \notin T, "none" \notin T
      PROVE  \E s \in Roles : pc'[s][j] \in T \cup {"panicked"}
  <2>1. PICK s \in Roles : pc[s][j] \in T \cup {"panicked"}
    BY <1>6 DEF Standing
  <2>2. ~(j = i /\ s = "reader") /\ ~(j = i /\ s = r)
    BY <1>1, <1>4, <1>6, <2>1
  <2> QED BY <1>5, <2>1, <2>2
<1>7. \A T \in {ToReport, ToHeartbeats, ToSenders, ToReceivers} : "recv" \notin T /\ "none" \notin T
  BY DEF ToReport, ToHeartbeats, ToSenders, ToReceivers
<1>8. LeftInv'
  <2>1. worker' = "beat" =>
          clients'[lastId'] = "live" /\ \A s \in Roles : pc'[s][lastId'] = "none"
    BY <1>1, <1>2, <1>4, <1>5 DEF LeftInv
  <2>2. \A j \in Conn : pc'["reader"][j] = "ended" => clients'[j] = "closed"
    <3>1. \A j \in Conn : pc'["reader"][j] \in {"check", pc["reader"][j]}
      BY <1>4, <1>5
    <3>2. clients' = clients
      BY <1>1
    <3> QED BY <3>1, <3>2 DEF LeftInv
  <2>3. ASSUME NEW j \in Conn, clients'[j] = "closed"
        PROVE  /\ downs'[j] = 1 \/ Standing(ToReport, j)'
               /\ heartbeats'[j] = "none" \/ Standing(ToHeartbeats, j)'
               /\ j \notin serverClients' \/ Standing(ToSenders, j)'
               /\ j \notin receivers' \/ Standing(ToReceivers, j)'
    BY <1>1, <1>6, <1>7, <2>3 DEF LeftInv, Standing
  <2> QED BY <2>1, <2>2, <2>3 DEF LeftInv
<1>9. OnceInWire'
  <2>1. \A s \in Requests, j \in Conn :
          pc[s][j] = "none" => pc'[s][j] = "none" \/ (j = i /\ wire[i][1] = Request(s))
    BY <1>3, <1>5, ServerAssumption DEF Roles
  <2> QED BY <1>1, <2>1, OnceTaken
<1> QED BY <1>8, <1>9

(* The other steps of a connection's threads.                                *)
LEMMA LeavesThread ==
  ASSUME TypeInv, ReportInv, LeavesInv, NEW i \in Conn,
         Reader(i) \/ Writer(i) \/ \E r \in Requests : Handler(r, i)
  PROVE  LeavesInv'
<1> DEFINE Still == UNCHANGED <<clients, worker, lastId, downs, serverClients, receivers>>
           Taken == \/ UNCHANGED wire
                    \/ wire[i] # <<>> /\ wire' = [wire EXCEPT ![i] = Tail(@)]
<1> USE DEF LeavesInv, accepts, tables, link, reports
<1>1. ASSUME NEW r \in Roles, NEW step \in Steps,
             pc[r][i] \in {"check", "recv", "ping", "pong", "fetch", "beat", "run"},
             Goto(r, i, step), Still, Taken,
             pc[r][i] = "pong" /\ clients[i] = "closed" => step = "close",
             r = "reader" /\ step = "ended" => clients[i] = "closed",
             \/ UNCHANGED heartbeats
             \/ step = "pong" /\ \A j \in Conn \ {i} : heartbeats'[j] = heartbeats[j]
      PROVE  LeavesInv'
  <2>1. OnceInWire'
    BY <1>1, OnceGoto
  <2>2. \A j \in Conn : heartbeats[j] = "none" =>
          heartbeats'[j] = "none" \/ (j = i /\ step = "pong")
    BY <1>1
  <2> QED BY <1>1, <2>1, <2>2, LeftMove DEF ToReport, ToHeartbeats, ToSenders, ToReceivers
<1>2. ASSUME NEW r \in Roles, Close(r, i) PROVE LeavesInv'
  BY <1>2, LeavesClose
<1>3. ASSUME NEW r \in Roles, NEW next \in {"recv", "fetch"}, ThreadCheck(r, i, next)
      PROVE  LeavesInv'
  <2>1. clients[i] \in {"live", "closed"}
    BY <1>3 DEF ThreadCheck, TypeInv, TypeOK, ReportInv
  <2>2. CASE clients[i] = "live"
    BY <1>3, <2>2, <1>1 DEF ThreadCheck, Steps
  <2>3. CASE clients[i] = "closed"
    BY <1>3, <2>3, <1>1 DEF ThreadCheck, Steps
  <2> QED BY <2>1, <2>2, <2>3
<1>4. CASE ReaderClose(i) \/ ReaderPing(i) \/ ReaderPanics(i)
  <2>1. /\ pc["reader"][i] = "recv" /\ Still /\ Taken /\ UNCHANGED heartbeats
        /\ \E step \in {"close", "ping", "panicked"} : Goto("reader", i, step)
    BY <1>4 DEF ReaderClose, OnClose, ReaderPing, ReaderPanics, Receives
  <2> QED BY <2>1, <1>1 DEF Steps, CloseSteps, Roles
<1>5. CASE ReaderBeat(i)
  <2>1. /\ pc["reader"][i] = "ping" /\ Still /\ Taken /\ Goto("reader", i, "pong")
        /\ \A j \in Conn \ {i} : heartbeats'[j] = heartbeats[j]
    BY <1>5 DEF ReaderBeat, TypeInv, TypeOK
  <2> QED BY <2>1, <1>1 DEF Steps, Roles
<1>6. CASE ReaderReply(i)
  <2>1. /\ pc["reader"][i] = "recv" /\ Still /\ Taken /\ UNCHANGED heartbeats
        /\ \E step \in {"check", "panicked"} : Goto("reader", i, step)
    BY <1>6 DEF ReaderReply, Receives
  <2> QED BY <2>1, <1>1 DEF Steps, Roles
<1>7. CASE WriterIdle(i)
  BY <1>7, <1>1 DEF WriterIdle, Steps, Roles
<1>8. CASE WriterBeat(i)
  <2>1. /\ pc["writer"][i] = "beat" /\ Still /\ Taken /\ UNCHANGED heartbeats
        /\ \E step \in {"close", "check"} : Goto("writer", i, step)
    BY <1>8 DEF WriterBeat
  <2> QED BY <2>1, <1>1 DEF Steps, CloseSteps, Roles
<1>9. ASSUME NEW r \in Roles, NEW b \in BOOLEAN, ClientSend(r, i, b),
             pc[r][i] \in {"pong", "fetch", "run"}, Still, UNCHANGED <<wire, heartbeats>>
      PROVE  LeavesInv'
  <2>1. PICK step \in {"close", "check", "beat", "ended"} :
          /\ Goto(r, i, step)
          /\ clients[i] = "closed" => step = "close"
          /\ r = "reader" => step # "ended"
    BY <1>9 DEF ClientSend, SendResults, After
  <2> QED BY <1>9, <2>1, <1>1 DEF Steps, CloseSteps
<1>10. CASE ReaderPong(i)
  BY <1>10, <1>9 DEF ReaderPong, Roles
<1>11. CASE WriterSend(i)
  BY <1>11, <1>9 DEF WriterSend, IsClose, Roles
<1>12. CASE \E r \in Requests : HandlerReply(r, i)
  BY <1>12, <1>9 DEF HandlerReply, Roles
<1>13. CASE ReaderRequest(i)
  BY <1>13, LeavesRequest
<1> QED BY <1>2, <1>3, <1>4, <1>5, <1>6, <1>7, <1>8, <1>10, <1>11, <1>12, <1>13
        DEF Reader, Writer, Handler, Roles

(* The worker makes the entries of a connection before its threads start, and   *)
(* nothing can close it earlier.                                            *)
LEMMA LeavesWorker ==
  ASSUME TypeInv, ReportInv, LeavesInv, WorkerStep
  PROVE  LeavesInv'
<1> USE DEF LeavesInv, Worker, control, accepts, tables, channels, link, calls, reports
<1>0. ASSUME UNCHANGED <<clients, downs, heartbeats, pc, wire>>,
             worker' # "beat",
             \A j \in Conn : clients[j] = "closed" =>
               /\ j \in serverClients' => j \in serverClients
               /\ j \in receivers' => j \in receivers
      PROVE  LeavesInv'
  BY <1>0 DEF LeftInv, OnceInWire, Standing
<1>1. CASE WorkerCheck \/ WorkerReject \/ WorkerReport \/ WorkerPanics
  BY <1>1, <1>0 DEF WorkerCheck, WorkerReject, WorkerReport, WorkerPanics
<1>2. CASE WorkerAccept
  <2>1. /\ worker' = "receivers" /\ serverClients' = serverClients \cup {lastId'}
        /\ lastId' \in Conn /\ lastId' > lastId /\ worker = "accept" /\ lastId \in Nat
        /\ UNCHANGED <<clients, downs, heartbeats, pc, wire, receivers>>
    BY <1>2, ServerAssumption DEF WorkerAccept, NextId, TypeInv, TypeOK, Conn
  <2>2. clients[lastId'] = "absent"
    BY <2>1 DEF ReportInv, Announced, Conn
  <2> QED BY <2>1, <2>2, <1>0
<1>3. CASE WorkerReceivers
  <2>1. /\ worker = "receivers" /\ worker' = "announce" /\ lastId \in Conn
        /\ receivers' = receivers \cup {lastId}
        /\ UNCHANGED <<clients, downs, heartbeats, pc, wire, serverClients>>
    BY <1>3 DEF WorkerReceivers, TypeInv, IdAssigned
  <2>2. clients[lastId] = "absent"
    BY <2>1 DEF ReportInv, Announced, Conn
  <2> QED BY <2>1, <2>2, <1>0
<1>4. CASE WorkerClients
  <2>1. /\ worker = "clients" /\ worker' = "beat" /\ lastId \in Conn /\ lastId' = lastId
        /\ clients' = [clients EXCEPT ![lastId] = "live"]
        /\ clients \in [Conn -> {"absent", "live", "closed"}]
        /\ UNCHANGED <<downs, heartbeats, pc, wire, serverClients, receivers>>
    BY <1>4 DEF WorkerClients, TypeInv, TypeOK, IdAssigned
  <2>2. clients[lastId] = "absent" /\ \A r \in Roles : pc[r][lastId] = "none"
    BY <2>1 DEF ReportInv
  <2>3. \A j \in Conn : clients'[j] = "closed" <=> clients[j] = "closed"
    BY <2>1, <2>2
  <2>4. clients'[lastId] = "live"
    BY <2>1
  <2> QED BY <2>1, <2>2, <2>3, <2>4 DEF LeftInv, OnceInWire, Standing
<1>5. CASE WorkerSpawn
  <2>1. /\ worker = "beat" /\ worker' = "check" /\ lastId \in Conn
        /\ heartbeats' = [heartbeats EXCEPT ![lastId] = "fresh"]
        /\ heartbeats \in [Conn -> {"none", "fresh", "late"}]
        /\ UNCHANGED <<clients, downs, wire, serverClients, receivers>>
    BY <1>5 DEF WorkerSpawn, TypeInv, TypeOK, IdAssigned
  <2>2. clients[lastId] = "live"
    BY <2>1 DEF LeftInv
  <2>3. \A s \in Roles, j \in Conn :
          pc'[s][j] = IF j = lastId /\ s \in {"reader", "writer"} THEN "check" ELSE pc[s][j]
    BY <1>5, <2>1 DEF WorkerSpawn, TypeInv, TypeOK, Roles
  <2>4. OnceInWire'
    <3>1. \A s \in Requests, j \in Conn : pc'[s][j] = pc[s][j]
      BY <2>3, ServerAssumption DEF Roles
    <3> QED BY <2>1, <3>1 DEF OnceInWire
  <2>5. \A j \in Conn : pc'["reader"][j] = "ended" => clients'[j] = "closed"
    BY <2>1, <2>3 DEF LeftInv, Roles
  <2>6. ASSUME NEW j \in Conn, clients'[j] = "closed"
        PROVE  /\ downs'[j] = 1 \/ Standing(ToReport, j)'
               /\ heartbeats'[j] = "none" \/ Standing(ToHeartbeats, j)'
               /\ j \notin serverClients' \/ Standing(ToSenders, j)'
               /\ j \notin receivers' \/ Standing(ToReceivers, j)'
    <3>1. j # lastId /\ clients[j] = "closed" /\ heartbeats'[j] = heartbeats[j]
      BY <2>1, <2>2, <2>6
    <3>2. \A s \in Roles : pc'[s][j] = pc[s][j]
      BY <2>3, <3>1
    <3> QED BY <2>1, <3>1, <3>2 DEF LeftInv, Standing
  <2> QED BY <2>1, <2>4, <2>5, <2>6 DEF LeftInv
<1> QED BY <1>1, <1>2, <1>3, <1>4, <1>5 DEF WorkerStep

(* The other end asks for nothing twice; the time that passes ages an entry but *)
(* makes none.                                                              *)
LEMMA LeavesPeer ==
  ASSUME TypeInv, LeavesInv, NEW i \in Conn, Peer(i) \/ HeartbeatLate(i)
  PROVE  LeavesInv'
<1> USE DEF LeavesInv, accepts, tables, reports, link
<1>0. /\ wire \in [Conn -> Seq(Frames)]
      /\ heartbeats \in [Conn -> {"none", "fresh", "late"}]
  BY DEF TypeInv, TypeOK
<1>1. CASE HeartbeatLate(i)
  <2>1. UNCHANGED <<clients, worker, lastId, downs, serverClients, receivers, pc, wire>>
    BY <1>1 DEF HeartbeatLate
  <2>2. \A j \in Conn : heartbeats[j] = "none" => heartbeats'[j] = "none"
    BY <1>0, <1>1 DEF HeartbeatLate
  <2> QED BY <2>1, <2>2 DEF LeftInv, OnceInWire, Standing
<1>2. CASE Peer(i)
  <2>1. UNCHANGED <<clients, worker, lastId, downs, serverClients, receivers, pc, heartbeats>>
    BY <1>2 DEF Peer
  <2>2. LeftInv'
    BY <2>1 DEF LeftInv, Standing
  <2>3. ASSUME NEW n \in 0..Len(wire[i]), NEW f,
               wire' = [wire EXCEPT ![i] = Append(SubSeq(@, 1, n), f)],
               \A r \in Requests : f = Request(r) =>
                 pc[r][i] = "none" /\ ~InWire(i, f)
        PROVE  OnceInWire'
    <3>1. ASSUME NEW j \in Conn, NEW m \in 1..Len(wire'[j])
          PROVE  \/ m \in 1..Len(wire[j]) /\ wire'[j][m] = wire[j][m]
                 \/ j = i /\ m = n + 1 /\ m = Len(wire'[j]) /\ wire'[j][m] = f
      BY <1>0, <2>3, <3>1
    <3>2. ASSUME NEW j \in Conn, NEW r \in Requests,
                 NEW m \in 1..Len(wire'[j]), wire'[j][m] = Request(r)
          PROVE  /\ pc'[r][j] = "none"
                 /\ \A l \in 1..Len(wire'[j]) : wire'[j][l] = Request(r) => l = m
      BY <2>1, <2>3, <3>1, <3>2 DEF OnceInWire, InWire
    <3> QED BY <3>2 DEF OnceInWire
  <2>4. wire[i] = SubSeq(wire[i], 1, Len(wire[i])) /\ Len(wire[i]) \in 0..Len(wire[i])
    BY <1>0
  <2>5. ASSUME NEW f, Sends(i, f),
               \A r \in Requests : f = Request(r) => pc[r][i] = "none" /\ ~InWire(i, f)
        PROVE  OnceInWire'
    BY <2>3, <2>4, <2>5 DEF Sends
  <2>6. \A k : \A r \in Requests : Frame(k) # Request(r)
    BY DEF Frame, Request
  <2>7. \A t : \A r \in Requests : Reply(t) # Request(r)
    BY DEF Reply, Request
  <2>8. OnceInWire'
    <3>1. CASE PeerPing(i) \/ PeerBad(i) \/ PeerCloses(i)
      BY <3>1, <2>5, <2>6 DEF PeerPing, PeerBad, PeerCloses
    <3>2. CASE PeerAnswer(i)
      BY <3>2, <2>5, <2>7 DEF PeerAnswer
    <3>3. CASE PeerLost(i)
      BY <3>3, <2>3, <2>6 DEF PeerLost
    <3>4. ASSUME NEW r \in Requests, PeerRequest(r, i) PROVE OnceInWire'
      <4>1. \A s \in Requests : Request(r) = Request(s) => s = r
        BY DEF Request
      <4> QED BY <3>4, <4>1, <2>5 DEF PeerRequest
    <3> QED BY <1>2, <3>1, <3>2, <3>3, <3>4 DEF Peer
  <2> QED BY <2>2, <2>8
<1> QED BY <1>1, <1>2

LEMMA LeavesStep ==
  ASSUME TypeInv, ReportInv, LeavesInv, [Next]_vars
  PROVE  LeavesInv'
<1>1. CASE WorkerStep
  BY <1>1, LeavesWorker
<1>2. ASSUME NEW i \in Conn, Reader(i) \/ Writer(i) \/ \E r \in Requests : Handler(r, i)
      PROVE  LeavesInv'
  BY <1>2, LeavesThread
<1>3. ASSUME NEW i \in Conn, Peer(i) \/ HeartbeatLate(i) PROVE LeavesInv'
  BY <1>3, LeavesPeer
<1>4. CASE Controller \/ RequestShutdown \/ UNCHANGED vars
           \/ \E k \in Callers : CallBegin(k) \/ CallStep(k)
  <2>1. UNCHANGED <<clients, worker, lastId, downs, heartbeats, serverClients, receivers, pc, wire>>
    BY <1>4 DEF control, accepts, tables, channels, link, calls, reports, vars,
                Controller, ControllerStop, ControllerForward, ControllerShutdown,
                RequestShutdown, CallBegin, CallStep, CallSend, CallReturn, CallFails
  <2> QED BY <2>1 DEF LeavesInv, LeftInv, OnceInWire, Standing
<1> QED BY <1>1, <1>2, <1>3, <1>4 DEF Next

(* When the threads of a connection have returned, none panicking, no table has *)
(* an entry for it and its end has been reported, however many of them ran       *)
(* close_client, how far apart and in which order (server.rs:53-63).           *)
THEOREM LeavesNothing == Spec => []ClosedLeavesNothing
<1>1. Init => TypeInv /\ ReportInv /\ LeavesInv
  BY TypeInit, ReportInit, LeavesInit
<1>2. TypeInv /\ ReportInv /\ LeavesInv /\ [Next]_vars => (TypeInv /\ ReportInv /\ LeavesInv)'
  BY TypeStep, ReportStep, LeavesStep
<1>3. LeavesInv => ClosedLeavesNothing
  <2> SUFFICES ASSUME LeavesInv, NEW i \in Conn, Returned(i)
               PROVE  /\ clients[i] = "closed" /\ downs[i] = 1
                      /\ heartbeats[i] = "none"
                      /\ i \notin serverClients /\ i \notin receivers
    BY DEF ClosedLeavesNothing
  <2>1. \A r \in Roles : pc[r][i] \in {"none", "ended"}
    BY DEF Returned, Roles
  <2>2. \A T \in {ToReport, ToHeartbeats, ToSenders, ToReceivers} : ~Standing(T, i)
    BY <2>1 DEF Standing, ToReport, ToHeartbeats, ToSenders, ToReceivers
  <2>3. clients[i] = "closed"
    BY DEF LeavesInv, LeftInv, Returned
  <2> QED BY <2>2, <2>3 DEF LeavesInv, LeftInv
<1> QED BY <1>1, <1>2, <1>3, PTL DEF Spec
-----------------------------------------------------------------------------
(***************************************************************************)
(* The calls of the server, for any number of connections, callers, calls   *)
(* and methods, whoever shares what: which reply a call returns, and that   *)
(* the read thread never panics on one.                                     *)
(***************************************************************************)

(* Calls and their replies. A call is on its way as its tag, which is in one of *)
(* five places, and there once.                                             *)
In(s, x) == \E n \in 1..Len(s) : s[n] = x
Once(s, x) == \A n, m \in 1..Len(s) : s[n] = x /\ s[m] = x => n = m

Target(t) == TargetOf[t.caller]
Method(t) == MethodOf[t.caller]
InCtl(t)        == In(ctl, Call(t))
InQueue(i, t)   == In(queue[i], Call(t))
Replying(i, t)  == In(wire[i], Reply(t))
Replied(i, m, t) == In(replies[i][m], t)
Flying(t) ==
  \/ InCtl(t) \/ InQueue(Target(t), t) \/ t \in asked[Target(t)]
  \/ Replying(Target(t), t) \/ Replied(Target(t), Method(t), t)

(* Nothing is at another client's or method's, nothing is in two places or in   *)
(* one place twice.                                                         *)
Placed(t) ==
  \A i \in Conn :
    /\ InQueue(i, t) \/ t \in asked[i] \/ Replying(i, t) => i = Target(t)
    /\ \A m \in Methods : Replied(i, m, t) => i = Target(t) /\ m = Method(t)
Apart(t) ==
  LET i == Target(t)
      replied == Replied(i, Method(t), t) IN
    /\ InCtl(t) => ~InQueue(i, t) /\ t \notin asked[i] /\ ~Replying(i, t) /\ ~replied
    /\ InQueue(i, t) => t \notin asked[i] /\ ~Replying(i, t) /\ ~replied
    /\ t \in asked[i] => ~Replying(i, t) /\ ~replied
    /\ Replying(i, t) => ~replied
Single(t) ==
  /\ Once(ctl, Call(t))
  /\ \A i \in Conn :
       /\ Once(queue[i], Call(t)) /\ Once(wire[i], Reply(t))
       /\ \A m \in Methods : Once(replies[i][m], t)
FlightAt(t) == Placed(t) /\ Apart(t) /\ Single(t)
FlightInv == \A t \in Tags : FlightAt(t)

LEMMA InAppend ==
  ASSUME NEW S, NEW s \in Seq(S), NEW y \in S, NEW x
  PROVE  /\ In(Append(s, y), x) <=> In(s, x) \/ x = y
         /\ Once(s, x) /\ (x = y => ~In(s, x)) => Once(Append(s, y), x)
<1>1. \A n \in 1..Len(Append(s, y)) :
        Append(s, y)[n] = IF n = Len(s) + 1 THEN y ELSE s[n]
  OBVIOUS
<1>2. 1..Len(Append(s, y)) = 1..Len(s) \cup {Len(s) + 1} /\ Len(s) + 1 \notin 1..Len(s)
  OBVIOUS
<1> QED BY <1>1, <1>2 DEF In, Once

LEMMA InTail ==
  ASSUME NEW S, NEW s \in Seq(S), s # <<>>, NEW x
  PROVE  /\ In(Tail(s), x) => In(s, x)
         /\ Once(s, x) => Once(Tail(s), x)
         /\ Once(s, x) /\ x = Head(s) => ~In(Tail(s), x)
         /\ In(s, Head(s))
<1>1. \A n \in 1..Len(Tail(s)) : n + 1 \in 1..Len(s) /\ n + 1 # 1 /\ Tail(s)[n] = s[n + 1]
  OBVIOUS
<1>2. 1 \in 1..Len(s) /\ Head(s) = s[1]
  OBVIOUS
<1>3. \A n, m \in 1..Len(Tail(s)) : n + 1 = m + 1 => n = m
  OBVIOUS
<1> QED BY <1>1, <1>2, <1>3 DEF In, Once

LEMMA InPrefix ==
  ASSUME NEW S, NEW s \in Seq(S), NEW n \in 0..Len(s), NEW x
  PROVE  /\ In(SubSeq(s, 1, n), x) => In(s, x)
         /\ Once(s, x) => Once(SubSeq(s, 1, n), x)
<1>1. \A m \in 1..Len(SubSeq(s, 1, n)) : m \in 1..Len(s) /\ SubSeq(s, 1, n)[m] = s[m]
  OBVIOUS
<1> QED BY <1>1 DEF In, Once

(* A step that only takes t out of a place, or leaves it where it is.          *)
Fewer(s1, s2, x) == (In(s2, x) => In(s1, x)) /\ (Once(s1, x) => Once(s2, x))
FewerAt(t) ==
  /\ Fewer(ctl, ctl', Call(t))
  /\ \A i \in Conn :
       /\ Fewer(queue[i], queue'[i], Call(t))
       /\ t \in asked'[i] => t \in asked[i]
       /\ Fewer(wire[i], wire'[i], Reply(t))
       /\ \A m \in Methods : Fewer(replies[i][m], replies'[i][m], t)

LEMMA TagsTyped ==
  ASSUME NEW t \in Tags
  PROVE  t.caller \in Callers /\ Target(t) \in Conn /\ Method(t) \in Methods
  BY ServerAssumption DEF Tags, Target, Method

LEMMA FlightFewer ==
  ASSUME NEW t \in Tags, FlightAt(t), FewerAt(t)
  PROVE  FlightAt(t)' /\ (Flying(t)' => Flying(t))
<1> USE TagsTyped DEF FewerAt, Fewer, FlightAt
<1>1. Placed(t)'
  BY DEF Placed, InQueue, Replying, Replied, Target, Method
<1>2. Apart(t)'
  BY DEF Apart, InCtl, InQueue, Replying, Replied, Target, Method
<1>3. Single(t)'
  BY DEF Single
<1>4. Flying(t)' => Flying(t)
  BY DEF Flying, InCtl, InQueue, Replying, Replied, Target, Method
<1> QED BY <1>1, <1>2, <1>3, <1>4

LEMMA TagsApart ==
  ASSUME NEW s, NEW t
  PROVE  /\ Call(s) = Call(t) => s = t
         /\ Reply(s) = Reply(t) => s = t
         /\ Call(t) # Shutdown
         /\ \A k : Frame(k) # Reply(t)
         /\ \A r : Request(r) # Reply(t)
  BY DEF Call, Reply, Shutdown, Frame, Request

LEMMA FewerSame == \A s, x : Fewer(s, s, x)
  BY DEF Fewer

(* The places of a tag, as the types have them.                              *)
Places ==
  /\ ctl \in Seq(Messages) /\ queue \in [Conn -> Seq(Messages)]
  /\ asked \in [Conn -> SUBSET Tags] /\ wire \in [Conn -> Seq(Frames)]
  /\ replies \in [Conn -> [Methods -> Seq(Tags)]]

LEMMA PlacesTyped == TypeInv => Places
  BY DEF TypeInv, TypeOK, Places

(* Appending something else than t's message brings t nowhere.                *)
LEMMA FewerAppend ==
  ASSUME NEW S, NEW s \in Seq(S), NEW y \in S, NEW x, x # y
  PROVE  Fewer(s, Append(s, y), x)
  BY InAppend DEF Fewer

LEMMA FewerTail ==
  ASSUME NEW S, NEW s \in Seq(S), s # <<>>, NEW x
  PROVE  Fewer(s, Tail(s), x)
  BY InTail DEF Fewer

(* The controller hands a call to its client's queue, or drops it.             *)
LEMMA FlightController ==
  ASSUME TypeInv, FlightInv, Controller \/ RequestShutdown, NEW t \in Tags
  PROVE  FlightAt(t)' /\ (Flying(t)' => Flying(t))
<1> USE DEF calls, channels, link
<1>0. FlightAt(t) /\ Places /\ Shutdown \in Messages
  BY PlacesTyped DEF FlightInv, Messages
<1>1. CASE ControllerStop
  <2>1. FewerAt(t)
    BY <1>1, FewerSame DEF ControllerStop, FewerAt
  <2> QED BY <1>0, <2>1, FlightFewer
<1>2. CASE RequestShutdown
  <2>1. Fewer(ctl, ctl', Call(t))
    BY <1>0, <1>2, FewerAppend, TagsApart DEF RequestShutdown, Places
  <2>2. FewerAt(t)
    BY <1>2, <2>1, FewerSame DEF RequestShutdown, FewerAt
  <2> QED BY <1>0, <2>2, FlightFewer
<1>3. ASSUME NEW X \in SUBSET Conn, NEW m \in Messages, Post(X, m), m # Call(t)
      PROVE  \A i \in Conn : Fewer(queue[i], queue'[i], Call(t))
  <2> TAKE i \in Conn
  <2>1. CASE i \in X
    BY <1>0, <1>3, <2>1, FewerAppend DEF Post, Places
  <2>2. CASE i \notin X
    BY <1>0, <1>3, <2>2, FewerSame DEF Post, Places
  <2> QED BY <2>1, <2>2
<1>4. CASE ControllerShutdown
  <2>1. Fewer(ctl, ctl', Call(t))
    BY <1>0, <1>4, FewerTail DEF ControllerShutdown, Places
  <2>2. queue' = queue \/ \E X \in SUBSET Conn : Post(X, Shutdown)
    BY <1>4 DEF ControllerShutdown
  <2>3. \A i \in Conn : Fewer(queue[i], queue'[i], Call(t))
    BY <1>0, <1>3, <2>2, TagsApart, FewerSame
  <2>4. FewerAt(t)
    BY <1>4, <2>1, <2>3, FewerSame DEF ControllerShutdown, FewerAt
  <2> QED BY <1>0, <2>4, FlightFewer
<1>5. CASE ControllerForward
  <2>1. /\ ctl # <<>> /\ ctl' = Tail(ctl) /\ Head(ctl).kind = "call"
        /\ UNCHANGED <<asked, wire, replies>>
    BY <1>5 DEF ControllerForward
  <2>2. PICK x \in Tags : Head(ctl) = Call(x)
    BY <1>0, <2>1 DEF Places, Messages, Shutdown
  <2>3. queue' = queue \/ \E X \in SUBSET {Target(x)} : Post(X, Call(x))
    <3>1. Head(ctl).tag.caller = x.caller
      BY <2>2 DEF Call
    <3> QED BY <1>5, <2>2, <3>1 DEF ControllerForward, Target
  <2>4. Fewer(ctl, ctl', Call(t)) /\ (t = x => InCtl(t) /\ ~In(ctl', Call(t)))
    BY <1>0, <2>1, <2>2, FewerTail, InTail DEF Places, InCtl, FlightAt, Single
  <2>5. Target(x) \in Conn /\ Call(x) \in Messages
    BY TagsTyped DEF Messages
  <2>6. CASE t # x \/ queue' = queue
    <3>1. \A i \in Conn : Fewer(queue[i], queue'[i], Call(t))
      BY <1>3, <2>3, <2>5, <2>6, TagsApart, FewerSame
    <3>2. FewerAt(t)
      BY <2>1, <2>4, <3>1, FewerSame DEF FewerAt
    <3> QED BY <1>0, <3>2, FlightFewer
  <2>7. CASE t = x /\ queue' # queue
    <3>1. /\ InCtl(t) /\ ~InCtl(t)' /\ Once(ctl', Call(t))
      BY <1>0, <2>4, <2>7 DEF InCtl, FlightAt, Single, Fewer
    <3>2. \A i \in Conn : queue'[i] = queue[i]
                            \/ (i = Target(t) /\ queue'[i] = Append(queue[i], Call(t)))
      BY <1>0, <2>3, <2>5, <2>7 DEF Post, Places
    <3>3. ~InQueue(Target(t), t)
      BY <1>0, <3>1 DEF FlightAt, Apart
    <3>4. \A i \in Conn : /\ In(queue'[i], Call(t)) => i = Target(t)
                          /\ Once(queue'[i], Call(t))
      <4> TAKE i \in Conn
      <4>1. CASE queue'[i] = queue[i]
        BY <1>0, <4>1 DEF FlightAt, Placed, Single, InQueue
      <4>2. CASE i = Target(t) /\ queue'[i] = Append(queue[i], Call(t))
        BY <1>0, <2>5, <2>7, <3>3, <4>2, InAppend DEF FlightAt, Single, InQueue, Places
      <4> QED BY <3>2, <4>1, <4>2
    <3>5. Placed(t)'
      BY <1>0, <2>1, <3>4 DEF FlightAt, Placed, InQueue, Replying, Replied, Target, Method
    <3>6. Apart(t)'
      BY <1>0, <2>1, <3>1 DEF FlightAt, Apart, InQueue, Replying, Replied, Target, Method
    <3>7. Single(t)'
      BY <1>0, <2>1, <3>1, <3>4 DEF FlightAt, Single
    <3> QED BY <3>1, <3>5, <3>6, <3>7 DEF FlightAt, Flying
  <2> QED BY <2>6, <2>7
<1> QED BY <1>1, <1>2, <1>4, <1>5 DEF Controller

(* The write thread sends a call to the client, or drops it.                   *)
LEMMA FlightWriter ==
  ASSUME TypeInv, FlightInv, NEW i \in Conn, WriterSend(i), NEW t \in Tags
  PROVE  FlightAt(t)' /\ (Flying(t)' => Flying(t))
<1>0. FlightAt(t) /\ Places
  BY PlacesTyped DEF FlightInv
<1>1. /\ queue[i] # <<>> /\ queue' = [queue EXCEPT ![i] = Tail(@)]
      /\ UNCHANGED <<ctl, wire, replies>>
      /\ \/ asked' = asked
         \/ asked' = [asked EXCEPT ![i] = @ \cup Text(Head(queue[i]))]
  BY DEF WriterSend, control
<1>2. Head(queue[i]) \in Messages /\ Head(queue[i]) = queue[i][1] /\ 1 \in 1..Len(queue[i])
  BY <1>0, <1>1 DEF Places
<1>3. \A j \in Conn : Fewer(queue[j], queue'[j], Call(t))
  BY <1>0, <1>1, FewerTail, FewerSame DEF Places
<1>4. CASE Head(queue[i]) # Call(t) \/ asked' = asked
  <2>1. \A j \in Conn : t \in asked'[j] => t \in asked[j]
    <3>1. Head(queue[i]) # Call(t) => t \notin Text(Head(queue[i]))
      BY <1>2 DEF Text, Messages, Call, Shutdown
    <3> QED BY <1>0, <1>1, <1>4, <3>1 DEF Places
  <2>2. FewerAt(t)
    BY <1>1, <1>3, <2>1, FewerSame DEF FewerAt
  <2> QED BY <1>0, <2>2, FlightFewer
<1>5. CASE Head(queue[i]) = Call(t) /\ asked' # asked
  <2>1. Text(Head(queue[i])) = {t}
    BY <1>5 DEF Text, Call, Shutdown
  <2>2. asked' = [asked EXCEPT ![i] = @ \cup {t}]
    BY <1>1, <1>5, <2>1
  <2>3. InQueue(i, t) /\ ~InQueue(i, t)' /\ i = Target(t)
    <3>1. queue[i] \in Seq(Messages) /\ queue'[i] = Tail(queue[i])
      BY <1>0, <1>1 DEF Places
    <3>2. Once(queue[i], Call(t))
      BY <1>0 DEF FlightAt, Single
    <3>3. In(queue[i], Call(t)) /\ ~In(queue'[i], Call(t))
      BY <1>1, <1>5, <3>1, <3>2, InTail
    <3> QED BY <1>0, <3>3 DEF InQueue, FlightAt, Placed
  <2>4. Placed(t)'
    <3>1. \A j \in Conn : t \in asked'[j] => j = Target(t)
      BY <1>0, <2>2, <2>3 DEF Places, FlightAt, Placed
    <3> QED BY <1>0, <1>1, <1>3, <3>1
            DEF FlightAt, Placed, Fewer, InQueue, Replying, Replied, Target, Method
  <2>5. Apart(t)'
    BY <1>0, <1>1, <2>3 DEF FlightAt, Apart, InCtl, InQueue, Replying, Replied, Target, Method
  <2>6. Single(t)'
    BY <1>0, <1>1, <1>3 DEF FlightAt, Single, Fewer
  <2> QED BY <2>3, <2>4, <2>5, <2>6 DEF FlightAt, Flying
<1> QED BY <1>4, <1>5

(* The other end answers, or its answers are lost.                            *)
LEMMA FlightPeer ==
  ASSUME TypeInv, FlightInv, NEW i \in Conn, Peer(i), NEW t \in Tags
  PROVE  FlightAt(t)' /\ (Flying(t)' => Flying(t))
<1>0. FlightAt(t) /\ Places
  BY PlacesTyped DEF FlightInv
<1>1. UNCHANGED <<ctl, queue, replies>>
  BY DEF Peer, control, channels
<1>2. ASSUME NEW f \in Frames, f # Reply(t),
             NEW n \in 0..Len(wire[i]), wire' = [wire EXCEPT ![i] = Append(SubSeq(@, 1, n), f)]
      PROVE  \A j \in Conn : Fewer(wire[j], wire'[j], Reply(t))
  <2> TAKE j \in Conn
  <2>1. CASE j = i
    <3>1. wire[i] \in Seq(Frames) /\ wire'[i] = Append(SubSeq(wire[i], 1, n), f)
          /\ SubSeq(wire[i], 1, n) \in Seq(Frames)
      BY <1>0, <1>2 DEF Places
    <3>2. /\ Fewer(SubSeq(wire[i], 1, n), wire'[i], Reply(t))
          /\ Fewer(wire[i], SubSeq(wire[i], 1, n), Reply(t))
      BY <1>2, <3>1, FewerAppend, InPrefix DEF Fewer
    <3> QED BY <2>1, <3>2 DEF Fewer
  <2>2. CASE j # i
    BY <1>0, <1>2, <2>2, FewerSame DEF Places
  <2> QED BY <2>1, <2>2
<1>3. wire[i] = SubSeq(wire[i], 1, Len(wire[i])) /\ Len(wire[i]) \in 0..Len(wire[i])
  BY <1>0 DEF Places
<1>4. ASSUME NEW f \in Frames, f # Reply(t), Sends(i, f)
      PROVE  \A j \in Conn : Fewer(wire[j], wire'[j], Reply(t))
  <2>1. wire' = [wire EXCEPT ![i] = Append(SubSeq(@, 1, Len(wire[i])), f)]
    BY <1>3, <1>4 DEF Sends
  <2> QED BY <1>2, <1>3, <1>4, <2>1
<1>5. /\ \A k \in {"ping", "close", "eof", "bad"} : Frame(k) \in Frames
      /\ \A r \in Requests : Request(r) \in Frames
      /\ \A x \in Tags : Reply(x) \in Frames
  BY DEF Frames
<1>6. ASSUME \A j \in Conn : Fewer(wire[j], wire'[j], Reply(t)),
             \A j \in Conn : t \in asked'[j] => t \in asked[j]
      PROVE  FlightAt(t)' /\ (Flying(t)' => Flying(t))
  <2>1. FewerAt(t)
    BY <1>1, <1>6, FewerSame DEF FewerAt
  <2> QED BY <1>0, <2>1, FlightFewer
<1>7. CASE PeerPing(i) \/ PeerBad(i) \/ \E r \in Requests : PeerRequest(r, i)
  <2>1. asked' = asked
    BY <1>7 DEF PeerPing, PeerBad, PeerRequest
  <2>2. \E f \in Frames : f # Reply(t) /\ Sends(i, f)
    BY <1>5, <1>7, TagsApart DEF PeerPing, PeerBad, PeerRequest
  <2> QED BY <1>4, <1>6, <2>1, <2>2
<1>8. CASE PeerCloses(i)
  <2>1. \A j \in Conn : t \in asked'[j] => t \in asked[j]
    BY <1>0, <1>8 DEF PeerCloses, Places
  <2>2. \E f \in Frames : f # Reply(t) /\ Sends(i, f)
    BY <1>5, <1>8, TagsApart DEF PeerCloses
  <2> QED BY <1>4, <1>6, <2>1, <2>2
<1>9. CASE PeerLost(i)
  <2>1. \A j \in Conn : t \in asked'[j] => t \in asked[j]
    BY <1>0, <1>9 DEF PeerLost, Places
  <2>2. \E n \in 0..Len(wire[i]) :
          wire' = [wire EXCEPT ![i] = Append(SubSeq(@, 1, n), Frame("eof"))]
    BY <1>9 DEF PeerLost
  <2> QED BY <1>2, <1>5, <1>6, <2>1, <2>2, TagsApart
<1>10. CASE PeerAnswer(i)
  <2>1. PICK x \in asked[i] :
          Sends(i, Reply(x)) /\ asked' = [asked EXCEPT ![i] = @ \ {x}]
    BY <1>10 DEF PeerAnswer
  <2>2. x \in Tags
    BY <1>0 DEF Places
  <2>3. \A j \in Conn : t \in asked'[j] => t \in asked[j]
    BY <1>0, <2>1 DEF Places
  <2>4. CASE x # t
    BY <1>4, <1>5, <1>6, <2>1, <2>2, <2>3, <2>4, TagsApart
  <2>5. CASE x = t
    <3>1. i = Target(t) /\ t \notin asked'[i] /\ ~In(wire[i], Reply(t))
      BY <1>0, <2>1, <2>5 DEF FlightAt, Placed, Apart, Places, Replying
    <3>2. \A j \in Conn : wire'[j] = IF j = i THEN Append(wire[i], Reply(t)) ELSE wire[j]
      BY <1>0, <2>1, <2>5 DEF Sends, Places
    <3>3. \A j \in Conn : /\ In(wire'[j], Reply(t)) => j = Target(t)
                          /\ Once(wire'[j], Reply(t))
      <4> TAKE j \in Conn
      <4>1. CASE j # i
        BY <1>0, <3>2, <4>1 DEF FlightAt, Placed, Single, Replying
      <4>2. CASE j = i
        BY <1>0, <1>5, <3>1, <3>2, <4>2, InAppend DEF FlightAt, Single, Places
      <4> QED BY <4>1, <4>2
    <3>4. Placed(t)'
      BY <1>0, <1>1, <2>3, <3>3 DEF FlightAt, Placed, InQueue, Replying, Replied, Target, Method
    <3>5. Apart(t)'
      BY <1>0, <1>1, <2>1, <2>5, <3>1
      DEF FlightAt, Apart, InCtl, InQueue, Replying, Replied, Target, Method
    <3>6. Single(t)'
      BY <1>0, <1>1, <3>3 DEF FlightAt, Single
    <3> QED BY <2>1, <2>5, <3>1, <3>4, <3>5, <3>6 DEF FlightAt, Flying
  <2> QED BY <2>4, <2>5
<1> QED BY <1>7, <1>8, <1>9, <1>10 DEF Peer

(* The read thread takes frames; a reply it hands to the callers, unless it     *)
(* panics.                                                                 *)
LEMMA FlightReader ==
  ASSUME TypeInv, FlightInv, NEW i \in Conn, NEW k, Receives(i, k), NEW t \in Tags,
         UNCHANGED <<ctl, queue>>,
         \/ UNCHANGED replies
         \/ /\ k = "reply"
            /\ replies' = [replies EXCEPT ![i][Method(Head(wire[i]).tag)] =
                             Append(@, Head(wire[i]).tag)]
  PROVE  FlightAt(t)' /\ (Flying(t)' => Flying(t))
<1>0. FlightAt(t) /\ Places
  BY PlacesTyped DEF FlightInv
<1>1. /\ wire[i] # <<>> /\ Head(wire[i]).kind = k /\ wire[i] \in Seq(Frames)
      /\ wire' = [wire EXCEPT ![i] = Tail(@)] /\ wire'[i] = Tail(wire[i]) /\ asked' = asked
  BY <1>0 DEF Receives, Places
<1>2. \A j \in Conn : Fewer(wire[j], wire'[j], Reply(t))
  BY <1>0, <1>1, FewerTail, FewerSame DEF Places
<1>3. CASE UNCHANGED replies
  <2>1. FewerAt(t)
    BY <1>1, <1>2, <1>3, FewerSame DEF FewerAt
  <2> QED BY <1>0, <2>1, FlightFewer
<1>4. CASE replies' # replies
  <2>1. PICK x \in Tags : Head(wire[i]) = Reply(x)
    <3>1. Head(wire[i]) \in Frames /\ Head(wire[i]).kind = "reply"
      BY <1>1, <1>4
    <3> QED BY <3>1 DEF Frames, Frame, Request
  <2>2. /\ Method(x) \in Methods /\ Head(wire[i]).tag = x
        /\ replies' = [replies EXCEPT ![i][Method(x)] = Append(@, x)]
    BY <1>4, <2>1, TagsTyped DEF Reply
  <2>3. \A j \in Conn, m \in Methods :
          replies'[j][m] = IF j = i /\ m = Method(x) THEN Append(replies[j][m], x)
                           ELSE replies[j][m]
    BY <1>0, <2>2 DEF Places
  <2>4. CASE x # t
    <3>1. \A j \in Conn, m \in Methods : Fewer(replies[j][m], replies'[j][m], t)
      BY <1>0, <2>3, <2>4, FewerAppend, FewerSame DEF Places
    <3>2. FewerAt(t)
      BY <1>1, <1>2, <3>1, FewerSame DEF FewerAt
    <3> QED BY <1>0, <3>2, FlightFewer
  <2>5. CASE x = t
    <3>1. Once(wire[i], Reply(t))
      BY <1>0 DEF FlightAt, Single
    <3>2. In(wire[i], Reply(t)) /\ ~In(wire'[i], Reply(t))
      BY <1>1, <2>1, <2>5, <3>1, InTail
    <3>3. i = Target(t) /\ ~In(replies[i][Method(t)], t)
      BY <1>0, <3>2 DEF FlightAt, Placed, Apart, Replying, Replied
    <3>4. \A j \in Conn, m \in Methods :
            /\ In(replies'[j][m], t) => j = Target(t) /\ m = Method(t)
            /\ Once(replies'[j][m], t)
      <4> TAKE j \in Conn, m \in Methods
      <4>1. CASE j = i /\ m = Method(t)
        BY <1>0, <2>3, <2>5, <3>3, <4>1, InAppend DEF FlightAt, Single, Places
      <4>2. CASE ~(j = i /\ m = Method(t))
        BY <1>0, <2>3, <2>5, <4>2 DEF FlightAt, Placed, Single, Replied
      <4> QED BY <4>1, <4>2
    <3>5. Placed(t)'
      BY <1>0, <1>1, <1>2, <3>4
      DEF FlightAt, Placed, Fewer, InQueue, Replying, Replied, Target, Method
    <3>6. Apart(t)'
      BY <1>0, <1>1, <3>2, <3>3
      DEF FlightAt, Apart, InCtl, InQueue, Replying, Replied, Target, Method
    <3>7. Single(t)'
      BY <1>0, <1>1, <1>2, <3>4 DEF FlightAt, Single, Fewer
    <3> QED BY <3>2, <3>3, <3>5, <3>6, <3>7 DEF FlightAt, Flying, Replying
  <2> QED BY <2>4, <2>5
<1> QED BY <1>3, <1>4

(* Who waits for what. Every call on its way is one of the past, or the one its *)
(* caller waits for.                                                        *)
FreshInv ==
  \A t \in Tags : Flying(t) =>
    /\ t.n <= caller[t.caller].n
    /\ caller[t.caller].at = "sending" => t.n < caller[t.caller].n

(* A caller that shares its method and client with nobody waits for what it has *)
(* sent last, and for nothing else, unless nothing can reach it any more.       *)
Alone(k) == \A l \in Callers \ {k} : ~Shares(k, l)
Arrived(t) == Replied(Target(t), Method(t), t)
OwnInv ==
  \A t \in Tags : Flying(t) /\ Alone(t.caller) =>
    \/ caller[t.caller].at = "waiting" /\ t.n = caller[t.caller].n
    \/ SendersDropped(Target(t)) /\ ~Arrived(t)

(* Callers that share may get each other's replies, but for each call on its     *)
(* way there is one of them, f of it, that waits.                             *)
Awaits(f) ==
  \A t \in Tags : Flying(t) /\ ~SendersDropped(Target(t)) =>
    /\ Shares(t.caller, f[t]) /\ caller[f[t]].at = "waiting"
    /\ \A s \in Tags : Flying(s) /\ ~SendersDropped(Target(s)) /\ f[s] = f[t] => s = t
AwaitInv == \E f \in [Tags -> Callers] : Awaits(f)

(* So when the receivers of a client are removed nothing for them is on its way. *)
HeldInv ==
  /\ worker \in {"announce", "clients", "beat"} => lastId \in receivers
  /\ \A k \in Callers : caller[k].at # "idle" => TargetOf[k] \in receivers
  /\ \A i \in Conn \ receivers :
       \/ pc["reader"][i] = "none" \/ SendersDropped(i)
       \/ \A t \in Tags : Flying(t) => Target(t) # i

CallsInv == FlightInv /\ FreshInv /\ OwnInv /\ AwaitInv /\ HeldInv /\ OwnReply

LEMMA CallsInit == Init => CallsInv
<1> SUFFICES ASSUME Init PROVE CallsInv
  OBVIOUS
<1> USE TagsTyped DEF Init
<1>1. \A s : ~In(<<>>, s) /\ Once(<<>>, s)
  BY DEF In, Once
<1>2. \A t \in Tags : ~Flying(t)
  BY <1>1 DEF Flying, InCtl, InQueue, Replying, Replied
<1>3. FlightInv
  <2> SUFFICES ASSUME NEW t \in Tags PROVE FlightAt(t)
    BY DEF FlightInv
  <2>1. Placed(t) /\ Apart(t)
    BY <1>1 DEF Placed, Apart, InCtl, InQueue, Replying, Replied
  <2>2. Single(t)
    BY <1>1 DEF Single
  <2> QED BY <2>1, <2>2 DEF FlightAt
<1>4. FreshInv /\ OwnInv
  BY <1>2 DEF FreshInv, OwnInv
<1>5. AwaitInv
  <2>1. [t \in Tags |-> t.caller] \in [Tags -> Callers]
    BY DEF Tags
  <2> QED BY <1>2, <2>1 DEF AwaitInv, Awaits
<1>6. HeldInv /\ OwnReply
  BY DEF HeldInv, OwnReply, Roles
<1> QED BY <1>3, <1>4, <1>5, <1>6 DEF CallsInv

(* Steps of others than the callers.                                         *)
LEMMA CallsKept ==
  ASSUME CallsInv, UNCHANGED <<caller, answers>>, HeldInv',
         \A t \in Tags :
           /\ FlightAt(t)' /\ (Flying(t)' => Flying(t))
           /\ SendersDropped(Target(t)) =>
                SendersDropped(Target(t))' /\ (Arrived(t)' => Arrived(t))
  PROVE  CallsInv'
<1> USE DEF CallsInv
<1>1. FlightInv' /\ OwnReply'
  BY DEF FlightInv, OwnReply
<1>2. FreshInv'
  BY DEF FreshInv
<1>3. OwnInv'
  BY DEF OwnInv
<1>4. AwaitInv'
  <2>1. PICK f \in [Tags -> Callers] : Awaits(f)
    BY DEF AwaitInv
  <2>2. Awaits(f)'
    BY <2>1 DEF Awaits
  <2> QED BY <2>2 DEF AwaitInv
<1> QED BY <1>1, <1>2, <1>3, <1>4

(* A call begins.                                                           *)
LEMMA CallsBegin ==
  ASSUME TypeInv, CallsInv, NEW k \in Callers, CallBegin(k)
  PROVE  CallsInv'
<1> USE DEF CallsInv
<1>1. /\ caller[k].at = "idle" /\ TargetOf[k] \in receivers
      /\ caller' = [caller EXCEPT ![k] = [at |-> "sending", n |-> caller[k].n + 1]]
      /\ caller \in [Callers -> [at : {"idle", "sending", "waiting"}, n : 0..MaxCalls]]
      /\ UNCHANGED <<worker, lastId, receivers, pc, ctl, queue, asked, wire, replies, answers>>
  BY DEF CallBegin, TypeInv, TypeOK, control, accepts, tables, channels, link
<1>2. \A t \in Tags : Flying(t)' <=> Flying(t)
  BY <1>1 DEF Flying, InCtl, InQueue, Replying, Replied, Target, Method
<1>3. \A i \in Conn : SendersDropped(i)' <=> SendersDropped(i)
  BY <1>1 DEF SendersDropped, Dead
<1>4. \A l \in Callers : caller'[l] = IF l = k THEN [at |-> "sending", n |-> caller[k].n + 1]
                                     ELSE caller[l]
  BY <1>1
<1>5. FlightInv' /\ OwnReply'
  BY <1>1 DEF FlightInv, FlightAt, Placed, Apart, Single, InCtl, InQueue, Replying, Replied,
              Target, Method, OwnReply
<1>6. FreshInv'
  <2> SUFFICES ASSUME NEW t \in Tags, Flying(t)
               PROVE  /\ t.n <= caller'[t.caller].n
                      /\ caller'[t.caller].at = "sending" => t.n < caller'[t.caller].n
    BY <1>2 DEF FreshInv
  <2>1. t.caller \in Callers /\ t.n \in Nat /\ caller[k].n \in Nat
    BY <1>1, ServerAssumption DEF Tags
  <2>2. /\ t.n <= caller[t.caller].n
        /\ caller[t.caller].at = "sending" => t.n < caller[t.caller].n
    BY DEF FreshInv
  <2>3. CASE t.caller = k
    BY <1>4, <2>1, <2>2, <2>3
  <2>4. CASE t.caller # k
    BY <1>4, <2>1, <2>2, <2>4
  <2> QED BY <2>3, <2>4
<1>7. OwnInv'
  <2> SUFFICES ASSUME NEW t \in Tags, Flying(t), Alone(t.caller)
               PROVE  \/ caller'[t.caller].at = "waiting" /\ t.n = caller'[t.caller].n
                      \/ SendersDropped(Target(t)) /\ ~Arrived(t)
    BY <1>1, <1>2, <1>3, TagsTyped DEF OwnInv, Alone, Arrived, Replied, Target, Method
  <2>1. \/ caller[t.caller].at = "waiting" /\ t.n = caller[t.caller].n
        \/ SendersDropped(Target(t)) /\ ~Arrived(t)
    BY DEF OwnInv
  <2> QED BY <1>1, <1>4, <2>1, TagsTyped
<1>8. AwaitInv'
  <2>1. PICK f \in [Tags -> Callers] : Awaits(f)
    BY DEF AwaitInv
  <2>2. \A t \in Tags : f[t] \in Callers
    BY <2>1
  <2>3. Awaits(f)'
    BY <1>1, <1>2, <1>3, <1>4, <2>1, <2>2, TagsTyped DEF Awaits, Target
  <2> QED BY <2>1, <2>3 DEF AwaitInv
<1>9. HeldInv'
  BY <1>1, <1>2, <1>3, <1>4 DEF HeldInv, Target
<1> QED BY <1>5, <1>6, <1>7, <1>8, <1>9

(* A call is sent: it is new, and its caller waits for it.                     *)
LEMMA CallsSend ==
  ASSUME TypeInv, CallsInv, NEW k \in Callers, CallSend(k)
  PROVE  CallsInv'
<1> USE DEF CallsInv
<1>1. /\ caller[k].at = "sending"
      /\ caller \in [Callers -> [at : {"idle", "sending", "waiting"}, n : 0..MaxCalls]]
      /\ UNCHANGED <<worker, lastId, receivers, pc, queue, asked, wire, replies, answers>>
  BY DEF CallSend, At, TypeInv, TypeOK, accepts, tables, channels, link
<1>2. Tag(k) \in Tags /\ Tag(k).caller = k /\ Tag(k).n = caller[k].n
  BY <1>1 DEF TypeInv, CallsCounted, Tag, Tags
<1>3. ~Flying(Tag(k))
  <2>1. caller[k].n \in Nat
    BY <1>1, ServerAssumption
  <2> QED BY <1>1, <1>2, <2>1 DEF FreshInv
<1>4. \E to \in {"waiting", "idle"} :
        /\ \A l \in Callers : caller'[l] = IF l = k THEN [at |-> to, n |-> caller[k].n]
                                          ELSE caller[l]
        /\ ctl' = IF to = "waiting" THEN Append(ctl, Call(Tag(k))) ELSE ctl
  BY <1>1 DEF CallSend, At
<1>5. PICK to \in {"waiting", "idle"} :
        /\ \A l \in Callers : caller'[l] = IF l = k THEN [at |-> to, n |-> caller[k].n]
                                          ELSE caller[l]
        /\ ctl' = IF to = "waiting" THEN Append(ctl, Call(Tag(k))) ELSE ctl
  BY <1>4
<1>6. \A t \in Tags : /\ InCtl(t)' <=> InCtl(t) \/ (to = "waiting" /\ t = Tag(k))
                      /\ Once(ctl', Call(t))
  <2> TAKE t \in Tags
  <2>1. ctl \in Seq(Messages) /\ Call(Tag(k)) \in Messages
    BY <1>2, PlacesTyped DEF Places, Messages
  <2>2. Call(t) = Call(Tag(k)) <=> t = Tag(k)
    BY TagsApart
  <2>3. Once(ctl, Call(t)) /\ ~InCtl(Tag(k))
    BY <1>3 DEF FlightInv, FlightAt, Single, Flying
  <2>4. CASE to = "waiting"
    <3>1. ctl' = Append(ctl, Call(Tag(k)))
      BY <1>5, <2>4
    <3>2. In(ctl', Call(t)) <=> In(ctl, Call(t)) \/ t = Tag(k)
      BY <2>1, <2>2, <3>1, InAppend
    <3>3. Once(ctl', Call(t))
      BY <2>1, <2>2, <2>3, <3>1, InAppend DEF InCtl
    <3> QED BY <2>4, <3>2, <3>3 DEF InCtl
  <2>5. CASE to # "waiting"
    BY <1>5, <2>3, <2>5 DEF InCtl
  <2> QED BY <2>4, <2>5
<1>7. \A t \in Tags : Flying(t)' <=> Flying(t) \/ (to = "waiting" /\ t = Tag(k))
  BY <1>1, <1>6 DEF Flying, InQueue, Replying, Replied, Target, Method
<1>8. \A i \in Conn : SendersDropped(i)' <=> SendersDropped(i)
  BY <1>1 DEF SendersDropped, Dead
<1>9. FlightInv' /\ OwnReply'
  <2>1. ASSUME NEW t \in Tags PROVE FlightAt(t)'
    <3>1. FlightAt(t) /\ (t = Tag(k) => ~Flying(t))
      BY <1>3 DEF FlightInv
    <3>2. Placed(t)'
      BY <1>1, <3>1 DEF FlightAt, Placed, InQueue, Replying, Replied, Target, Method
    <3>3. Apart(t)'
      BY <1>1, <1>6, <3>1 DEF FlightAt, Apart, Flying, InQueue, Replying, Replied, Target, Method
    <3>4. Single(t)'
      BY <1>1, <1>6, <3>1 DEF FlightAt, Single
    <3> QED BY <3>2, <3>3, <3>4 DEF FlightAt
  <2> QED BY <1>1, <2>1 DEF FlightInv, OwnReply
<1>10. FreshInv'
  <2> SUFFICES ASSUME NEW t \in Tags, Flying(t) \/ t = Tag(k)
               PROVE  /\ t.n <= caller'[t.caller].n
                      /\ caller'[t.caller].at = "sending" => t.n < caller'[t.caller].n
    BY <1>7 DEF FreshInv
  <2>1. t.caller \in Callers /\ t.n \in Nat /\ caller[k].n \in Nat
    BY <1>1, ServerAssumption DEF Tags
  <2>2. CASE Flying(t)
    BY <1>5, <2>1, <2>2 DEF FreshInv
  <2>3. CASE t = Tag(k)
    BY <1>2, <1>5, <2>1, <2>3
  <2> QED BY <2>2, <2>3
<1>11. OwnInv'
  <2> SUFFICES ASSUME NEW t \in Tags, Flying(t) \/ (to = "waiting" /\ t = Tag(k)), Alone(t.caller)
               PROVE  \/ caller'[t.caller].at = "waiting" /\ t.n = caller'[t.caller].n
                      \/ SendersDropped(Target(t)) /\ ~Arrived(t)
    BY <1>1, <1>7, <1>8, TagsTyped DEF OwnInv, Alone, Arrived, Replied, Target, Method
  <2>1. CASE Flying(t)
    BY <1>1, <1>5, <2>1, TagsTyped DEF OwnInv
  <2>2. CASE to = "waiting" /\ t = Tag(k)
    BY <1>2, <1>5, <2>2
  <2> QED BY <2>1, <2>2
<1>12. AwaitInv'
  <2>1. PICK f \in [Tags -> Callers] : Awaits(f)
    BY DEF AwaitInv
  <2>2. PICK g \in [Tags -> Callers] : \A t \in Tags : g[t] = IF t = Tag(k) THEN k ELSE f[t]
    <3> DEFINE h == [f EXCEPT ![Tag(k)] = k]
    <3>1. h \in [Tags -> Callers] /\ \A t \in Tags : h[t] = IF t = Tag(k) THEN k ELSE f[t]
      BY <1>2, <2>1
    <3> QED BY <3>1
  <2>3. \A t \in Tags : Flying(t) /\ ~SendersDropped(Target(t)) => f[t] # k
    BY <1>1, <2>1 DEF Awaits
  <2>4. ASSUME NEW t \in Tags, Flying(t)', ~SendersDropped(Target(t))
        PROVE  /\ Shares(t.caller, g[t]) /\ caller'[g[t]].at = "waiting"
               /\ \A s \in Tags : Flying(s)' /\ ~SendersDropped(Target(s)) /\ g[s] = g[t] => s = t
    <3>1. CASE t = Tag(k)
      <4>1. to = "waiting"
        BY <1>3, <1>7, <2>4, <3>1
      <4> QED BY <1>2, <1>5, <1>7, <2>2, <2>3, <3>1, <4>1 DEF Shares
    <3>2. CASE t # Tag(k)
      <4>1. Flying(t) /\ g[t] = f[t] /\ f[t] # k /\ f[t] \in Callers
        BY <1>7, <2>1, <2>2, <2>3, <2>4, <3>2
      <4> QED BY <1>5, <1>7, <2>1, <2>2, <2>4, <4>1 DEF Awaits
    <3> QED BY <3>1, <3>2
  <2>5. Awaits(g)'
    BY <1>8, <2>4, TagsTyped DEF Awaits, Target
  <2> QED BY <2>2, <2>5 DEF AwaitInv
<1>13. HeldInv'
  <2>1. \A l \in Callers : caller'[l].at # "idle" => TargetOf[l] \in receivers
    BY <1>1, <1>5 DEF HeldInv
  <2>2. \A i \in Conn \ receivers : Target(Tag(k)) # i
    BY <1>1, <1>2 DEF HeldInv, Target
  <2> QED BY <1>1, <1>7, <1>8, <2>1, <2>2 DEF HeldInv, Target
<1> QED BY <1>9, <1>10, <1>11, <1>12, <1>13

(* A call fails: nothing can reach it any more.                               *)
LEMMA CallsFail ==
  ASSUME TypeInv, CallsInv, NEW k \in Callers, CallFails(k)
  PROVE  CallsInv'
<1> USE DEF CallsInv
<1>1. /\ caller[k].at = "waiting" /\ SendersDropped(TargetOf[k])
      /\ replies[TargetOf[k]][MethodOf[k]] = <<>>
      /\ caller \in [Callers -> [at : {"idle", "sending", "waiting"}, n : 0..MaxCalls]]
      /\ UNCHANGED <<worker, lastId, receivers, pc, ctl, queue, asked, wire, replies, answers>>
  BY DEF CallFails, At, TypeInv, TypeOK, control, accepts, tables, channels, link
<1>2. \A l \in Callers : caller'[l] = IF l = k THEN [at |-> "idle", n |-> caller[k].n]
                                     ELSE caller[l]
  BY <1>1 DEF CallFails, At
<1>3. \A t \in Tags : Flying(t)' <=> Flying(t)
  BY <1>1 DEF Flying, InCtl, InQueue, Replying, Replied, Target, Method
<1>4. \A i \in Conn : SendersDropped(i)' <=> SendersDropped(i)
  BY <1>1 DEF SendersDropped, Dead
<1>5. \A t \in Tags : t.caller = k => SendersDropped(Target(t)) /\ ~Arrived(t)
  <2>1. ~\E n \in 1..Len(<<>>) : TRUE
    OBVIOUS
  <2> QED BY <1>1, <2>1 DEF Arrived, Replied, In, Target, Method
<1>6. FlightInv' /\ OwnReply'
  BY <1>1 DEF FlightInv, FlightAt, Placed, Apart, Single, InCtl, InQueue, Replying, Replied,
              Target, Method, OwnReply
<1>7. FreshInv'
  <2>1. \A l \in Callers : caller'[l].n = caller[l].n
                             /\ (caller'[l].at = "sending" => caller[l].at = "sending")
    BY <1>2
  <2> QED BY <1>3, <2>1, TagsTyped DEF FreshInv
<1>8. OwnInv'
  <2> SUFFICES ASSUME NEW t \in Tags, Flying(t), Alone(t.caller)
               PROVE  \/ caller'[t.caller].at = "waiting" /\ t.n = caller'[t.caller].n
                      \/ SendersDropped(Target(t)) /\ ~Arrived(t)
    BY <1>1, <1>3, <1>4, TagsTyped DEF OwnInv, Alone, Arrived, Replied, Target, Method
  <2> QED BY <1>2, <1>5, TagsTyped DEF OwnInv
<1>9. AwaitInv'
  <2>1. PICK f \in [Tags -> Callers] : Awaits(f)
    BY DEF AwaitInv
  <2>2. ASSUME NEW t \in Tags, Flying(t), ~SendersDropped(Target(t))
        PROVE  f[t] # k /\ f[t] \in Callers
    BY <1>1, <2>1, <2>2 DEF Awaits, Shares, Target
  <2>3. Awaits(f)'
    BY <1>2, <1>3, <1>4, <2>1, <2>2, TagsTyped DEF Awaits, Target
  <2> QED BY <2>1, <2>3 DEF AwaitInv
<1>10. HeldInv'
  <2>1. \A l \in Callers : caller'[l].at # "idle" => caller[l].at # "idle"
    BY <1>2
  <2> QED BY <1>1, <1>3, <1>4, <2>1 DEF HeldInv, Target
<1> QED BY <1>6, <1>7, <1>8, <1>9, <1>10

(* A call returns with a reply to its client and method; if it is another        *)
(* caller's, that caller takes over to wait for what this one has sent.         *)
LEMMA CallsReturn ==
  ASSUME TypeInv, CallsInv, NEW k \in Callers, CallReturn(k)
  PROVE  CallsInv'
<1> DEFINE i == TargetOf[k]
           m == MethodOf[k]
<1> USE DEF CallsInv
<1>0. i \in Conn /\ m \in Methods
  BY ServerAssumption DEF Methods
<1>1. /\ caller[k].at = "waiting" /\ replies[i][m] # <<>>
      /\ answers' = answers \cup {[call |-> Tag(k), reply |-> Head(replies[i][m])]}
      /\ replies' = [replies EXCEPT ![i][m] = Tail(@)]
      /\ UNCHANGED <<worker, lastId, receivers, pc, ctl, queue, asked, wire>>
  BY DEF CallReturn, At, Received, control, accepts, tables, link
<1>2. \A l \in Callers : caller'[l] = IF l = k THEN [at |-> "idle", n |-> caller[k].n]
                                     ELSE caller[l]
  BY DEF CallReturn, At, TypeInv, TypeOK
<1>3. Places /\ replies[i][m] \in Seq(Tags)
  BY <1>0, PlacesTyped DEF Places
<1>4. PICK h \in Tags : h = Head(replies[i][m]) /\ In(replies[i][m], h)
  BY <1>1, <1>3, InTail
<1> HIDE DEF i, m
<1>5. Replied(i, m, h) /\ FlightAt(h) /\ i = Target(h) /\ m = Method(h)
  BY <1>0, <1>4 DEF Replied, FlightInv, FlightAt, Placed
<1>6. \A j \in Conn, n \in Methods : replies'[j][n] = IF j = i /\ n = m THEN Tail(replies[i][m])
                                                     ELSE replies[j][n]
  BY <1>0, <1>1, <1>3 DEF Places
<1>7. \A t \in Tags : FewerAt(t)
  <2> TAKE t \in Tags
  <2>1. \A j \in Conn, n \in Methods : Fewer(replies[j][n], replies'[j][n], t)
    BY <1>1, <1>3, <1>6, FewerTail, FewerSame
  <2> QED BY <1>1, <2>1, FewerSame DEF FewerAt
<1>8. \A t \in Tags : FlightAt(t)' /\ (Flying(t)' => Flying(t))
  BY <1>7, FlightFewer DEF FlightInv
<1>9. Flying(h) /\ ~Flying(h)'
  <2>1. Flying(h)
    BY <1>5 DEF Flying
  <2>2. ~InCtl(h) /\ ~InQueue(i, h) /\ h \notin asked[i] /\ ~Replying(i, h)
    BY <1>5 DEF FlightAt, Apart
  <2>3. ~In(replies'[i][m], h)
    <3>1. Once(replies[i][m], h) /\ h = Head(replies[i][m])
      BY <1>0, <1>4, <1>5 DEF FlightAt, Single
    <3> QED BY <1>0, <1>1, <1>3, <1>6, <3>1, InTail
  <2> QED BY <1>1, <1>5, <2>1, <2>2, <2>3
          DEF Flying, InCtl, InQueue, Replying, Replied, Target, Method
<1>10. \A j \in Conn : SendersDropped(j)' <=> SendersDropped(j)
  BY <1>1 DEF SendersDropped, Dead
<1>11. h.caller \in Callers /\ Shares(k, h.caller) /\ Tag(k).caller = k /\ Tag(k).n = caller[k].n
  BY <1>4, <1>5, TagsTyped DEF Shares, Target, Method, i, m, Tag
<1>12. Alone(k) => h = Tag(k)
  <2> SUFFICES ASSUME Alone(k) PROVE h = Tag(k)
    OBVIOUS
  <2>1. h.caller = k
    BY <1>11 DEF Alone
  <2>2. Arrived(h)
    BY <1>5 DEF Arrived
  <2>3. h.n = caller[k].n
    BY <1>4, <1>9, <2>1, <2>2 DEF OwnInv
  <2> QED BY <1>4, <2>1, <2>3 DEF Tags, Tag
<1>13. FlightInv'
  BY <1>8 DEF FlightInv
<1>14. OwnReply'
  <2> SUFFICES ASSUME NEW x \in answers'
               PROVE  /\ Shares(x.call.caller, x.reply.caller)
                      /\ x.reply = x.call
                           \/ \E l \in Callers \ {x.call.caller} : Shares(x.call.caller, l)
    BY DEF OwnReply
  <2>1. CASE x \in answers
    BY <2>1 DEF OwnReply
  <2>2. CASE x = [call |-> Tag(k), reply |-> h]
    BY <1>11, <1>12, <2>2 DEF Alone
  <2> QED BY <1>1, <1>4, <2>1, <2>2
<1>15. FreshInv'
  <2>1. \A l \in Callers : caller'[l].n = caller[l].n
                             /\ (caller'[l].at = "sending" => caller[l].at = "sending")
    BY <1>2
  <2> QED BY <1>8, <2>1, TagsTyped DEF FreshInv
<1>16. OwnInv'
  <2> SUFFICES ASSUME NEW t \in Tags, Flying(t), t # h, Alone(t.caller)
               PROVE  \/ caller'[t.caller].at = "waiting" /\ t.n = caller'[t.caller].n
                      \/ SendersDropped(Target(t)) /\ ~Arrived(t)
    <3>1. \A t \in Tags : Arrived(t)' => Arrived(t)
      BY <1>7, TagsTyped DEF FewerAt, Fewer, Arrived, Replied, Target, Method
    <3> QED BY <1>8, <1>9, <1>10, <3>1, TagsTyped DEF OwnInv, Alone, Target
  <2>1. \/ caller[t.caller].at = "waiting" /\ t.n = caller[t.caller].n
        \/ SendersDropped(Target(t)) /\ ~Arrived(t)
    BY DEF OwnInv
  <2>2. t.caller = k /\ t.n = caller[k].n => t = Tag(k)
    BY DEF Tags, Tag
  <2>3. t.caller = k => t.n # caller[k].n
    BY <1>12, <2>2
  <2> QED BY <1>2, <2>1, <2>3, TagsTyped
<1>17. AwaitInv'
  <2>1. PICK f \in [Tags -> Callers] : Awaits(f)
    BY DEF AwaitInv
  <2>2. PICK g \in [Tags -> Callers] : \A t \in Tags : g[t] = IF f[t] = k THEN f[h] ELSE f[t]
    <3> DEFINE e == [t \in Tags |-> IF f[t] = k THEN f[h] ELSE f[t]]
    <3>1. e \in [Tags -> Callers] /\ \A t \in Tags : e[t] = IF f[t] = k THEN f[h] ELSE f[t]
      BY <1>4, <2>1
    <3> QED BY <3>1
  <2>3. ASSUME NEW t \in Tags, Flying(t), t # h, ~SendersDropped(Target(t)), f[t] = k
        PROVE  /\ Target(h) = Target(t) /\ Shares(t.caller, f[h])
               /\ f[h] \in Callers \ {k} /\ caller[f[h]].at = "waiting"
    <3>1. Shares(t.caller, k)
      BY <2>1, <2>3 DEF Awaits
    <3>2. Target(h) = Target(t)
      BY <1>5, <3>1 DEF Shares, Target, i
    <3>3. Shares(h.caller, f[h]) /\ caller[f[h]].at = "waiting" /\ f[h] # f[t]
      BY <1>4, <1>9, <2>1, <2>3, <3>2 DEF Awaits
    <3> QED BY <1>4, <1>11, <2>1, <2>3, <3>1, <3>2, <3>3 DEF Shares
  <2>4. ASSUME NEW t \in Tags, Flying(t)', ~SendersDropped(Target(t))
        PROVE  /\ Shares(t.caller, g[t]) /\ caller'[g[t]].at = "waiting"
               /\ \A s \in Tags : Flying(s)' /\ ~SendersDropped(Target(s)) /\ g[s] = g[t] => s = t
    <3>1. Flying(t) /\ t # h /\ f[t] \in Callers
      BY <1>8, <1>9, <2>1, <2>4
    <3>2. Shares(t.caller, g[t]) /\ g[t] \in Callers \ {k} /\ caller[g[t]].at = "waiting"
      <4>1. CASE f[t] = k
        BY <2>2, <2>3, <2>4, <3>1, <4>1
      <4>2. CASE f[t] # k
        BY <2>1, <2>2, <2>4, <3>1, <4>2 DEF Awaits
      <4> QED BY <4>1, <4>2
    <3>3. ASSUME NEW s \in Tags, Flying(s)', ~SendersDropped(Target(s)), g[s] = g[t] PROVE s = t
      <4>1. Flying(s) /\ s # h
        BY <1>8, <1>9, <3>3
      <4>2. ASSUME NEW x \in Tags, Flying(x), ~SendersDropped(Target(x)),
                   NEW y \in Tags, Flying(y), ~SendersDropped(Target(y)), f[x] = f[y]
            PROVE  x = y
        BY <2>1, <4>2 DEF Awaits
      <4>3. CASE f[s] = k /\ f[t] = k
        BY <2>4, <3>1, <3>3, <4>1, <4>2, <4>3
      <4>4. CASE f[s] # k /\ f[t] # k
        BY <2>2, <2>4, <3>1, <3>3, <4>1, <4>2, <4>4
      <4>5. CASE f[s] = k /\ f[t] # k
        BY <1>4, <1>9, <2>2, <2>3, <2>4, <3>1, <3>3, <4>1, <4>2, <4>5
      <4>6. CASE f[s] # k /\ f[t] = k
        BY <1>4, <1>9, <2>2, <2>3, <2>4, <3>1, <3>3, <4>1, <4>2, <4>6
      <4> QED BY <4>3, <4>4, <4>5, <4>6
    <3> QED BY <1>2, <3>2, <3>3
  <2>5. Awaits(g)'
    BY <1>10, <2>4, TagsTyped DEF Awaits, Target
  <2> QED BY <2>2, <2>5 DEF AwaitInv
<1>18. HeldInv'
  <2>1. \A l \in Callers : caller'[l].at # "idle" => caller[l].at # "idle"
    BY <1>2
  <2> QED BY <1>1, <1>8, <1>10, <2>1 DEF HeldInv, Target
<1> QED BY <1>13, <1>14, <1>15, <1>16, <1>17, <1>18

(* A read thread that has not started or has ended stays as it is.             *)
Rests ==
  \A j \in Conn : pc["reader"][j] \in {"none", "ended", "panicked"}
                    => pc'["reader"][j] = pc["reader"][j]

LEMMA RestsGoto ==
  ASSUME TypeInv, NEW r, NEW i \in Conn, NEW step, Goto(r, i, step),
         r \in Roles, pc[r][i] \notin {"none", "ended", "panicked"}
  PROVE  Rests
  BY DEF Rests, Goto, TypeInv, TypeOK, Roles

LEMMA RestsClose ==
  ASSUME TypeInv, NEW r \in Roles, NEW i \in Conn, Close(r, i)
  PROVE  Rests
<1>1. \E step : Goto(r, i, step) /\ pc[r][i] \notin {"none", "ended", "panicked"}
  BY DEF Close, CloseClients, CloseReport, CloseHeartbeats, CloseSenders, CloseReceivers,
         LockPanics, ThreadPanics
<1> QED BY <1>1, RestsGoto

LEMMA RestsThread ==
  ASSUME TypeInv, NEW i \in Conn, Reader(i) \/ Writer(i) \/ \E r \in Requests : Handler(r, i)
  PROVE  Rests
<1>1. CASE ReaderRequest(i)
  <2>1. /\ pc["reader"][i] = "recv"
        /\ pc' = [pc EXCEPT !["reader"][i] = "check", ![Head(wire[i]).request][i] = "run"]
    BY <1>1 DEF ReaderRequest, Receives
  <2> QED BY <2>1 DEF Rests, TypeInv, TypeOK, Roles
<1>2. ASSUME NEW r \in Roles, Close(r, i) PROVE Rests
  BY <1>2, RestsClose
<1>3. CASE \/ ThreadCheck("reader", i, "recv") \/ ReaderClose(i) \/ ReaderPing(i)
           \/ ReaderBeat(i) \/ ReaderPong(i) \/ ReaderReply(i) \/ ReaderPanics(i)
  <2>1. \E step : Goto("reader", i, step)
                    /\ pc["reader"][i] \notin {"none", "ended", "panicked"}
    BY <1>3 DEF ThreadCheck, ReaderClose, ReaderPing, ReaderBeat, ReaderPong, ReaderReply,
                ReaderPanics, Receives, ClientSend
  <2> QED BY <2>1, RestsGoto DEF Roles
<1>4. CASE \/ ThreadCheck("writer", i, "fetch") \/ WriterIdle(i) \/ WriterSend(i) \/ WriterBeat(i)
  <2>1. \E step : Goto("writer", i, step)
                    /\ pc["writer"][i] \notin {"none", "ended", "panicked"}
    BY <1>4 DEF ThreadCheck, WriterIdle, WriterSend, WriterBeat, ClientSend
  <2> QED BY <2>1, RestsGoto DEF Roles
<1>5. ASSUME NEW r \in Requests, HandlerReply(r, i) PROVE Rests
  <2>1. \E step : Goto(r, i, step) /\ pc[r][i] \notin {"none", "ended", "panicked"}
    BY <1>5 DEF HandlerReply, ClientSend
  <2> QED BY <2>1, RestsGoto DEF Roles
<1> QED BY <1>1, <1>2, <1>3, <1>4, <1>5 DEF Reader, Writer, Handler, Roles

(* Steps that leave the worker, the receivers and the callers as they are.      *)
LEMMA HeldKept ==
  ASSUME CallsInv, UNCHANGED <<caller, answers, worker, lastId, receivers>>, Rests,
         \A t \in Tags :
           /\ FlightAt(t)' /\ (Flying(t)' => Flying(t))
           /\ SendersDropped(Target(t)) => (Arrived(t)' => Arrived(t))
  PROVE  CallsInv'
<1>1. \A i \in Conn : SendersDropped(i) => SendersDropped(i)'
  BY DEF Rests, SendersDropped, Dead
<1>2. HeldInv'
  BY <1>1 DEF CallsInv, HeldInv, Rests, Target
<1> QED BY <1>1, <1>2, TagsTyped, CallsKept DEF Target

(* The receivers go when nobody waits: nothing for them is on its way, or the    *)
(* read thread has ended.                                                   *)
LEMMA CallsReceivers ==
  ASSUME TypeInv, ReportInv, LeavesInv, CallsInv,
         NEW r \in Roles, NEW i \in Conn, CloseReceivers(r, i)
  PROVE  CallsInv'
<1>1. /\ pc[r][i] = "receivers" /\ receivers' = receivers \ {i}
      /\ \A k \in Callers : caller[k].at = "idle"
      /\ replies' = [replies EXCEPT ![i] = [m \in Methods |-> <<>>]]
      /\ UNCHANGED <<caller, answers, worker, lastId, ctl, queue, asked, wire>>
  BY DEF CloseReceivers, Unlocked, ReadLocked, control, accepts, link, calls
<1>2. Places /\ \A x : ~In(<<>>, x) /\ Once(<<>>, x)
  BY PlacesTyped DEF In, Once
<1>3. \A t \in Tags : FewerAt(t)
  <2> TAKE t \in Tags
  <2>1. \A j \in Conn, n \in Methods : Fewer(replies[j][n], replies'[j][n], t)
    BY <1>1, <1>2 DEF Fewer, Places
  <2> QED BY <1>1, <2>1, FewerSame DEF FewerAt
<1>4. \A t \in Tags : FlightAt(t)' /\ (Flying(t)' => Flying(t)) /\ (Arrived(t)' => Arrived(t))
  BY <1>3, FlightFewer, TagsTyped
  DEF CallsInv, FlightInv, FewerAt, Fewer, Arrived, Replied, Target, Method
<1>5. Rests
  BY RestsClose DEF Close
<1>6. \A j \in Conn : SendersDropped(j) => SendersDropped(j)'
  BY <1>1, <1>5 DEF Rests, SendersDropped, Dead
<1>7. ~SendersDropped(i) => \A t \in Tags : Flying(t) => Target(t) # i
  <2>1. PICK f \in [Tags -> Callers] : Awaits(f)
    BY DEF CallsInv, AwaitInv
  <2> QED BY <1>1, <2>1 DEF Awaits
<1>8. worker \in {"announce", "clients", "beat"} => lastId # i
  <2>1. worker \in {"announce", "clients"} => clients[lastId] = "absent" \/ lastId \notin Conn
    <3>1. ~(lastId < lastId)
      BY ServerAssumption DEF TypeInv, TypeOK
    <3> QED BY <3>1 DEF ReportInv, Announced
  <2>2. worker \in {"announce", "clients"} => lastId # i
    BY <1>1, <2>1 DEF ReportInv
  <2>3. worker = "beat" => lastId # i
    BY <1>1 DEF LeavesInv, LeftInv
  <2> QED BY <2>2, <2>3
<1>9. HeldInv'
  BY <1>1, <1>4, <1>5, <1>6, <1>7, <1>8 DEF CallsInv, HeldInv, Rests, Target
<1> QED BY <1>1, <1>4, <1>6, <1>9, TagsTyped, CallsKept

(* Steps that touch no call.                                                *)
LEMMA CallsUntouched ==
  ASSUME CallsInv, UNCHANGED <<ctl, queue, asked, wire, replies>>
  PROVE  \A t \in Tags : /\ FlightAt(t)' /\ (Flying(t)' => Flying(t))
                         /\ Arrived(t)' => Arrived(t)
<1> TAKE t \in Tags
<1>1. FewerAt(t)
  BY FewerSame DEF FewerAt
<1> QED BY <1>1, FlightFewer DEF CallsInv, FlightInv, Arrived, Replied, Target, Method

(* The steps of a connection's threads.                                      *)
LEMMA CallsThread ==
  ASSUME TypeInv, ReportInv, LeavesInv, CallsInv, NEW i \in Conn,
         Reader(i) \/ Writer(i) \/ \E r \in Requests : Handler(r, i)
  PROVE  CallsInv'
<1> USE DEF control, accepts, tables, channels, link, calls
<1>1. Rests
  BY RestsThread
<1>2. ASSUME UNCHANGED <<caller, answers, worker, lastId, receivers,
                         ctl, queue, asked, wire, replies>>
      PROVE  CallsInv'
  BY <1>1, <1>2, CallsUntouched, HeldKept
<1>3. ASSUME NEW r \in Roles, Close(r, i) PROVE CallsInv'
  <2>1. CASE CloseReceivers(r, i)
    BY <2>1, CallsReceivers
  <2>2. CASE ~CloseReceivers(r, i)
    BY <1>2, <1>3, <2>2 DEF Close, CloseClients, CloseReport, CloseHeartbeats, CloseSenders,
                            LockPanics, ThreadPanics
  <2> QED BY <2>1, <2>2
<1>4. CASE \/ ThreadCheck("reader", i, "recv") \/ ReaderBeat(i) \/ ReaderPong(i)
           \/ ThreadCheck("writer", i, "fetch") \/ WriterIdle(i) \/ WriterBeat(i)
           \/ \E r \in Requests : HandlerReply(r, i)
  BY <1>2, <1>4 DEF ThreadCheck, ReaderBeat, ReaderPong, WriterIdle, WriterBeat, HandlerReply
<1>5. ASSUME NEW k, Receives(i, k),
             UNCHANGED <<caller, answers, worker, lastId, receivers, ctl, queue>>,
             \/ UNCHANGED replies
             \/ /\ k = "reply"
                /\ replies' = [replies EXCEPT ![i][Method(Head(wire[i]).tag)] =
                                 Append(@, Head(wire[i]).tag)]
      PROVE  CallsInv'
  <2>1. \A t \in Tags : FlightAt(t)' /\ (Flying(t)' => Flying(t))
    BY <1>5, FlightReader DEF CallsInv
  <2>2. \A t \in Tags : SendersDropped(Target(t)) => (Arrived(t)' => Arrived(t))
    <3>1. ~SendersDropped(i)
      BY <1>5 DEF Receives, SendersDropped, Dead
    <3>2. \A j \in Conn \ {i} : replies'[j] = replies[j]
      BY <1>5, PlacesTyped DEF Places
    <3> QED BY <3>1, <3>2, TagsTyped DEF Arrived, Replied, Target, Method
  <2> QED BY <1>1, <1>5, <2>1, <2>2, HeldKept
<1>6. CASE ReaderClose(i) \/ ReaderPing(i) \/ ReaderPanics(i) \/ ReaderRequest(i)
  <2>1. /\ \E k : Receives(i, k)
        /\ UNCHANGED <<caller, answers, worker, lastId, receivers, ctl, queue, replies>>
    BY <1>6 DEF ReaderClose, ReaderPing, ReaderPanics, ReaderRequest
  <2> QED BY <1>5, <2>1
<1>7. CASE ReaderReply(i)
  <2>1. /\ Receives(i, "reply")
        /\ UNCHANGED <<caller, answers, worker, lastId, receivers, ctl, queue>>
        /\ \/ UNCHANGED replies
           \/ replies' = [replies EXCEPT ![i][Method(Head(wire[i]).tag)] =
                            Append(@, Head(wire[i]).tag)]
    BY <1>7 DEF ReaderReply, Method
  <2> QED BY <1>5, <2>1
<1>8. CASE WriterSend(i)
  <2>1. \A t \in Tags : FlightAt(t)' /\ (Flying(t)' => Flying(t))
    BY <1>8, FlightWriter DEF CallsInv
  <2>2. UNCHANGED <<caller, answers, worker, lastId, receivers, replies>>
    BY <1>8 DEF WriterSend
  <2>3. \A t \in Tags : Arrived(t)' => Arrived(t)
    BY <2>2 DEF Arrived, Replied, Target, Method
  <2> QED BY <1>1, <2>1, <2>2, <2>3, HeldKept
<1> QED BY <1>3, <1>4, <1>6, <1>7, <1>8 DEF Reader, Writer, Handler, Roles

(* The worker makes a client's receivers before it starts the read thread.      *)
LEMMA CallsWorker ==
  ASSUME TypeInv, LeavesInv, CallsInv, WorkerStep
  PROVE  CallsInv'
<1> USE DEF control, accepts, tables, channels, link, calls
<1>1. UNCHANGED <<caller, answers, ctl, queue, asked, wire, replies>>
  BY DEF WorkerStep, WorkerCheck, WorkerReject, WorkerAccept, WorkerReceivers, WorkerReport,
         WorkerClients, WorkerSpawn, WorkerPanics
<1>2. receivers \subseteq receivers'
  BY DEF WorkerStep, WorkerCheck, WorkerReject, WorkerAccept, WorkerReceivers, WorkerReport,
         WorkerClients, WorkerSpawn, WorkerPanics
<1>3. worker # "panicked"
  BY DEF WorkerStep, WorkerCheck, WorkerReject, WorkerAccept, WorkerReceivers, WorkerReport,
         WorkerClients, WorkerSpawn, WorkerPanics, Worker
<1>4. \A j \in Conn : \/ pc'["reader"][j] = pc["reader"][j]
                      \/ j = lastId /\ worker = "beat" /\ pc["reader"][j] = "none"
  <2>1. CASE WorkerSpawn
    BY <2>1 DEF WorkerSpawn, Worker, TypeInv, TypeOK, Roles, LeavesInv, LeftInv
  <2>2. CASE ~WorkerSpawn
    <3>1. pc' = pc
      BY <2>2 DEF WorkerStep, WorkerCheck, WorkerReject, WorkerAccept, WorkerReceivers,
                  WorkerReport, WorkerClients, WorkerPanics
    <3> QED BY <3>1
  <2> QED BY <2>1, <2>2
<1>5. worker' \in {"announce", "clients", "beat"} => lastId' \in receivers'
  BY DEF WorkerStep, WorkerCheck, WorkerReject, WorkerAccept, WorkerReceivers, WorkerReport,
         WorkerClients, WorkerSpawn, WorkerPanics, Worker, CallsInv, HeldInv
<1>6. \A j \in Conn : SendersDropped(j) => SendersDropped(j)'
  BY <1>3, <1>4 DEF SendersDropped, Dead
<1>7. \A t \in Tags : FlightAt(t)' /\ (Flying(t)' => Flying(t)) /\ (Arrived(t)' => Arrived(t))
  BY <1>1, CallsUntouched
<1>8. HeldInv'
  <2>1. \A k \in Callers : caller'[k].at # "idle" => TargetOf[k] \in receivers'
    BY <1>1, <1>2 DEF CallsInv, HeldInv
  <2>2. ASSUME NEW j \in Conn \ receivers'
        PROVE  \/ pc'["reader"][j] = "none" \/ SendersDropped(j)'
               \/ \A t \in Tags : Flying(t)' => Target(t) # j
    <3>1. j \notin receivers /\ ~(j = lastId /\ worker = "beat")
      BY <1>2 DEF CallsInv, HeldInv
    <3> QED BY <1>4, <1>6, <1>7, <3>1 DEF CallsInv, HeldInv
  <2> QED BY <1>5, <2>1, <2>2 DEF HeldInv, Target
<1> QED BY <1>1, <1>6, <1>7, <1>8, TagsTyped, CallsKept

LEMMA CallsStep ==
  ASSUME TypeInv, ReportInv, LeavesInv, CallsInv, [Next]_vars
  PROVE  CallsInv'
<1> USE DEF control, accepts, tables, channels, link, calls, reports
<1>1. ASSUME NEW i \in Conn, Reader(i) \/ Writer(i) \/ \E r \in Requests : Handler(r, i)
      PROVE  CallsInv'
  BY <1>1, CallsThread
<1>2. CASE WorkerStep
  BY <1>2, CallsWorker
<1>3. ASSUME NEW k \in Callers, CallBegin(k) \/ CallStep(k) PROVE CallsInv'
  BY <1>3, CallsBegin, CallsSend, CallsReturn, CallsFail DEF CallStep
<1>4. ASSUME UNCHANGED <<caller, answers, worker, lastId, receivers, replies, pc>>,
             \A t \in Tags : FlightAt(t)' /\ (Flying(t)' => Flying(t))
      PROVE  CallsInv'
  <2>1. Rests /\ \A t \in Tags : Arrived(t)' => Arrived(t)
    BY <1>4 DEF Rests, Arrived, Replied, Target, Method
  <2> QED BY <1>4, <2>1, HeldKept
<1>5. CASE Controller \/ RequestShutdown
  <2>1. UNCHANGED <<caller, answers, worker, lastId, receivers, replies, pc>>
    BY <1>5 DEF Controller, ControllerStop, ControllerForward, ControllerShutdown, RequestShutdown
  <2> QED BY <1>4, <1>5, <2>1, FlightController DEF CallsInv
<1>6. ASSUME NEW i \in Conn, Peer(i) PROVE CallsInv'
  <2>1. UNCHANGED <<caller, answers, worker, lastId, receivers, replies, pc>>
    BY <1>6 DEF Peer
  <2> QED BY <1>4, <1>6, <2>1, FlightPeer DEF CallsInv
<1>7. CASE UNCHANGED vars \/ \E i \in Conn : HeartbeatLate(i)
  <2>1. UNCHANGED <<caller, answers, worker, lastId, receivers, ctl, queue, asked, wire,
                    replies, pc>>
    BY <1>7 DEF vars, HeartbeatLate
  <2> QED BY <1>4, <2>1, CallsUntouched
<1> QED BY <1>1, <1>2, <1>3, <1>5, <1>6, <1>7 DEF Next

ServerInv == TypeInv /\ ReportInv /\ LeavesInv /\ CallsInv

LEMMA ServerInvariant == Spec => []ServerInv
<1>1. Init => ServerInv
  BY TypeInit, ReportInit, LeavesInit, CallsInit DEF ServerInv
<1>2. ServerInv /\ [Next]_vars => ServerInv'
  BY TypeStep, ReportStep, LeavesStep, CallsStep DEF ServerInv
<1> QED BY <1>1, <1>2, PTL DEF Spec

(* A call returns the reply to what it has sent, or one that a caller of the same *)
(* method of the same client was to get (server.rs:326-338).                   *)
THEOREM OwnReplyCorrect == Spec => []OwnReply
<1>1. ServerInv => OwnReply
  BY DEF ServerInv, CallsInv
<1> QED BY <1>1, ServerInvariant, PTL

(* However callers, closing threads and the client's answers interleave, the read *)
(* thread never finds the receivers of a reply gone (server.rs:236).            *)
THEOREM ReceiversCorrect == Spec => []ReplyHasReceiver
<1>1. ServerInv => ReplyHasReceiver
  <2> SUFFICES ASSUME ServerInv, NEW i \in Conn, pc["reader"][i] = "recv", wire[i] # <<>>,
                      Head(wire[i]).kind = "reply"
               PROVE  i \in receivers
    BY DEF ReplyHasReceiver
  <2>1. wire[i] \in Seq(Frames)
    BY PlacesTyped DEF ServerInv, Places
  <2>2. PICK t \in Tags : Head(wire[i]) = Reply(t)
    <3>1. Head(wire[i]) \in Frames
      BY <2>1
    <3> QED BY <3>1 DEF Frames, Frame, Request
  <2>3. Replying(i, t)
    BY <2>1, <2>2, InTail DEF Replying
  <2>4. i = Target(t) /\ Flying(t)
    BY <2>3 DEF ServerInv, CallsInv, FlightInv, FlightAt, Placed, Flying
  <2>5. ~SendersDropped(i)
    BY DEF SendersDropped, Dead
  <2> QED BY <2>4, <2>5 DEF ServerInv, CallsInv, HeldInv
<1> QED BY <1>1, ServerInvariant, PTL
=============================================================================
