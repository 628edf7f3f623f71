-------------------------- MODULE P2PClient_proofs --------------------------
(***************************************************************************)
(* Theorems about the client of P2PClient.tla. With any number of            *)
(* connections one after another, of calls and of requests, and whichever    *)
(* threads race in close_server, no thread of the first connection gives up  *)
(* before its callback has run. And on the first connection a pong is only    *)
(* old for as long as it is outstanding, or because the two locks of the      *)
(* heartbeat have undone it.                                                 *)
(***************************************************************************)
EXTENDS P2PClientProperties, TLAPS

Steps == {"none", "start", "startPing", "startPong", "check", "look", "fetch", "alive",
          "pinging", "beat", "beatPing", "sleep", "recv", "pong", "beatPong", "run",
          "close", "report", "clear", "ended"}
Links == {"none", "up", "closing", "quiet", "gone"}
Told == 1 \in Conn /\ reports[1] > 0

(* A thread only runs once a callback is set, and SERVER is only cleared after  *)
(* it ran: by the thread that cleared it, or by the one that had cleared it    *)
(* before. Another connection is only made after the first callback.          *)
Types ==
  /\ pc \in [Roles -> [Conn -> [at : Steps, then : Steps]]]
  /\ link \in [Conn -> Links]
  /\ reports \in [Conn -> Nat]
  /\ callbackOf \in 0..NumConns
Started ==
  /\ callbackOf = 0 => \A r \in Roles, i \in Conn : pc[r][i].at = "none"
  /\ callbackOf # 0 => callbackOf \in Conn /\ link[callbackOf] # "none"
First == \A i \in Conn : link[i] # "none" => i = 1 \/ Told
ClearedAfter ==
  /\ server = 0 => Told \/ \A i \in Conn : link[i] = "none"
  /\ \A r \in Roles, i \in Conn : pc[r][i].at = "clear" => Told
EndedAfter == \A r \in {"reader", "writer"}, i \in Conn : Dead(r, i) => Told
TellInv == Types /\ Started /\ First /\ ClearedAfter /\ EndedAfter

(* No step but Connect makes a connection, and none takes one back.           *)
LinkKept ==
  /\ link' \in [Conn -> Links]
  /\ \A i \in Conn : link[i] = "none" <=> link'[i] = "none"

LEMMA Typed ==
  ASSUME NEW f \in [Roles -> [Conn -> [at : Steps, then : Steps]]],
         NEW r, NEW i \in Conn, NEW step \in Steps
  PROVE  /\ [f EXCEPT ![r][i].at = step] \in [Roles -> [Conn -> [at : Steps, then : Steps]]]
         /\ \A s \in Roles, j \in Conn :
              [f EXCEPT ![r][i].at = step][s][j].at \in {f[s][j].at, step}
<1>1. CASE r \in Roles
  BY <1>1
<1>2. CASE r \notin Roles
  <2>1. [f EXCEPT ![r][i].at = step] = f
    BY <1>2
  <2> QED BY <2>1
<1> QED BY <1>1, <1>2

(* A thread goes on, and clears or ends only when the application was told.   *)
LEMMA Moves ==
  ASSUME TellInv, UNCHANGED <<statics, reports>>, LinkKept,
         pc' \in [Roles -> [Conn -> [at : Steps, then : Steps]]],
         NEW r \in Roles, NEW i \in Conn, pc[r][i].at # "none",
         \A s \in Roles, j \in Conn :
           \/ pc'[s][j].at = pc[s][j].at
           \/ pc'[s][j].at \notin {"clear", "ended"}
           \/ pc'[s][j].at = "ended" /\ s \notin {"reader", "writer"}
           \/ Told
  PROVE  TellInv'
<1>1. callbackOf # 0 /\ callbackOf' = callbackOf /\ server' = server
  BY DEF TellInv, Started, statics
<1>2. Told' <=> Told
  BY DEF Told
<1>3. Types'
  BY <1>1 DEF TellInv, Types, LinkKept
<1>4. Started' /\ First'
  BY <1>1, <1>2, <1>3, ClientAssumption DEF TellInv, Started, First, LinkKept, Types, Conn
<1>5. ClearedAfter'
  <2>1. server' = 0 => Told' \/ \A j \in Conn : link'[j] = "none"
    BY <1>1, <1>2 DEF TellInv, Started, ClearedAfter
  <2>2. \A s \in Roles, j \in Conn : pc'[s][j].at = "clear" => Told'
    BY <1>2 DEF TellInv, ClearedAfter
  <2> QED BY <2>1, <2>2 DEF ClearedAfter
<1>6. EndedAfter'
  <2>1. \A s \in {"reader", "writer"} : s \in Roles
    BY DEF Roles
  <2> QED BY <1>2, <2>1 DEF TellInv, EndedAfter, Dead
<1> QED BY <1>3, <1>4, <1>5, <1>6 DEF TellInv

LEMMA GotoStep ==
  ASSUME TellInv, NEW r \in Roles, NEW i \in Conn, NEW step \in Steps,
         pc[r][i].at # "none", Goto(r, i, step),
         UNCHANGED <<statics, reports>>, LinkKept,
         step \in {"clear", "ended"} => Told \/ (step = "ended" /\ r \notin {"reader", "writer"})
  PROVE  TellInv'
<1>1. pc' \in [Roles -> [Conn -> [at : Steps, then : Steps]]]
  BY DEF TellInv, Types, Goto
<1>2. \A s \in Roles, j \in Conn :
        IF s = r /\ j = i THEN pc'[s][j].at = step ELSE pc'[s][j].at = pc[s][j].at
  BY DEF TellInv, Types, Goto
<1> QED BY <1>1, <1>2, Moves

LEMMA CloseThenStep ==
  ASSUME TellInv, NEW r \in Roles, NEW i \in Conn, NEW next \in Steps,
         pc[r][i].at # "none", CloseThen(r, i, next),
         UNCHANGED <<statics, reports>>, LinkKept
  PROVE  TellInv'
<1>1. pc' \in [Roles -> [Conn -> [at : Steps, then : Steps]]]
  BY DEF TellInv, Types, CloseThen, Steps
<1>2. \A s \in Roles, j \in Conn :
        IF s = r /\ j = i THEN pc'[s][j].at = "close" ELSE pc'[s][j].at = pc[s][j].at
  BY DEF TellInv, Types, CloseThen
<1> QED BY <1>1, <1>2, Moves

LEMMA SendThenStep ==
  ASSUME TellInv, NEW r \in Roles, NEW i \in Conn, NEW next \in Steps, NEW isClose \in BOOLEAN,
         pc[r][i].at # "none", SendThen(r, i, isClose, next),
         UNCHANGED <<statics, reports>>, LinkKept,
         next \in {"clear", "ended"} => next = "ended" /\ r \notin {"reader", "writer"}
  PROVE  TellInv'
<1>1. CloseThen(r, i, next) \/ Goto(r, i, next)
  BY DEF SendThen
<1> QED BY <1>1, CloseThenStep, GotoStep

(* close_server: whoever finds SERVER empty comes after the one who told.     *)
LEMMA CloseStep ==
  ASSUME TellInv, NEW r \in Roles, NEW i \in Conn, Close(r, i)
  PROVE  TellInv'
<1>1. CASE CloseLook(r, i)
  <2>1. IsSome \/ Told
    BY <1>1 DEF CloseLook, IsSome, TellInv, Started, ClearedAfter
  <2>2. LinkKept /\ UNCHANGED <<statics, reports>>
    BY <1>1 DEF CloseLook, net, LinkKept, TellInv, Types
  <2>3. Goto(r, i, "report") \/ (Told /\ Goto(r, i, "clear"))
    BY <1>1, <2>1 DEF CloseLook
  <2> QED BY <1>1, <2>2, <2>3, GotoStep DEF CloseLook, Steps
<1>2. CASE CloseReport(r, i)
  <2>1. callbackOf \in Conn
    BY <1>2, ClientAssumption DEF CloseReport, TellInv, Started, Types, Conn
  <2>2. reports' \in [Conn -> Nat] /\ reports'[callbackOf] > 0
    BY <1>2, <2>1 DEF CloseReport, TellInv, Types
  <2>3. Told'
    <3>1. CASE callbackOf = 1
      BY <2>1, <2>2, <3>1 DEF Told
    <3>2. CASE callbackOf # 1
      <4>1. Told
        BY <2>1, <3>2, ClientAssumption DEF TellInv, Started, First, Conn
      <4> QED BY <1>2, <2>2, <4>1 DEF CloseReport, Told, TellInv, Types
    <3> QED BY <3>1, <3>2
  <2>4. pc' \in [Roles -> [Conn -> [at : Steps, then : Steps]]]
    <3>1. "clear" \in Steps
      BY DEF Steps
    <3>2. pc' = [pc EXCEPT ![r][i].at = "clear"]
      BY <1>2 DEF CloseReport, Goto
    <3>3. pc \in [Roles -> [Conn -> [at : Steps, then : Steps]]]
      BY DEF TellInv, Types
    <3> QED BY <3>1, <3>2, <3>3, Typed
  <2> QED BY <1>2, <2>1, <2>2, <2>3, <2>4
        DEF CloseReport, TellInv, Types, Started, First, ClearedAfter, EndedAfter, statics, net
<1>3. CASE CloseClear(r, i)
  <2>1. Told /\ callbackOf # 0
    BY <1>3 DEF CloseClear, TellInv, ClearedAfter, Started
  <2>2. Told'
    BY <1>3, <2>1 DEF CloseClear, Told
  <2>3. pc' \in [Roles -> [Conn -> [at : Steps, then : Steps]]]
    BY <1>3 DEF CloseClear, Goto, TellInv, Types
  <2> QED BY <1>3, <2>1, <2>2, <2>3
        DEF CloseClear, TellInv, Types, Started, First, ClearedAfter, EndedAfter, net
<1> QED BY <1>1, <1>2, <1>3 DEF Close

LEMMA CheckStep ==
  ASSUME TellInv, NEW r \in Roles, NEW i \in Conn, NEW next \in Steps \ {"clear", "ended"},
         ThreadCheck(r, i, next)
  PROVE  TellInv'
<1>1. Open \/ Told
  BY DEF ThreadCheck, Open, TellInv, Started, ClearedAfter
<1>2. LinkKept /\ UNCHANGED <<statics, reports>>
  BY DEF ThreadCheck, net, LinkKept, TellInv, Types
<1>3. Goto(r, i, next) \/ (Told /\ Goto(r, i, "ended"))
  BY <1>1 DEF ThreadCheck
<1> QED BY <1>2, <1>3, GotoStep DEF ThreadCheck, Steps

(* The steps of the write thread *)
LEMMA WriterStep ==
  ASSUME TellInv, NEW i \in Conn, Writer(i)
  PROVE  TellInv'
<1> DEFINE w == "writer"
<1>1. w \in Roles
  BY DEF Roles
<1>2. (UNCHANGED link) => LinkKept
  BY DEF LinkKept, TellInv, Types
<1>3. CASE WriterStart(i)
  <2>1. UNCHANGED <<statics, reports, link>> /\ pc[w][i].at # "none"
    BY <1>3 DEF WriterStart, BeatRead, BeatPing, BeatPong, net
  <2>2. Goto(w, i, "startPing") \/ Goto(w, i, "startPong") \/ Goto(w, i, "check")
    BY <1>3 DEF WriterStart, BeatRead, BeatPing, BeatPong
  <2> QED BY <1>1, <1>2, <2>1, <2>2, GotoStep DEF Steps
<1>4. CASE ThreadCheck("writer", i, "look")
  BY <1>1, <1>4, CheckStep DEF Steps
<1>5. CASE WriterLook(i) \/ WriterIdle(i)
  <2>1. UNCHANGED <<statics, reports, link>> /\ pc[w][i].at # "none"
    BY <1>5 DEF WriterLook, WriterIdle, BeatRead, net
  <2>2. Goto(w, i, "fetch") \/ Goto(w, i, "alive")
    BY <1>5 DEF WriterLook, WriterIdle, BeatRead
  <2> QED BY <1>1, <1>2, <2>1, <2>2, GotoStep DEF Steps
<1>6. CASE WriterSend(i)
  <2>1. LinkKept
    <3>1. CASE link' = link
      BY <1>2, <3>1
    <3>2. CASE Reaches /\ link' = [link EXCEPT ![server] = "closing"]
      <4>1. CASE server \in Conn
        BY <3>2, <4>1 DEF Reaches, LinkKept, TellInv, Types, Links
      <4>2. CASE server \notin Conn
        BY <1>2, <3>2, <4>2 DEF TellInv, Types
      <4> QED BY <4>1, <4>2
    <3> QED BY <1>6, <3>1, <3>2 DEF WriterSend
  <2>2. UNCHANGED <<statics, reports>> /\ pc[w][i].at # "none"
    BY <1>6 DEF WriterSend
  <2>3. PICK isClose \in BOOLEAN : SendThen(w, i, isClose, "alive")
    BY <1>6 DEF WriterSend
  <2>4. "alive" \in Steps \ {"clear", "ended"}
    BY DEF Steps
  <2> QED BY <1>1, <2>1, <2>2, <2>3, <2>4, SendThenStep
<1>7. CASE WriterAlive(i)
  <2>1. UNCHANGED <<statics, reports, link>> /\ pc[w][i].at # "none"
    BY <1>7 DEF WriterAlive, net
  <2>2. CloseThen(w, i, "pinging") \/ Goto(w, i, "pinging")
    BY <1>7 DEF WriterAlive
  <2> QED BY <1>1, <1>2, <2>1, <2>2, GotoStep, CloseThenStep DEF Steps
<1>8. CASE WriterPing(i)
  <2>1. UNCHANGED <<statics, reports, link>> /\ pc[w][i].at # "none"
    BY <1>8 DEF WriterPing
  <2>2. SendThen(w, i, FALSE, "beat") \/ Goto(w, i, "sleep")
    BY <1>8 DEF WriterPing
  <2>3. "beat" \in Steps \ {"clear", "ended"} /\ "sleep" \in Steps \ {"clear", "ended"}
    BY DEF Steps
  <2> QED BY <1>1, <1>2, <2>1, <2>2, <2>3, GotoStep, SendThenStep
<1>9. CASE WriterBeat(i) \/ WriterSleep(i)
  <2>1. UNCHANGED <<statics, reports, link>> /\ pc[w][i].at # "none"
    BY <1>9 DEF WriterBeat, WriterSleep, BeatRead, BeatPing, net
  <2>2. Goto(w, i, "beatPing") \/ Goto(w, i, "sleep") \/ Goto(w, i, "check")
    BY <1>9 DEF WriterBeat, WriterSleep, BeatRead, BeatPing
  <2> QED BY <1>1, <1>2, <2>1, <2>2, GotoStep DEF Steps
<1>10. CASE Close("writer", i)
  BY <1>1, <1>10, CloseStep
<1> QED BY <1>3, <1>4, <1>5, <1>6, <1>7, <1>8, <1>9, <1>10 DEF Writer

(* The steps of the read thread, which starts the thread of a request           *)
LEMMA ReaderStep ==
  ASSUME TellInv, NEW i \in Conn, Reader(i)
  PROVE  TellInv'
<1> DEFINE w == "reader"
<1>1. w \in Roles
  BY DEF Roles
<1>2. (UNCHANGED link) => LinkKept
  BY DEF LinkKept, TellInv, Types
<1>3. CASE ThreadCheck("reader", i, "recv")
  BY <1>1, <1>3, CheckStep DEF Steps
<1>4. CASE ReaderError(i) \/ ReaderClose(i)
  <2>1. UNCHANGED <<statics, reports, link>> /\ pc[w][i].at # "none"
    BY <1>4 DEF ReaderError, ReaderClose, Receives, net
  <2>2. CloseThen(w, i, "check")
    BY <1>4 DEF ReaderError, ReaderClose
  <2> QED BY <1>1, <1>2, <2>1, <2>2, CloseThenStep DEF Steps
<1>5. CASE ReaderPong(i) \/ ReaderReply(i)
  <2>1. UNCHANGED <<statics, reports, link>> /\ pc[w][i].at # "none"
    BY <1>5 DEF ReaderPong, ReaderReply, Receives, BeatRead, BeatPong, net
  <2>2. Goto(w, i, "pong") \/ Goto(w, i, "beatPong") \/ Goto(w, i, "check")
    BY <1>5 DEF ReaderPong, ReaderReply, BeatRead, BeatPong
  <2> QED BY <1>1, <1>2, <2>1, <2>2, GotoStep DEF Steps
<1>6. CASE ReaderRequest(i)
  <2>1. UNCHANGED <<statics, reports, link>> /\ pc[w][i].at # "none"
    BY <1>6 DEF ReaderRequest, Receives
  <2>2. PICK q : pc' = [pc EXCEPT ![q][i].at = "run", !["reader"][i].at = "check"]
    BY <1>6 DEF ReaderRequest
  <2>3. "run" \in Steps /\ "check" \in Steps
    BY DEF Steps
  <2> DEFINE begun == [pc EXCEPT ![q][i].at = "run"]
  <2>6. pc' = [begun EXCEPT !["reader"][i].at = "check"]
    BY <2>2
  <2>7. /\ begun \in [Roles -> [Conn -> [at : Steps, then : Steps]]]
        /\ \A s \in Roles, j \in Conn : begun[s][j].at \in {pc[s][j].at, "run"}
    BY <2>3, Typed DEF TellInv, Types
  <2> HIDE DEF begun
  <2>4. pc' \in [Roles -> [Conn -> [at : Steps, then : Steps]]]
    BY <2>3, <2>6, <2>7, Typed
  <2>5. \A s \in Roles, j \in Conn :
          pc'[s][j].at = pc[s][j].at \/ pc'[s][j].at \in {"run", "check"}
    <3>1. \A s \in Roles, j \in Conn : pc'[s][j].at \in {begun[s][j].at, "check"}
      BY <2>3, <2>6, <2>7, Typed
    <3> QED BY <2>7, <3>1
  <2> QED BY <1>1, <1>2, <2>1, <2>4, <2>5, Moves
<1>7. CASE Close("reader", i)
  BY <1>1, <1>7, CloseStep
<1> QED BY <1>3, <1>4, <1>5, <1>6, <1>7 DEF Reader

LEMMA HandlerStep ==
  ASSUME TellInv, NEW r \in Requests, NEW i \in Conn, Handler(r, i)
  PROVE  TellInv'
<1>1. r \in Roles /\ r \notin {"reader", "writer"} /\ "ended" \in Steps
  BY ClientAssumption DEF Roles, Steps
<1>2. CASE Close(r, i)
  BY <1>1, <1>2, CloseStep
<1>3. CASE ~Close(r, i)
  <2>1. /\ pc[r][i].at = "run" /\ SendThen(r, i, FALSE, "ended")
        /\ UNCHANGED <<statics, reports>> /\ link' = link
    BY <1>3 DEF Handler, net
  <2>2. LinkKept
    BY <2>1 DEF LinkKept, TellInv, Types
  <2> QED BY <1>1, <2>1, <2>2, SendThenStep
<1> QED BY <1>2, <1>3

(* Everything else leaves the threads where they are.                       *)
LEMMA RestStep ==
  ASSUME TellInv, LinkKept, UNCHANGED <<statics, pc, reports>>
  PROVE  TellInv'
<1>1. Told' <=> Told
  BY DEF Told
<1>2. Types' /\ Started' /\ First'
  BY <1>1, ClientAssumption DEF TellInv, LinkKept, Types, Started, First, Conn, statics
<1>3. ClearedAfter'
  <2>1. server' = 0 => Told' \/ \A i \in Conn : link'[i] = "none"
    <3>1. SUFFICES ASSUME server = 0, ~Told PROVE \A i \in Conn : link'[i] = "none"
      BY <1>1 DEF statics
    <3> QED BY <3>1 DEF TellInv, ClearedAfter, LinkKept
  <2> QED BY <1>1, <2>1 DEF TellInv, ClearedAfter
<1>4. EndedAfter'
  BY <1>1 DEF TellInv, EndedAfter, Dead
<1> QED BY <1>2, <1>3, <1>4 DEF TellInv

LEMMA ServerStep == ASSUME TellInv, NEW i \in Conn, Server(i) PROVE TellInv'
<1>1. UNCHANGED <<statics, pc, reports>>
  BY DEF Server, Others
<1>2. LinkKept
  <2>1. CASE UNCHANGED link
    BY <2>1 DEF LinkKept, TellInv, Types
  <2>2. CASE /\ link' = [link EXCEPT ![i] = "quiet"] \/ link' = [link EXCEPT ![i] = "gone"]
             /\ link[i] # "none"
    BY <2>2 DEF LinkKept, TellInv, Types, Links
  <2> QED BY <2>1, <2>2
        DEF Server, ServerPong, ServerAnswer, ServerCloses, ServerLost, ServerRequest, Sends
<1> QED BY <1>1, <1>2, RestStep

LEMMA ConnectStep ==
  ASSUME TellInv, NEW i \in Conn, Connect(i) \/ ConnectSpawn(i)
  PROVE  TellInv'
<1>1. i # 0 /\ i \in 0..NumConns
  BY ClientAssumption DEF Conn
<1>2. CASE Connect(i)
  <2>1. /\ link' = [link EXCEPT ![i] = "up"] /\ link' \in [Conn -> Links]
        /\ server' = i /\ UNCHANGED <<callbackOf, pc, reports>>
    BY <1>2 DEF Connect, TellInv, Types, Links
  <2>2. i = 1 \/ Told
    <3>1. i # 1 => 1 \in Conn /\ 1 \in 1..(i - 1)
      BY ClientAssumption DEF Conn
    <3> QED BY <1>2, <3>1 DEF Connect, Told
  <2>3. Told' <=> Told
    BY <2>1 DEF Told
  <2>4. Types' /\ Started'
    BY <2>1, ClientAssumption DEF TellInv, Types, Started, Conn
  <2>5. First' /\ ClearedAfter'
    BY <1>1, <2>1, <2>2, <2>3, <2>4 DEF TellInv, Types, First, ClearedAfter
  <2>6. EndedAfter'
    BY <2>1, <2>3 DEF TellInv, EndedAfter, Dead
  <2> QED BY <2>4, <2>5, <2>6 DEF TellInv
<1>3. CASE ConnectSpawn(i)
  <2>1. "start" \in Steps /\ "check" \in Steps
    BY DEF Steps
  <2> DEFINE begun == [pc EXCEPT !["writer"][i].at = "start"]
  <2>7. pc' = [begun EXCEPT !["reader"][i].at = "check"]
    BY <1>3 DEF ConnectSpawn
  <2>8. /\ begun \in [Roles -> [Conn -> [at : Steps, then : Steps]]]
        /\ \A s \in Roles, j \in Conn : begun[s][j].at \in {pc[s][j].at, "start"}
    BY <2>1, Typed DEF TellInv, Types
  <2> HIDE DEF begun
  <2>2. pc' \in [Roles -> [Conn -> [at : Steps, then : Steps]]]
    BY <2>1, <2>7, <2>8, Typed
  <2>3. \A s \in Roles, j \in Conn :
          pc'[s][j].at = pc[s][j].at \/ pc'[s][j].at \in {"start", "check"}
    <3>1. \A s \in Roles, j \in Conn : pc'[s][j].at \in {begun[s][j].at, "check"}
      BY <2>1, <2>7, <2>8, Typed
    <3> QED BY <2>8, <3>1
  <2>4. UNCHANGED <<server, link, reports>> /\ callbackOf' = i /\ link[i] # "none"
    BY <1>3 DEF ConnectSpawn, net
  <2>5. Types' /\ Started' /\ First' /\ ClearedAfter'
    BY <1>1, <2>2, <2>3, <2>4 DEF TellInv, Types, Started, First, ClearedAfter, Told
  <2>6. EndedAfter'
    BY <2>3, <2>4 DEF TellInv, EndedAfter, Told, Dead, Roles
  <2> QED BY <2>5, <2>6 DEF TellInv
<1> QED BY <1>2, <1>3

LEMMA TellInvCorrect == Spec => []TellInv
<1>1. Init => TellInv
  BY ClientAssumption DEF Init, TellInv, Types, Started, First, ClearedAfter, EndedAfter, Dead, Steps,
     Links, Conn, Roles
<1>2. TellInv /\ [Next]_vars => TellInv'
  <2> SUFFICES ASSUME TellInv, [Next]_vars PROVE TellInv'
    OBVIOUS
  <2>1. (UNCHANGED link) => LinkKept
    BY DEF LinkKept, TellInv, Types
  <2>2. ASSUME NEW i \in Conn, Connect(i) \/ ConnectSpawn(i) PROVE TellInv'
    BY <2>2, ConnectStep
  <2>3. ASSUME NEW i \in Conn, Writer(i) PROVE TellInv'
    BY <2>3, WriterStep
  <2>4. ASSUME NEW i \in Conn, Reader(i) PROVE TellInv'
    BY <2>4, ReaderStep
  <2>5. ASSUME NEW i \in Conn, Server(i) PROVE TellInv'
    BY <2>5, ServerStep
  <2>6. ASSUME NEW i \in Conn, CallSend(i) \/ CallStep(i) \/ RequestShutdown(i) PROVE TellInv'
    <3>1. UNCHANGED <<statics, pc, reports, link>>
      BY <2>6 DEF CallSend, CallStep, CallReturn, CallFails, RequestShutdown, net
    <3> QED BY <2>1, <3>1, RestStep
  <2>7. ASSUME NEW r \in Requests, NEW i \in Conn, Handler(r, i) PROVE TellInv'
    BY <2>7, HandlerStep
  <2>8. CASE UNCHANGED vars
    BY <2>1, <2>8, RestStep DEF vars, net
  <2> QED BY <2>2, <2>3, <2>4, <2>5, <2>6, <2>7, <2>8 DEF Next, Step
<1> QED BY <1>1, <1>2, PTL DEF Spec

(* However many connections follow, the threads of the first do not stop         *)
(* before its callback has run, whichever of them clears SERVER and whichever    *)
(* finds it cleared (close_server, client.rs:41-46).                         *)
THEOREM ToldCorrect == Spec => []ToldWhenClosed
<1>1. TellInv => ToldWhenClosed
  BY DEF TellInv, EndedAfter, ToldWhenClosed, Told
<1> QED BY <1>1, TellInvCorrect, PTL

-----------------------------------------------------------------------------
(* The heartbeat of a client that connects once.                            *)

WriterAt == pc["writer"][1].at
ReaderAt == pc["reader"][1].at
WriterTimes == times["writer"][1]
ReaderTimes == times["reader"][1]

(* How often a ping goes out, in sleeps of the write thread.                  *)
Period == PingAfter + 1
Undone == lost * Period

(* No pong is outstanding: the server owes none, none is in a frame, and the    *)
(* read thread has none.                                                    *)
Clear(s) == \A n \in 1..Len(s) : s[n] # Frame("pong")
NoneComes == 1 \notin pinged /\ Clear(wire[1])
HasPong == ReaderAt \in {"pong", "beatPong"}
NoPong == NoneComes /\ ~ HasPong

PongAges == 0..(PongAfter + 1)
Beat == [ping : 0..(PingAfter + 1), pong : PongAges]
BeatTypes ==
  /\ beat \in Beat /\ times \in [Roles -> [Conn -> Beat]]
  /\ lost \in Nat /\ waited \in PongAges

Callers ==
  /\ caller \in [Conn -> [at : {"absent", "idle", "waiting"}, n : Nat]]
  /\ DOMAIN wire = Conn
  /\ WriterAt # "none" \/ ReaderAt # "none" => caller[1].at # "absent"

(* Frames of a server that does not go.                                      *)
Ordinary(s) == \A n \in 1..Len(s) :
  /\ s[n].kind # "close"
  /\ s[n].kind = "request" => s[n].request \in Requests
  /\ s[n].kind = "pong" => s[n] = Frame("pong")

(* As long as the server is there, nothing but the write thread closes.       *)
Threads ==
  /\ \E S : wire[1] \in Seq(S)
  /\ Ordinary(wire[1])
  /\ server \in {0, 1}
  /\ \A r \in Requests : pc[r][1].at \in {"none", "run", "ended"}
  /\ ReaderAt \in {"none", "check", "recv", "pong", "beatPong", "ended"}
  /\ ReaderAt = "ended" => server = 0

(* While the read thread has a pong, the sleeps since it came are waited for.   *)
Held == IF HasPong THEN ReaderTimes.pong <= waited ELSE ReaderTimes = Now

(* A pong is no older than the pongs that were undone and the waiting explain,  *)
(* and the last ping; or, while a pong is outstanding, a period of pings.       *)
Explained(b) == b.pong <= Undone + waited + b.ping
Bounded(b) == b.pong <= Undone + waited + Period

(* The pong of a ping just sent comes without a sleep in between.             *)
Fresh == NoneComes /\ HasPong => ReaderTimes.pong = 0

OnTime ==
  \/ /\ WriterAt \in {"none", "start", "startPing", "startPong"}
     /\ NoPong /\ beat = Now /\ lost = 0 /\ waited = 0 /\ WriterTimes = Now
  \/ /\ WriterAt \in {"check", "look"}
     /\ NoPong => Explained(beat)
  \/ /\ WriterAt \in {"fetch", "alive", "pinging"}
     /\ NoPong => Explained(beat)
     /\ beat = WriterTimes \/ beat.pong <= waited
  \/ /\ WriterAt = "beat" /\ Fresh
     /\ NoPong => beat.pong = 0
  \/ /\ WriterAt = "beatPing" /\ Fresh
     /\ Bounded(WriterTimes)
     /\ NoPong => beat.pong = 0
  \/ /\ WriterAt = "sleep"
     /\ NoPong => beat.pong <= Undone + waited + Least(beat.ping, PingAfter)
  \/ WriterAt \in {"close", "report", "clear"} /\ pc["writer"][1].then = "pinging"
Timing ==
  \/ server = 0 /\ WriterAt \in {"pinging", "beat", "beatPing", "sleep", "check", "ended"}
  \/ server = 1 /\ Bounded(beat) /\ OnTime

BeatInv == BeatTypes /\ Callers /\ (link[1] = "up" => Threads /\ Held /\ Timing)

(* Where a step leaves the threads.                                         *)
LEMMA GotoIs ==
  ASSUME Types, NumConns = 1, NEW r \in Roles, NEW step \in Steps, Goto(r, 1, step)
  PROVE  /\ pc'[r][1].at = step /\ pc'[r][1].then = pc[r][1].then
         /\ \A s \in Roles : s # r => pc'[s][1] = pc[s][1]
<1>1. 1 \in Conn
  BY DEF Conn
<1> QED BY <1>1 DEF Goto, Types

LEMMA CloseThenIs ==
  ASSUME Types, NumConns = 1, NEW r \in Roles, NEW next \in Steps, CloseThen(r, 1, next)
  PROVE  /\ pc'[r][1].at = "close" /\ pc'[r][1].then = next
         /\ \A s \in Roles : s # r => pc'[s][1] = pc[s][1]
<1>1. 1 \in Conn
  BY DEF Conn
<1> QED BY <1>1 DEF CloseThen, Types

(* While the server is there a frame is sent.                               *)
LEMMA SendIs ==
  ASSUME NEW r, NEW next, link[1] = "up", server \in {0, 1}, SendThen(r, 1, FALSE, next)
  PROVE  Goto(r, 1, next)
BY DEF SendThen

(* A heartbeat that is read and written back.                               *)
LEMMA AgesStay ==
  ASSUME BeatTypes, NEW r \in Roles, NEW i \in Conn
  PROVE  /\ Now \in Beat
         /\ \A b \in Beat : [times EXCEPT ![r][i] = b] \in [Roles -> [Conn -> Beat]]
         /\ \A b, c \in Beat : [ping |-> 0, pong |-> b.pong] \in Beat
                               /\ [ping |-> b.ping, pong |-> c.pong] \in Beat
         /\ times[r][i] \in Beat
BY ClientAssumption DEF BeatTypes, Beat, PongAges, Now

LEMMA OlderIs ==
  ASSUME NEW b \in Beat
  PROVE  Older(b) \in Beat /\ Older(b).ping = Least(b.ping, PingAfter) + 1
         /\ Older(b).pong = OlderPong(b.pong)
BY ClientAssumption DEF Beat, PongAges, Older, OlderPong, Least

LEMMA OlderPongIs ==
  ASSUME NEW n \in PongAges, NEW m \in PongAges
  PROVE  /\ OlderPong(n) \in PongAges /\ OlderPong(n) <= n + 1
         /\ n <= m => OlderPong(n) <= OlderPong(m)
         /\ n <= PongAfter => OlderPong(n) = n + 1
         /\ n > PongAfter => OlderPong(n) = PongAfter + 1
BY ClientAssumption DEF PongAges, OlderPong, Least

(* A product is a number.                                                   *)
LEMMA Product == \A m, n \in Nat : m * n \in Nat
OBVIOUS

LEMMA UndoneIs ==
  ASSUME BeatTypes
  PROVE  /\ Undone \in Nat /\ Period \in Nat \ {0} /\ PingAfter \in 0..Period /\ waited \in Nat
         /\ lost' = lost => Undone' = Undone
         /\ lost' = 0 => Undone' = 0
         /\ lost' = lost + 1 => Undone' = Undone + Period
<1>1. Period \in Nat \ {0} /\ PingAfter \in 0..Period /\ waited \in Nat /\ lost \in Nat
  BY ClientAssumption DEF Period, BeatTypes, PongAges
<1>2. Undone \in Nat
  BY <1>1, Product DEF Undone
<1>3. lost' = lost => Undone' = Undone
  BY DEF Undone, Period
<1>4. lost' = 0 => Undone' = 0
  BY <1>1 DEF Undone, Period
<1>5. ASSUME lost' = lost + 1
      PROVE  Undone' = Undone + Period
  <2>1. Undone' = (lost + 1) * Period
    BY <1>5 DEF Undone, Period
  <2>2. (lost + 1) * Period = lost * Period + Period
    BY <1>1
  <2> QED BY <2>1, <2>2 DEF Undone
<1> QED BY <1>1, <1>2, <1>3, <1>4, <1>5

LEMMA AgesAre ==
  ASSUME BeatTypes, NumConns = 1
  PROVE  /\ beat.ping \in 0..Period /\ beat.pong \in Nat
         /\ WriterTimes \in Beat /\ WriterTimes.ping \in 0..Period /\ WriterTimes.pong \in Nat
         /\ ReaderTimes \in Beat /\ ReaderTimes.pong \in Nat
<1>1. "writer" \in Roles /\ "reader" \in Roles /\ 1 \in Conn
  BY DEF Roles, Conn
<1>2. beat \in Beat /\ WriterTimes \in Beat /\ ReaderTimes \in Beat
  BY <1>1 DEF BeatTypes, WriterTimes, ReaderTimes
<1> QED BY <1>2, ClientAssumption DEF Beat, PongAges, Period

(* A step that leaves the heartbeat and the write thread where they are.      *)
LEMMA TimingStays ==
  ASSUME Timing, UNCHANGED <<server, beat, lost, waited>>, WriterTimes' = WriterTimes,
         pc'["writer"][1] = pc["writer"][1], NoPong' <=> NoPong, Fresh => Fresh'
  PROVE  Timing'
<1>1. /\ WriterAt' = WriterAt /\ beat' = beat /\ lost' = lost /\ waited' = waited
      /\ server' = server /\ Undone' = Undone
  BY DEF WriterAt, Undone, Period
<1>2. (Bounded(beat) => Bounded(beat)') /\ (OnTime => OnTime')
  BY <1>1 DEF OnTime, Explained, Bounded, Period
<1> QED BY <1>1, <1>2 DEF Timing

(* The steps of the write thread *)
LEMMA WriterAges ==
  ASSUME BeatTypes, TellInv, NEW i \in Conn, Writer(i)
  PROVE  BeatTypes'
<1>1. "writer" \in Roles /\ times["writer"][i] \in Beat /\ beat \in Beat
  BY AgesStay DEF Roles, BeatTypes
<1>2. CASE UNCHANGED beats
  BY <1>2 DEF beats, BeatTypes
<1>3. ASSUME NEW next, BeatRead("writer", i, beat.pong, next)
      PROVE  BeatTypes'
  BY <1>1, <1>3, AgesStay DEF BeatRead, BeatTypes
<1>4. ASSUME NEW next, BeatPing("writer", i, next)
      PROVE  BeatTypes'
  <2>1. beat' \in Beat /\ lost' \in Nat /\ waited' = waited
    <3>1. beat' = [ping |-> 0, pong |-> times["writer"][i].pong] /\ waited' = waited
          /\ lost' \in {lost, lost + 1}
      BY <1>4 DEF BeatPing
    <3>2. beat' \in Beat
      BY <1>1, <3>1, ClientAssumption DEF Beat
    <3> QED BY <3>1, <3>2 DEF BeatTypes
  <2>2. times' \in [Roles -> [Conn -> Beat]]
    BY <1>1, <1>4, AgesStay DEF BeatPing, Forget
  <2> QED BY <2>1, <2>2 DEF BeatTypes
<1>5. ASSUME NEW next, BeatPong("writer", i, Now, next)
      PROVE  BeatTypes'
  <2>1. beat' \in Beat /\ lost' \in Nat /\ waited' \in PongAges
    BY <1>1, <1>5, AgesStay, ClientAssumption DEF BeatPong, NewPong, BeatTypes, Beat, Now, PongAges
  <2>2. times' \in [Roles -> [Conn -> Beat]]
    BY <1>1, <1>5, AgesStay DEF BeatPong, Forget
  <2> QED BY <2>1, <2>2 DEF BeatTypes
<1>6. CASE WriterPing(i)
  BY <1>1, <1>6, AgesStay DEF WriterPing, Forget, BeatTypes
<1>7. CASE WriterSleep(i)
  <2>1. lost' = lost /\ waited' \in PongAges
    BY <1>7, OlderPongIs DEF WriterSleep, BeatTypes
  <2>2. CASE "time" \notin events
    BY <1>7, <2>1, <2>2 DEF WriterSleep, BeatTypes
  <2>3. CASE "time" \in events
    <3>1. beat' = Older(beat)
          /\ times' = [r \in Roles |-> [j \in Conn |->
               IF Holds(r, j) THEN Older(times[r][j]) ELSE Now]]
      BY <1>7, <2>3 DEF WriterSleep
    <3>2. \A r \in Roles, j \in Conn : Older(times[r][j]) \in Beat /\ Now \in Beat
      BY AgesStay, OlderIs
    <3> QED BY <1>1, <2>1, <3>1, <3>2, OlderIs DEF BeatTypes
  <2> QED BY <2>2, <2>3
<1> QED
  BY <1>2, <1>3, <1>4, <1>5, <1>6, <1>7
  DEF Writer, WriterStart, ThreadCheck, WriterLook, WriterIdle, WriterSend, WriterAlive, WriterBeat,
      Close, CloseLook, CloseReport, CloseClear

(* Where it leaves the other threads.                                        *)
LEMMA ThreadsStay ==
  ASSUME Threads, NumConns = 1, wire' = wire, server' \in {server, 0},
         \A s \in Roles : s # "writer" => pc'[s][1] = pc[s][1]
  PROVE  /\ Threads' /\ ReaderAt' = ReaderAt /\ (HasPong' <=> HasPong)
         /\ pinged' = pinged => (NoneComes' <=> NoneComes) /\ (NoPong' <=> NoPong)
<1>1. ReaderAt' = ReaderAt /\ \A r \in Requests : pc'[r][1] = pc[r][1]
  BY ClientAssumption DEF Roles, ReaderAt
<1>2. /\ HasPong' <=> HasPong
      /\ pinged' = pinged => (NoneComes' <=> NoneComes) /\ (NoPong' <=> NoPong)
  BY <1>1 DEF NoPong, NoneComes, HasPong, Clear
<1>3. Threads'
  BY <1>1 DEF Threads
<1> QED BY <1>1, <1>2, <1>3

LEMMA WriterGoes ==
  ASSUME TellInv, NumConns = 1, NEW step \in Steps, Goto("writer", 1, step)
  PROVE  /\ WriterAt' = step
         /\ \A s \in Roles : s # "writer" => pc'[s][1] = pc[s][1]
<1>1. "writer" \in Roles
  BY DEF Roles
<1> QED BY <1>1, GotoIs DEF TellInv, WriterAt

LEMMA WriterTimesIs ==
  ASSUME BeatTypes, NumConns = 1
  PROVE  /\ Forget("writer", 1) => WriterTimes' = Now /\ ReaderTimes' = ReaderTimes
         /\ \A next : BeatRead("writer", 1, beat.pong, next) => WriterTimes' = beat /\ ReaderTimes' = ReaderTimes
<1>1. "writer" \in Roles /\ "reader" \in Roles /\ 1 \in Conn
  BY DEF Roles, Conn
<1>2. [ping |-> beat.ping, pong |-> beat.pong] = beat
  BY DEF BeatTypes, Beat
<1> QED BY <1>1, <1>2 DEF WriterTimes, ReaderTimes, Forget, BeatRead, BeatTypes

(* Where no age changes, what explains it does not.                           *)
LEMMA ExplainedStays ==
  ASSUME UNCHANGED <<beat, lost, waited>>
  PROVE  /\ Undone' = Undone
         /\ Explained(beat)' <=> Explained(beat)
         /\ Bounded(beat)' <=> Bounded(beat)
BY DEF Undone, Period, Explained, Bounded

LEMMA WriterStartOnTime ==
  ASSUME TellInv, BeatInv, NumConns = 1, link[1] = "up", WriterStart(1)
  PROVE  Threads' /\ ReaderAt' = ReaderAt /\ Timing'
<1>0. Threads /\ Timing /\ BeatTypes /\ wire' = wire /\ server' = server /\ pinged' = pinged
  BY DEF BeatInv, WriterStart, BeatRead, BeatPing, BeatPong, statics, net
<1>1. WriterAt \in {"start", "startPing", "startPong"}
  BY DEF WriterStart, WriterAt
<1>2. server = 1 /\ NoPong /\ beat = Now /\ lost = 0 /\ waited = 0 /\ WriterTimes = Now
  BY <1>0, <1>1 DEF Timing, OnTime
<1>3. ASSUME beat' = Now, lost' = 0, waited' = 0
      PROVE  Bounded(beat)'
  BY <1>0, <1>3, UndoneIs DEF Bounded, Now, Period
<1>4. CASE pc["writer"][1].at = "start" /\ BeatRead("writer", 1, beat.pong, "startPing")
  <2>1. Goto("writer", 1, "startPing") /\ "startPing" \in Steps
    BY <1>4 DEF BeatRead, Steps
  <2>2. NoPong' /\ Threads' /\ ReaderAt' = ReaderAt /\ WriterAt' = "startPing"
    BY <1>0, <1>2, <2>1, WriterGoes, ThreadsStay
  <2>3. beat' = Now /\ lost' = 0 /\ waited' = 0 /\ WriterTimes' = Now
    BY <1>0, <1>2, <1>4, WriterTimesIs DEF BeatRead
  <2> QED BY <1>0, <1>2, <1>3, <2>2, <2>3 DEF Timing, OnTime
<1>5. CASE pc["writer"][1].at = "startPing" /\ BeatPing("writer", 1, "startPong")
  <2>1. Goto("writer", 1, "startPong") /\ "startPong" \in Steps
    BY <1>5 DEF BeatPing, Steps
  <2>2. NoPong' /\ Threads' /\ ReaderAt' = ReaderAt /\ WriterAt' = "startPong"
    BY <1>0, <1>2, <2>1, WriterGoes, ThreadsStay
  <2>3. beat' = Now /\ lost' = 0 /\ waited' = 0 /\ WriterTimes' = Now
    BY <1>0, <1>2, <1>5, WriterTimesIs DEF BeatPing, WriterTimes, Now
  <2> QED BY <1>0, <1>2, <1>3, <2>2, <2>3 DEF Timing, OnTime
<1>6. CASE pc["writer"][1].at = "startPong" /\ BeatPong("writer", 1, Now, "check")
  <2>1. Goto("writer", 1, "check") /\ "check" \in Steps
    BY <1>6 DEF BeatPong, Steps
  <2>2. NoPong' /\ Threads' /\ ReaderAt' = ReaderAt /\ WriterAt' = "check"
    BY <1>0, <1>2, <2>1, WriterGoes, ThreadsStay
  <2>3. beat' = Now /\ lost' = 0 /\ waited' = 0
    BY <1>2, <1>6 DEF BeatPong, NewPong, Now
  <2>4. Explained(beat)'
    BY <1>0, <1>2, <2>3, UndoneIs DEF Explained, Now
  <2> QED BY <1>0, <1>2, <2>2, <2>3, <2>4, <1>3 DEF Timing, OnTime
<1> QED BY <1>4, <1>5, <1>6 DEF WriterStart

LEMMA WriterLooksOnTime ==
  ASSUME TellInv, BeatInv, NumConns = 1, link[1] = "up",
         ThreadCheck("writer", 1, "look") \/ WriterLook(1) \/ WriterIdle(1) \/ WriterAlive(1)
  PROVE  Threads' /\ ReaderAt' = ReaderAt /\ Timing'
<1>0. /\ Threads /\ Timing /\ BeatTypes
      /\ wire' = wire /\ server' = server /\ pinged' = pinged
      /\ beat' = beat /\ lost' = lost /\ waited' = waited
  BY DEF BeatInv, ThreadCheck, WriterLook, WriterIdle, WriterAlive, BeatRead, statics, beats, net
<1>1. server' \in {server, 0}
  BY <1>0
<1>2. /\ Undone' = Undone /\ (Explained(beat)' <=> Explained(beat))
      /\ Bounded(beat)' <=> Bounded(beat)
  BY <1>0, ExplainedStays
<1>3. CASE ThreadCheck("writer", 1, "look")
  <2>1. WriterAt = "check" /\ Goto("writer", 1, IF Open THEN "look" ELSE "ended")
    BY <1>3 DEF ThreadCheck, WriterAt
  <2>2. CASE server = 0
    <3>1. Goto("writer", 1, "ended") /\ "ended" \in Steps
      BY <2>1, <2>2 DEF Open, Steps
    <3> QED BY <1>0, <1>1, <2>2, <3>1, WriterGoes, ThreadsStay DEF Timing
  <2>3. CASE server # 0
    <3>1. Goto("writer", 1, "look") /\ "look" \in Steps
      BY <2>1, <2>3 DEF Open, Steps
    <3>2. server = 1 /\ Bounded(beat) /\ (NoPong => Explained(beat))
      BY <1>0, <2>1, <2>3 DEF Timing, OnTime
    <3>3. (NoPong' <=> NoPong) /\ Threads' /\ ReaderAt' = ReaderAt /\ WriterAt' = "look"
      BY <1>0, <1>1, <3>1, <3>2, WriterGoes, ThreadsStay
    <3> QED BY <1>0, <1>2, <3>2, <3>3 DEF Timing, OnTime
  <2> QED BY <2>2, <2>3
<1>4. CASE WriterLook(1)
  <2>1. WriterAt = "look" /\ Goto("writer", 1, "fetch") /\ "fetch" \in Steps
    BY <1>4 DEF WriterLook, WriterAt, BeatRead, Steps
  <2>2. server = 1 /\ Bounded(beat) /\ (NoPong => Explained(beat))
    BY <1>0, <2>1 DEF Timing, OnTime
  <2>3. (NoPong' <=> NoPong) /\ Threads' /\ ReaderAt' = ReaderAt /\ WriterAt' = "fetch"
    BY <1>0, <1>1, <2>1, <2>2, WriterGoes, ThreadsStay
  <2>4. WriterTimes' = beat'
    BY <1>0, <1>4, WriterTimesIs DEF WriterLook
  <2> QED BY <1>0, <1>2, <2>2, <2>3, <2>4 DEF Timing, OnTime
<1>5. CASE WriterIdle(1) \/ WriterAlive(1)
  <2>1. WriterAt \in {"fetch", "alive"} /\ WriterTimes' = WriterTimes
    BY <1>5 DEF WriterIdle, WriterAlive, WriterAt, WriterTimes, beats
  <2>2. /\ server = 1 /\ Bounded(beat) /\ (NoPong => Explained(beat))
        /\ beat = WriterTimes \/ beat.pong <= waited
    BY <1>0, <2>1 DEF Timing, OnTime
  <2>3. ASSUME NEW step \in {"alive", "pinging"}, Goto("writer", 1, step)
        PROVE  Threads' /\ ReaderAt' = ReaderAt /\ Timing'
    <3>1. step \in Steps
      BY DEF Steps
    <3>2. (NoPong' <=> NoPong) /\ Threads' /\ ReaderAt' = ReaderAt /\ WriterAt' = step
      BY <1>0, <1>1, <2>2, <2>3, <3>1, WriterGoes, ThreadsStay
    <3> QED BY <1>0, <1>2, <2>1, <2>2, <3>2 DEF Timing, OnTime
  <2>4. ASSUME CloseThen("writer", 1, "pinging")
        PROVE  Threads' /\ ReaderAt' = ReaderAt /\ Timing'
    <3>1. "writer" \in Roles /\ "pinging" \in Steps
      BY DEF Roles, Steps
    <3>2. /\ WriterAt' = "close" /\ pc'["writer"][1].then = "pinging"
          /\ \A s \in Roles : s # "writer" => pc'[s][1] = pc[s][1]
      BY <2>4, <3>1, CloseThenIs DEF TellInv, WriterAt
    <3>3. Threads' /\ ReaderAt' = ReaderAt
      BY <1>0, <1>1, <3>2, ThreadsStay
    <3> QED BY <1>0, <1>2, <2>2, <3>2, <3>3 DEF Timing, OnTime
  <2> QED BY <1>5, <2>3, <2>4 DEF WriterIdle, WriterAlive
<1> QED BY <1>3, <1>4, <1>5

LEMMA WriterSendOnTime ==
  ASSUME TellInv, BeatInv, NumConns = 1, WriterSend(1), link'[1] = "up"
  PROVE  link[1] = "up" /\ Threads' /\ ReaderAt' = ReaderAt /\ Timing'
<1> DEFINE m == Head(queue[1])
<1>1. 1 \in Conn /\ link \in [Conn -> Links]
  BY DEF Conn, TellInv, Types
<1>2. link[1] = "up"
  <2>1. CASE link' = link
    BY <2>1
  <2>2. CASE Reaches /\ link' = [link EXCEPT ![server] = "closing"]
    BY <1>1, <2>2
  <2> QED BY <2>1, <2>2 DEF WriterSend
<1>3. /\ Threads /\ Timing /\ BeatTypes
      /\ wire' = wire /\ server' = server /\ pinged' = pinged
      /\ beat' = beat /\ lost' = lost /\ waited' = waited /\ WriterTimes' = WriterTimes
  BY <1>2 DEF BeatInv, WriterSend, statics, beats, WriterTimes
<1>4. WriterAt = "fetch"
  BY DEF WriterSend, WriterAt
<1>5. /\ server = 1 /\ Bounded(beat) /\ (NoPong => Explained(beat))
      /\ beat = WriterTimes \/ beat.pong <= waited
  BY <1>3, <1>4 DEF Timing, OnTime
<1>6. m # Shutdown
  <2>1. SUFFICES ASSUME m = Shutdown PROVE FALSE
    OBVIOUS
  <2>2. Reaches
    BY <1>2, <1>5 DEF Reaches
  <2>3. link' = [link EXCEPT ![1] = "closing"]
    BY <1>5, <2>1, <2>2 DEF WriterSend
  <2> QED BY <1>1, <2>3
<1>7. Goto("writer", 1, "alive") /\ "alive" \in Steps
  <2>1. (m = Shutdown) = FALSE /\ SendThen("writer", 1, m = Shutdown, "alive")
    BY <1>6 DEF WriterSend
  <2>2. SendThen("writer", 1, FALSE, "alive")
    BY <2>1
  <2> QED BY <1>2, <1>5, <2>2, SendIs DEF Steps
<1>8. (NoPong' <=> NoPong) /\ Threads' /\ ReaderAt' = ReaderAt /\ WriterAt' = "alive"
  BY <1>3, <1>5, <1>7, WriterGoes, ThreadsStay
<1>9. (Explained(beat)' <=> Explained(beat)) /\ (Bounded(beat)' <=> Bounded(beat))
  BY <1>3, ExplainedStays
<1> QED BY <1>2, <1>3, <1>5, <1>8, <1>9 DEF Timing, OnTime

LEMMA WriterPingOnTime ==
  ASSUME TellInv, BeatInv, NumConns = 1, WriterPing(1), link[1] = "up"
  PROVE  Threads' /\ ReaderAt' = ReaderAt /\ Timing'
<1>1. /\ Threads /\ Timing /\ BeatTypes /\ wire' = wire /\ server' = server
      /\ beat' = beat /\ lost' = lost /\ waited' = waited /\ server \in {0, 1}
  BY DEF BeatInv, WriterPing, statics, Threads
<1>2. WriterAt = "pinging"
  BY DEF WriterPing, WriterAt
<1>3. /\ Undone' = Undone /\ (Explained(beat)' <=> Explained(beat))
      /\ Bounded(beat)' <=> Bounded(beat)
  BY <1>1, ExplainedStays
<1>4. CASE WriterTimes.ping > PingAfter
  <2>1. SendThen("writer", 1, FALSE, "beat")
        /\ pinged' = IF Reaches THEN pinged \cup {server} ELSE pinged
    BY <1>4 DEF WriterPing, WriterTimes
  <2>2. Goto("writer", 1, "beat") /\ "beat" \in Steps
    BY <1>1, <2>1, SendIs DEF Steps
  <2>3. Threads' /\ ReaderAt' = ReaderAt /\ WriterAt' = "beat"
    BY <1>1, <2>2, WriterGoes, ThreadsStay
  <2>4. CASE server = 0
    BY <1>1, <2>3, <2>4 DEF Timing
  <2>5. CASE server = 1
    <3>1. ~ NoneComes'
      BY <2>1, <2>5 DEF Reaches, NoneComes
    <3>2. Bounded(beat)
      BY <1>1, <1>2, <2>5 DEF Timing, OnTime
    <3> QED BY <1>1, <1>3, <2>3, <2>5, <3>1, <3>2 DEF Timing, OnTime, Fresh, NoPong
  <2> QED BY <1>1, <2>4, <2>5
<1>5. CASE ~ (WriterTimes.ping > PingAfter)
  <2>1. Goto("writer", 1, "sleep") /\ "sleep" \in Steps /\ pinged' = pinged
    BY <1>5 DEF WriterPing, WriterTimes, Steps
  <2>2. (NoPong' <=> NoPong) /\ Threads' /\ ReaderAt' = ReaderAt /\ WriterAt' = "sleep"
    BY <1>1, <2>1, WriterGoes, ThreadsStay
  <2>3. CASE server = 0
    BY <1>1, <2>2, <2>3 DEF Timing
  <2>4. CASE server = 1
    <3>1. /\ Bounded(beat) /\ (NoPong => Explained(beat))
          /\ beat = WriterTimes \/ beat.pong <= waited
      BY <1>1, <1>2, <2>4 DEF Timing, OnTime
    <3>2. NoPong => beat.pong <= Undone + waited + Least(beat.ping, PingAfter)
      <4>1. /\ beat.ping \in Nat /\ beat.pong \in Nat /\ Undone \in Nat /\ waited \in Nat
            /\ Least(beat.ping, PingAfter) \in Nat /\ PingAfter \in Nat
        BY <1>1, AgesAre, UndoneIs, ClientAssumption DEF Least, Period
      <4>2. beat = WriterTimes => Least(beat.ping, PingAfter) = beat.ping
        BY <1>5, <4>1 DEF Least
      <4> QED BY <3>1, <4>1, <4>2 DEF Explained
    <3> QED BY <1>1, <1>3, <2>2, <2>4, <3>1, <3>2 DEF Timing, OnTime
  <2> QED BY <1>1, <2>3, <2>4
<1> QED BY <1>4, <1>5

(* What is undone is counted, so that what is left of the old time is still      *)
(* explained (update_heartbeat, client.rs:64-73).                            *)
LEMMA WriterBeatOnTime ==
  ASSUME TellInv, BeatInv, NumConns = 1, WriterBeat(1), link[1] = "up"
  PROVE  Threads' /\ ReaderAt' = ReaderAt /\ Timing'
<1>1. /\ Threads /\ Timing /\ BeatTypes
      /\ wire' = wire /\ server' = server /\ pinged' = pinged /\ waited' = waited
      /\ server \in {0, 1}
  BY DEF BeatInv, WriterBeat, BeatRead, BeatPing, statics, net, Threads
<1>2. CASE pc["writer"][1].at = "beat" /\ BeatRead("writer", 1, beat.pong, "beatPing")
  <2>1. Goto("writer", 1, "beatPing") /\ "beatPing" \in Steps /\ WriterAt = "beat"
        /\ beat' = beat /\ lost' = lost
    BY <1>2 DEF BeatRead, Steps, WriterAt
  <2>2. /\ Threads' /\ ReaderAt' = ReaderAt /\ WriterAt' = "beatPing" /\ (NoPong' <=> NoPong)
        /\ (HasPong' <=> HasPong) /\ (NoneComes' <=> NoneComes)
    BY <1>1, <2>1, WriterGoes, ThreadsStay
  <2>3. WriterTimes' = beat /\ ReaderTimes' = ReaderTimes
    BY <1>1, <1>2, WriterTimesIs
  <2>4. CASE server = 0
    BY <1>1, <2>2, <2>4 DEF Timing
  <2>5. CASE server = 1
    <3>1. Bounded(beat) /\ Fresh /\ (NoPong => beat.pong = 0)
      BY <1>1, <2>1, <2>5 DEF Timing, OnTime
    <3>2. Bounded(beat)' /\ Bounded(WriterTimes)'
      BY <1>1, <2>1, <2>3, <3>1 DEF Bounded, Undone, Period
    <3>3. Fresh'
      BY <2>2, <2>3, <3>1 DEF Fresh
    <3> QED BY <1>1, <2>1, <2>2, <2>5, <3>1, <3>2, <3>3 DEF Timing, OnTime
  <2> QED BY <1>1, <2>4, <2>5
<1>3. CASE pc["writer"][1].at = "beatPing" /\ BeatPing("writer", 1, "sleep")
  <2>1. Goto("writer", 1, "sleep") /\ "sleep" \in Steps /\ WriterAt = "beatPing"
    BY <1>3 DEF BeatPing, Steps, WriterAt
  <2>2. Threads' /\ ReaderAt' = ReaderAt /\ WriterAt' = "sleep" /\ (NoPong' <=> NoPong)
    BY <1>1, <2>1, WriterGoes, ThreadsStay
  <2>3. CASE server = 0
    BY <1>1, <2>2, <2>3 DEF Timing
  <2>4. CASE server = 1
    <3>1. Bounded(WriterTimes) /\ (NoPong => beat.pong = 0)
      BY <1>1, <2>1, <2>4 DEF Timing, OnTime
    <3>2. beat' = [ping |-> 0, pong |-> WriterTimes.pong]
          /\ lost' = IF beat.pong < WriterTimes.pong THEN lost + 1 ELSE lost
      BY <1>3 DEF BeatPing, WriterTimes
    <3>3. beat'.pong = WriterTimes.pong /\ beat'.ping = 0 /\ Least(0, PingAfter) = 0
      BY <3>2, ClientAssumption DEF Least
    <3>4. /\ Undone \in Nat /\ Period \in Nat /\ waited \in Nat
          /\ beat.pong \in Nat /\ WriterTimes.pong \in Nat
      BY <1>1, AgesAre, UndoneIs
    <3>5. IF beat.pong < WriterTimes.pong THEN Undone' = Undone + Period ELSE Undone' = Undone
      BY <1>1, <3>2, UndoneIs
    <3>6. Bounded(beat)'
      BY <1>1, <3>1, <3>3, <3>4, <3>5 DEF Bounded, Period
    <3>7. NoPong => beat'.pong <= Undone' + waited' + Least(beat'.ping, PingAfter)
      BY <1>1, <3>1, <3>3, <3>4, <3>5 DEF Bounded
    <3> QED BY <1>1, <2>2, <2>4, <3>6, <3>7 DEF Timing, OnTime
  <2> QED BY <1>1, <2>3, <2>4
<1> QED BY <1>2, <1>3 DEF WriterBeat

(* A sleep makes the pong older, and is waited for if one is outstanding.     *)
LEMMA WriterSleepOnTime ==
  ASSUME TellInv, BeatInv, NumConns = 1, WriterSleep(1), link[1] = "up"
  PROVE  Threads' /\ ReaderAt' = ReaderAt /\ Timing'
<1>1. /\ Threads /\ Timing /\ BeatTypes
      /\ wire' = wire /\ server' = server /\ pinged' = pinged /\ lost' = lost
      /\ server \in {0, 1}
  BY DEF BeatInv, WriterSleep, statics, net, Threads
<1>2. Goto("writer", 1, "check") /\ "check" \in Steps /\ WriterAt = "sleep"
  BY DEF WriterSleep, Steps, WriterAt
<1>3. Threads' /\ ReaderAt' = ReaderAt /\ WriterAt' = "check" /\ (NoPong' <=> NoPong)
  BY <1>1, <1>2, WriterGoes, ThreadsStay
<1>4. CASE server = 0
  BY <1>1, <1>3, <1>4 DEF Timing
<1>5. CASE server = 1
  <2> DEFINE sum == Undone + waited
  <2>1. Bounded(beat) /\ (NoPong => beat.pong <= sum + Least(beat.ping, PingAfter))
    BY <1>1, <1>2, <1>5 DEF Timing, OnTime
  <2>2. /\ Undone \in Nat /\ Undone' = Undone /\ Period \in Nat /\ waited \in PongAges
        /\ beat \in Beat /\ beat.ping \in Nat /\ beat.pong \in PongAges
    BY <1>1, AgesAre, UndoneIs DEF BeatTypes, Beat, Period
  <2>3. Least(beat.ping, PingAfter) \in 0..PingAfter /\ Least(beat.ping, PingAfter) <= beat.ping
    BY <2>2, ClientAssumption DEF Least
  <2>4. PongAges \subseteq Nat /\ PongAfter \in Nat /\ Period = PingAfter + 1 /\ PingAfter \in Nat
        /\ (\A n \in PongAges : n <= PongAfter + 1)
    BY ClientAssumption DEF PongAges, Period
  <2>5. (NoPong => Explained(beat)') /\ Bounded(beat)'
    <3>1. CASE "time" \notin events
      <4>1. beat' = beat /\ waited' = waited
        BY <3>1 DEF WriterSleep
      <4>2. NoPong => Explained(beat)
        <5>1. Least(beat.ping, PingAfter) \in Nat /\ Least(beat.ping, PingAfter) <= beat.ping
              /\ beat.pong \in Nat /\ waited \in Nat
          <6>1. beat.pong \in Nat /\ waited \in Nat
            BY <2>2, <2>4, Zenon
          <6>2. 0..PingAfter \subseteq Nat
            BY ClientAssumption
          <6> QED BY <2>3, <6>1, <6>2, Zenon
        <5>2. NoPong => beat.pong <= Undone + waited + Least(beat.ping, PingAfter)
          BY <2>1
        <5>3. NoPong => beat.pong <= Undone + waited + beat.ping
          BY <2>2, <5>1, <5>2
        <5> QED BY <5>3 DEF Explained
      <4> QED BY <1>1, <2>1, <4>1, <4>2, ExplainedStays
    <3>2. CASE "time" \in events
      <4>1. beat' = Older(beat) /\ waited' = IF Outstanding(1) THEN OlderPong(waited) ELSE waited
        BY <3>2 DEF WriterSleep
      <4>2. beat'.ping = Least(beat.ping, PingAfter) + 1 /\ beat'.pong = OlderPong(beat.pong)
        BY <2>2, <4>1, OlderIs
      <4>3. beat'.pong \in PongAges /\ beat'.pong <= beat.pong + 1
        BY <2>2, <4>2, OlderPongIs
      <4>4. Outstanding(1) <=> ~ NoPong
        BY DEF Outstanding, InWire, NoPong, NoneComes, HasPong, Clear, ReaderAt
      <4>5. CASE NoPong
        <5>1. waited' = waited /\ waited \in Nat /\ beat.pong \in Nat /\ beat'.pong \in Nat
          BY <2>2, <2>4, <4>1, <4>3, <4>4, <4>5
        <5>2. beat'.pong <= sum + beat'.ping
          BY <2>1, <2>2, <2>3, <2>4, <4>2, <4>3, <4>5, <5>1
        <5>3. beat'.pong <= sum + Period
          BY <2>2, <2>3, <2>4, <4>2, <5>1, <5>2
        <5> QED BY <2>2, <5>1, <5>2, <5>3 DEF Explained, Bounded, Period
      <4>6. CASE ~ NoPong
        <5>1. /\ waited' = OlderPong(waited) /\ waited' \in PongAges /\ waited \in Nat
              /\ waited <= PongAfter => waited' = waited + 1
              /\ waited > PongAfter => waited' = PongAfter + 1
          BY <2>2, <2>4, <4>1, <4>4, <4>6, OlderPongIs
        <5>2. beat'.pong <= Undone + waited' + Period
          <6>1. beat.pong \in Nat /\ beat'.pong \in Nat /\ beat'.pong <= PongAfter + 1
            BY <2>2, <2>4, <4>3
          <6>2. beat.pong <= Undone + waited + Period
            BY <2>1 DEF Bounded
          <6>3. CASE waited <= PongAfter
            BY <2>2, <2>4, <4>3, <5>1, <6>1, <6>2, <6>3
          <6>4. CASE waited > PongAfter
            BY <2>2, <2>4, <5>1, <6>1, <6>4
          <6> QED BY <2>4, <5>1, <6>3, <6>4
        <5> QED BY <2>2, <4>6, <5>2 DEF Bounded, Period
      <4> QED BY <4>5, <4>6
    <3> QED BY <3>1, <3>2
  <2> QED BY <1>1, <1>3, <1>5, <2>5 DEF Timing, OnTime
<1> QED BY <1>1, <1>4, <1>5

LEMMA WriterCloseOnTime ==
  ASSUME TellInv, BeatInv, NumConns = 1, Close("writer", 1), link[1] = "up"
  PROVE  Threads' /\ ReaderAt' = ReaderAt /\ Timing'
<1>1. /\ Threads /\ Timing /\ wire' = wire /\ pinged' = pinged /\ WriterAt \in {"close", "report", "clear"}
      /\ beat' = beat /\ lost' = lost /\ waited' = waited
  BY DEF BeatInv, Close, CloseLook, CloseReport, CloseClear, net, beats, WriterAt
<1>2. server = 1 /\ Bounded(beat) /\ Bounded(beat)' /\ pc["writer"][1].then = "pinging"
  BY <1>1, ExplainedStays DEF Timing, OnTime
<1>3. "writer" \in Roles
  BY DEF Roles
<1>4. ASSUME NEW step \in {"report", "clear"}, Goto("writer", 1, step), server' = server
      PROVE  Threads' /\ ReaderAt' = ReaderAt /\ Timing'
  <2>1. step \in Steps
    BY DEF Steps
  <2>2. WriterAt' = step /\ pc'["writer"][1].then = "pinging"
        /\ \A s \in Roles : s # "writer" => pc'[s][1] = pc[s][1]
    BY <1>2, <1>3, <1>4, <2>1, GotoIs DEF TellInv, WriterAt
  <2>3. Threads' /\ ReaderAt' = ReaderAt
    BY <1>1, <1>4, <2>2, ThreadsStay
  <2> QED BY <1>2, <1>4, <2>2, <2>3 DEF Timing, OnTime
<1>5. CASE CloseLook("writer", 1) \/ CloseReport("writer", 1)
  <2>1. server' = server /\ (Goto("writer", 1, "report") \/ Goto("writer", 1, "clear"))
    BY <1>5 DEF CloseLook, CloseReport, statics
  <2> QED BY <1>4, <2>1
<1>6. CASE CloseClear("writer", 1)
  <2>1. server' = 0 /\ Goto("writer", 1, "pinging") /\ "pinging" \in Steps
    BY <1>2, <1>6 DEF CloseClear, Steps
  <2>2. Threads' /\ ReaderAt' = ReaderAt /\ WriterAt' = "pinging"
    BY <1>1, <2>1, WriterGoes, ThreadsStay
  <2> QED BY <2>1, <2>2 DEF Timing
<1> QED BY <1>5, <1>6 DEF Close

(* What the read thread holds, its pong and the heartbeat it has read, grows old  *)
(* as it is waited for.                                                     *)
LEMMA WriterHolds ==
  ASSUME BeatInv, NumConns = 1, link[1] = "up", Writer(1), ReaderAt' = ReaderAt
  PROVE  Held'
<1>1. /\ "writer" \in Roles /\ "reader" \in Roles /\ 1 \in Conn
      /\ BeatTypes /\ Held /\ Timing /\ (HasPong' <=> HasPong)
  BY DEF Roles, Conn, BeatInv, HasPong
<1>2. ASSUME ReaderTimes' = ReaderTimes, waited' = waited
      PROVE  Held'
  BY <1>1, <1>2 DEF Held
<1>3. CASE WriterSleep(1)
  <2>1. CASE "time" \notin events
    BY <1>2, <1>3, <2>1 DEF WriterSleep, ReaderTimes
  <2>2. CASE "time" \in events
    <3>1. /\ times' = [r \in Roles |-> [j \in Conn |->
               IF Holds(r, j) THEN Older(times[r][j]) ELSE Now]]
          /\ waited' = IF Outstanding(1) THEN OlderPong(waited) ELSE waited
      BY <1>3, <2>2 DEF WriterSleep
    <3>2. Holds("reader", 1) <=> HasPong
      BY DEF Holds, HasPong, ReaderAt
    <3>3. ReaderTimes' = IF HasPong THEN Older(ReaderTimes) ELSE Now
      BY <1>1, <3>1, <3>2 DEF ReaderTimes
    <3>4. CASE ~ HasPong
      BY <1>1, <3>3, <3>4 DEF Held
    <3>5. CASE HasPong
      <4>1. Outstanding(1)
        BY <3>5 DEF Outstanding, HasPong, ReaderAt
      <4>2. ReaderTimes \in Beat /\ ReaderTimes.pong \in PongAges /\ waited \in PongAges
            /\ ReaderTimes.pong <= waited
        BY <1>1, <3>5, AgesAre DEF Held, BeatTypes, Beat
      <4>3. ReaderTimes'.pong = OlderPong(ReaderTimes.pong) /\ waited' = OlderPong(waited)
        BY <3>1, <3>3, <3>5, <4>1, <4>2, OlderIs
      <4>4. OlderPong(ReaderTimes.pong) <= OlderPong(waited)
        BY <4>2, OlderPongIs
      <4> QED BY <1>1, <3>5, <4>3, <4>4 DEF Held
    <3> QED BY <3>4, <3>5
  <2> QED BY <2>1, <2>2
<1>4. CASE WriterStart(1)
  <2>1. WriterAt \in {"start", "startPing", "startPong"}
    BY <1>4 DEF WriterStart, WriterAt
  <2>2. ~ HasPong
    BY <1>1, <2>1 DEF Timing, OnTime, NoPong
  <2>3. ReaderTimes' = ReaderTimes
    BY <1>1, <1>4, WriterTimesIs DEF WriterStart, BeatRead, BeatPing, BeatPong, BeatTypes, ReaderTimes
  <2> QED BY <1>1, <2>2, <2>3 DEF Held
<1>5. CASE WriterLook(1)
  <2>1. ReaderTimes' = ReaderTimes /\ waited' = waited
    BY <1>1, <1>5, WriterTimesIs DEF WriterLook, BeatRead
  <2> QED BY <1>2, <2>1
<1>6. CASE WriterBeat(1)
  <2>1. CASE BeatRead("writer", 1, beat.pong, "beatPing")
    BY <1>1, <1>2, <2>1, WriterTimesIs DEF BeatRead
  <2>2. CASE BeatPing("writer", 1, "sleep")
    BY <1>1, <1>2, <2>2, WriterTimesIs DEF BeatPing
  <2> QED BY <1>6, <2>1, <2>2 DEF WriterBeat
<1>7. CASE WriterPing(1)
  <2>1. Forget("writer", 1) /\ waited' = waited
    BY <1>7 DEF WriterPing
  <2> QED BY <1>1, <1>2, <2>1, WriterTimesIs
<1>8. CASE UNCHANGED beats
  BY <1>2, <1>8 DEF beats, ReaderTimes
<1> QED
  BY <1>3, <1>4, <1>5, <1>6, <1>7, <1>8
  DEF Writer, ThreadCheck, WriterIdle, WriterSend, WriterAlive, Close, CloseLook, CloseReport, CloseClear

LEMMA WriterOnTime ==
  ASSUME TellInv, BeatInv, NumConns = 1, Writer(1)
  PROVE  BeatInv'
<1>1. 1 \in Conn /\ "writer" \in Roles
  BY DEF Conn, Roles
<1>2. BeatTypes'
  BY <1>1, WriterAges DEF BeatInv
<1>3. Callers'
  <2>1. WriterAt # "none"
    BY DEF Writer, WriterStart, ThreadCheck, WriterLook, WriterIdle, WriterSend, WriterAlive, WriterPing,
           WriterBeat, WriterSleep, Close, CloseLook, CloseReport, CloseClear, WriterAt
  <2>2. caller' = caller /\ wire' = wire
    BY DEF Writer, WriterStart, ThreadCheck, WriterLook, WriterIdle, WriterSend, WriterAlive, WriterPing,
           WriterBeat, WriterSleep, Close, CloseLook, CloseReport, CloseClear, BeatRead, BeatPing,
           BeatPong, sender, net
  <2> QED BY <2>1, <2>2 DEF BeatInv, Callers
<1>4. ASSUME link'[1] = "up"
      PROVE  Threads' /\ Held' /\ Timing'
  <2>1. CASE WriterSend(1)
    <3>1. link[1] = "up" /\ Threads' /\ ReaderAt' = ReaderAt /\ Timing'
      BY <1>4, <2>1, WriterSendOnTime
    <3> QED BY <3>1, WriterHolds
  <2>2. CASE ~ WriterSend(1)
    <3>1. link[1] = "up"
      BY <1>4, <2>2
      DEF Writer, WriterStart, ThreadCheck, WriterLook, WriterIdle, WriterAlive, WriterPing, WriterBeat,
          WriterSleep, Close, CloseLook, CloseReport, CloseClear, BeatRead, BeatPing, BeatPong, net
    <3>2. Threads' /\ ReaderAt' = ReaderAt /\ Timing'
      BY <2>2, <3>1, WriterStartOnTime, WriterLooksOnTime, WriterPingOnTime, WriterBeatOnTime,
         WriterSleepOnTime, WriterCloseOnTime DEF Writer
    <3> QED BY <3>1, <3>2, WriterHolds
  <2> QED BY <2>1, <2>2
<1> QED BY <1>2, <1>3, <1>4 DEF BeatInv

-----------------------------------------------------------------------------
(* The steps of the read thread. A frame it takes is the first.                *)
LEMMA Taken ==
  ASSUME NEW S, NEW s \in Seq(S), s # << >>
  PROVE  /\ Tail(s) \in Seq(S) /\ Head(s) = s[1] /\ Len(s) \in Nat \ {0} /\ Len(Tail(s)) = Len(s) - 1
         /\ \A n \in 1..Len(Tail(s)) : n + 1 \in 1..Len(s) /\ Tail(s)[n] = s[n + 1]
OBVIOUS

LEMMA Added ==
  ASSUME NEW S, NEW s \in Seq(S), NEW e
  PROVE  /\ Append(s, e) \in Seq(S \cup {e}) /\ Len(s) \in Nat /\ Len(Append(s, e)) = Len(s) + 1
         /\ \A n \in 1..Len(s) : Append(s, e)[n] = s[n]
         /\ Append(s, e)[Len(s) + 1] = e
<1>1. s \in Seq(S \cup {e})
  OBVIOUS
<1> QED BY <1>1

LEMMA ReceivesIs ==
  ASSUME Threads, DOMAIN wire = Conn, NumConns = 1, NEW k, Receives(1, k)
  PROVE  /\ \E S : wire'[1] \in Seq(S)
         /\ Ordinary(wire'[1])
         /\ k # "close" /\ (k = "request" => Head(wire[1]).request \in Requests) /\ ReaderAt = "recv" /\ pinged' = pinged
         /\ ~ Clear(wire[1]) \/ k # "pong"
         /\ k # "pong" => (Clear(wire'[1]) <=> Clear(wire[1]))
<1>1. PICK S : wire[1] \in Seq(S)
  BY DEF Threads
<1> DEFINE s == wire[1]
           t == wire'[1]
<1>2. s # << >> /\ Head(s).kind = k /\ ReaderAt = "recv" /\ pinged' = pinged
  BY DEF Receives, ReaderAt
<1>3. t = Tail(s)
  BY DEF Receives, Conn
<1>4. /\ t \in Seq(S) /\ Head(s) = s[1] /\ s[1].kind = k /\ Len(s) \in Nat \ {0} /\ Len(t) = Len(s) - 1
      /\ \A n \in 1..Len(t) : n + 1 \in 1..Len(s) /\ t[n] = s[n + 1]
  BY <1>1, <1>2, <1>3, Taken
<1>5. Ordinary(s)
  BY DEF Threads
<1> HIDE DEF s, t
<1>6. 1 \in 1..Len(s) /\ \A n \in 1..Len(s) : n # 1 => n - 1 \in 1..Len(t) /\ t[n - 1] = s[n]
  BY <1>4
<1>7. Ordinary(t) /\ k # "close" /\ (k = "request" => Head(s).request \in Requests)
  BY <1>4, <1>5, <1>6 DEF Ordinary
<1>8. ~ Clear(s) \/ k # "pong"
  BY <1>4, <1>5, <1>6 DEF Clear, Ordinary
<1>9. k # "pong" => (Clear(t) <=> Clear(s))
  <2>1. Frame("pong").kind = "pong"
    BY DEF Frame
  <2> QED BY <1>4, <1>6, <2>1 DEF Clear
<1> QED BY <1>2, <1>4, <1>7, <1>8, <1>9 DEF s, t

LEMMA ReaderGoes ==
  ASSUME TellInv, NumConns = 1, NEW step \in Steps, Goto("reader", 1, step)
  PROVE  /\ ReaderAt' = step
         /\ \A s \in Roles : s # "reader" => pc'[s][1] = pc[s][1]
         /\ pc'["writer"][1] = pc["writer"][1] /\ WriterAt' = WriterAt
         /\ \A r \in Requests : pc'[r][1] = pc[r][1]
<1>1. "reader" \in Roles /\ "writer" \in Roles /\ \A r \in Requests : r \in Roles /\ r # "reader"
  BY ClientAssumption DEF Roles
<1> QED BY <1>1, GotoIs DEF TellInv, ReaderAt, WriterAt

(* A pong that is stored explains itself.                                    *)
LEMMA PongStored ==
  ASSUME TellInv, BeatInv, NumConns = 1, link[1] = "up",
         ReaderAt = "beatPong", BeatPong("reader", 1, times["reader"][1], "check")
  PROVE  Held' /\ Timing'
<1>1. /\ Threads /\ Held /\ Timing /\ BeatTypes
      /\ server' = server /\ wire' = wire /\ pinged' = pinged
      /\ beat' = ReaderTimes
      /\ lost' = IF Updating THEN lost ELSE 0
      /\ waited' = IF Updating THEN waited ELSE ReaderTimes.pong
  BY DEF BeatInv, BeatPong, statics, net, NewPong, ReaderTimes
<1>2. "reader" \in Roles /\ "writer" \in Roles /\ 1 \in Conn /\ Conn = {1} /\ "check" \in Steps
  BY DEF Roles, Conn, Steps
<1>3. pc'["writer"][1] = pc["writer"][1] /\ WriterAt' = WriterAt /\ ReaderAt' = "check"
  BY <1>2, ReaderGoes DEF BeatPong
<1>4. WriterTimes' = WriterTimes /\ ReaderTimes' = Now
  BY <1>1, <1>2 DEF BeatPong, Forget, BeatTypes, WriterTimes, ReaderTimes
<1>5. HasPong /\ ~ HasPong' /\ (NoPong' => NoneComes)
  BY <1>1, <1>3 DEF HasPong, NoPong, NoneComes, Clear
<1>6. Updating <=> WriterAt = "beatPing"
  BY <1>2 DEF Updating, WriterAt
<1>7. /\ waited \in Nat /\ ReaderTimes.pong \in Nat /\ ReaderTimes.pong <= waited
      /\ beat'.pong \in Nat /\ beat'.pong <= waited' /\ waited' \in Nat
  BY <1>1, <1>5, UndoneIs, AgesAre DEF Held
<1>8. Undone' \in Nat /\ Period \in Nat /\ Period' = Period
  <2>1. Undone \in Nat /\ Period \in Nat /\ (lost' = lost => Undone' = Undone)
        /\ (lost' = 0 => Undone' = 0)
    BY <1>1, UndoneIs
  <2> QED BY <1>1, <2>1 DEF Period
<1>9. Bounded(beat)'
  BY <1>7, <1>8 DEF Bounded
<1>10. Held'
  BY <1>4, <1>5 DEF Held
<1>11. CASE server = 0
  BY <1>1, <1>3, <1>10, <1>11 DEF Timing
<1>12. CASE server = 1 /\ OnTime
  <2>1. ~ NoPong
    BY <1>5 DEF NoPong
  <2>2. Fresh /\ NoPong' => beat'.pong = 0
    BY <1>1, <1>5 DEF Fresh
  <2>3. Fresh'
    BY <1>5 DEF Fresh
  <2>4. CASE WriterAt \in {"check", "look", "fetch", "alive", "pinging"}
    <3>1. beat'.ping \in Nat
      BY <1>1, AgesAre DEF Beat
    <3>2. Explained(beat)'
      BY <1>7, <1>8, <3>1 DEF Explained
    <3> QED BY <1>1, <1>3, <1>7, <1>9, <1>10, <1>12, <2>4, <3>2 DEF Timing, OnTime
  <2>5. CASE WriterAt = "beat"
    BY <1>1, <1>3, <1>9, <1>10, <1>12, <2>2, <2>3, <2>5 DEF Timing, OnTime
  <2>6. CASE WriterAt = "beatPing"
    <3>1. Bounded(WriterTimes) /\ lost' = lost /\ waited' = waited /\ Fresh
      BY <1>1, <1>6, <1>12, <2>6 DEF OnTime
    <3>2. Bounded(WriterTimes)'
      BY <1>4, <3>1 DEF Bounded, Undone, Period
    <3> QED BY <1>1, <1>3, <1>9, <1>10, <1>12, <2>2, <2>3, <2>6, <3>1, <3>2 DEF Timing, OnTime
  <2>7. CASE WriterAt = "sleep"
    <3>1. Least(beat'.ping, PingAfter) \in Nat
      <4>1. beat'.ping \in Nat
        BY <1>1, AgesAre DEF Beat
      <4> QED BY <4>1, ClientAssumption DEF Least
    <3>2. beat'.pong <= Undone' + waited' + Least(beat'.ping, PingAfter)
      BY <1>7, <1>8, <3>1
    <3> QED BY <1>1, <1>3, <1>9, <1>10, <1>12, <2>7, <3>2 DEF Timing, OnTime
  <2>8. CASE WriterAt \in {"close", "report", "clear"}
    BY <1>1, <1>3, <1>9, <1>10, <1>12, <2>8 DEF Timing, OnTime
  <2> QED BY <1>12, <2>1, <2>4, <2>5, <2>6, <2>7, <2>8 DEF OnTime
<1> QED BY <1>1, <1>11, <1>12 DEF Timing

LEMMA ReaderAges ==
  ASSUME BeatTypes, NEW i \in Conn, Reader(i)
  PROVE  BeatTypes'
<1>1. "reader" \in Roles /\ times["reader"][i] \in Beat /\ beat \in Beat
  BY AgesStay DEF Roles, BeatTypes
<1>2. CASE UNCHANGED beats
  BY <1>2 DEF beats, BeatTypes
<1>3. ASSUME NEW next, BeatRead("reader", i, times["reader"][i].pong, next)
      PROVE  BeatTypes'
  BY <1>1, <1>3, AgesStay DEF BeatRead, BeatTypes
<1>4. ASSUME NEW next, BeatPong("reader", i, times["reader"][i], next)
      PROVE  BeatTypes'
  <2>1. beat' \in Beat /\ lost' \in Nat /\ waited' \in PongAges
    BY <1>1, <1>4 DEF BeatPong, NewPong, BeatTypes, Beat
  <2>2. times' \in [Roles -> [Conn -> Beat]]
    BY <1>1, <1>4, AgesStay DEF BeatPong, Forget
  <2> QED BY <2>1, <2>2 DEF BeatTypes
<1> QED
  BY <1>2, <1>3, <1>4
  DEF Reader, ThreadCheck, ReaderError, ReaderClose, ReaderPong, ReaderRequest, ReaderReply,
      Close, CloseLook, CloseReport, CloseClear

LEMMA RequestIs ==
  ASSUME TellInv, NumConns = 1, NEW q \in Requests,
         pc' = [pc EXCEPT ![q][1].at = "run", !["reader"][1].at = "check"]
  PROVE  /\ ReaderAt' = "check" /\ pc'["writer"][1] = pc["writer"][1]
         /\ \A r \in Requests : pc'[r][1].at \in {pc[r][1].at, "run"}
<1>1. /\ "reader" \in Roles /\ "writer" \in Roles /\ 1 \in Conn /\ q \in Roles
      /\ q # "reader" /\ q # "writer" /\ \A r \in Requests : r \in Roles /\ r # "reader" /\ r # "writer"
  BY ClientAssumption DEF Roles, Conn
<1>2. pc \in [Roles -> [Conn -> [at : Steps, then : Steps]]] /\ "run" \in Steps /\ "check" \in Steps
  BY DEF TellInv, Types, Steps
<1> DEFINE begun == [pc EXCEPT ![q][1].at = "run"]
<1>3. pc' = [begun EXCEPT !["reader"][1].at = "check"]
  OBVIOUS
<1>4. /\ begun \in [Roles -> [Conn -> [at : Steps, then : Steps]]]
      /\ begun[q][1].at = "run" /\ \A s \in Roles : s # q => begun[s] = pc[s]
  BY <1>1, <1>2
<1> HIDE DEF begun
<1>5. pc'["reader"][1].at = "check" /\ \A s \in Roles : s # "reader" => pc'[s] = begun[s]
  <2>1. begun["reader"] \in [Conn -> [at : Steps, then : Steps]]
    BY <1>1, <1>4
  <2>2. pc'["reader"] = [begun["reader"] EXCEPT ![1].at = "check"]
    BY <1>1, <1>3, <1>4
  <2>3. pc'["reader"][1].at = "check"
    BY <1>1, <2>1, <2>2
  <2>4. \A s \in Roles : s # "reader" => pc'[s] = begun[s]
    BY <1>1, <1>3, <1>4
  <2> QED BY <2>3, <2>4
<1> QED BY <1>1, <1>4, <1>5 DEF ReaderAt

LEMMA ReaderOnTime ==
  ASSUME TellInv, BeatInv, NumConns = 1, link[1] = "up", Reader(1)
  PROVE  pc'["writer"][1] = pc["writer"][1] /\ Threads' /\ Held' /\ Timing'
<1>1. /\ Threads /\ Held /\ Timing /\ BeatTypes /\ DOMAIN wire = Conn /\ 1 \in Conn
      /\ ReaderAt \notin {"close", "report", "clear"}
  BY DEF BeatInv, Callers, Threads, Conn
<1>2. ASSUME NEW step \in {"check", "recv", "pong", "beatPong", "ended"}, Goto("reader", 1, step),
             server' = server, \E S : wire'[1] \in Seq(S), Ordinary(wire'[1]),
             step = "ended" => server = 0
      PROVE  Threads' /\ WriterAt' = WriterAt /\ pc'["writer"][1] = pc["writer"][1] /\ ReaderAt' = step
  <2>1. step \in Steps
    BY DEF Steps
  <2>2. /\ ReaderAt' = step /\ WriterAt' = WriterAt /\ pc'["writer"][1] = pc["writer"][1]
        /\ \A r \in Requests : pc'[r][1] = pc[r][1]
    BY <1>2, <2>1, ReaderGoes
  <2> QED BY <1>1, <1>2, <2>2 DEF Threads
<1>3. ASSUME pc'["writer"][1] = pc["writer"][1], Threads', ~ HasPong, ~ HasPong',
             UNCHANGED <<server, beats, pinged>>, Clear(wire'[1]) <=> Clear(wire[1])
      PROVE  Held' /\ Timing'
  <2>1. UNCHANGED <<server, beat, lost, waited>> /\ WriterTimes' = WriterTimes /\ ReaderTimes' = ReaderTimes
    BY <1>3 DEF beats, WriterTimes, ReaderTimes
  <2>2. (NoPong' <=> NoPong) /\ Fresh'
    BY <1>3 DEF NoPong, NoneComes, Clear, Fresh
  <2>3. Held'
    BY <1>1, <1>3, <2>1 DEF Held
  <2> QED BY <1>1, <1>3, <2>1, <2>2, <2>3, TimingStays
<1>4. CASE ThreadCheck("reader", 1, "recv")
  <2>1. /\ ReaderAt = "check" /\ Goto("reader", 1, IF Open THEN "recv" ELSE "ended")
        /\ UNCHANGED <<statics, beats, net>>
    BY <1>4 DEF ThreadCheck, ReaderAt
  <2>2. server' = server /\ wire' = wire /\ pinged' = pinged
    BY <2>1 DEF statics, net
  <2>3. PICK step \in {"recv", "ended"} : Goto("reader", 1, step) /\ (step = "ended" => server = 0)
    BY <2>1 DEF Open
  <2>4. Threads' /\ pc'["writer"][1] = pc["writer"][1] /\ ReaderAt' = step
    BY <1>1, <1>2, <2>2, <2>3 DEF Threads
  <2> QED BY <1>3, <2>1, <2>2, <2>3, <2>4 DEF HasPong, Clear
<1>5. CASE ReaderError(1) \/ ReaderClose(1) \/ Close("reader", 1)
  <2>1. CASE ReaderError(1)
    BY <2>1 DEF ReaderError
  <2>2. CASE ReaderClose(1)
    BY <1>1, <2>2, ReceivesIs DEF ReaderClose
  <2>3. CASE Close("reader", 1)
    BY <1>1, <2>3 DEF Close, CloseLook, CloseReport, CloseClear, ReaderAt
  <2> QED BY <1>5, <2>1, <2>2, <2>3
<1>6. CASE ReaderPong(1)
  <2>1. CASE Receives(1, "pong") /\ Goto("reader", 1, "pong") /\ UNCHANGED <<statics, beats, sender, reports>>
    <3>1. /\ \E S : wire'[1] \in Seq(S)
          /\ Ordinary(wire'[1]) /\ ~ Clear(wire[1]) /\ ReaderAt = "recv"
      BY <1>1, <2>1, ReceivesIs
    <3>2. UNCHANGED <<server, beat, lost, waited>> /\ WriterTimes' = WriterTimes /\ ReaderTimes' = ReaderTimes
      BY <2>1 DEF statics, beats, WriterTimes, ReaderTimes
    <3>3. Threads' /\ pc'["writer"][1] = pc["writer"][1] /\ ReaderAt' = "pong"
      BY <1>2, <2>1, <3>1, <3>2
    <3>4. ~ NoPong /\ ~ NoPong' /\ HasPong' /\ ~ HasPong
      BY <3>1, <3>3 DEF NoPong, NoneComes, HasPong
    <3>5. ReaderTimes'.pong = 0 /\ 0 <= waited /\ waited' = waited
      BY <1>1, <3>2, <3>4, UndoneIs DEF Held, Now
    <3>6. Held' /\ Fresh'
      BY <3>4, <3>5 DEF Held, Fresh
    <3> QED BY <1>1, <3>2, <3>3, <3>4, <3>6, TimingStays
  <2>2. CASE pc["reader"][1].at = "pong" /\ BeatRead("reader", 1, times["reader"][1].pong, "beatPong")
    <3>1. /\ UNCHANGED <<server, beat, lost, waited>> /\ wire' = wire /\ pinged' = pinged
          /\ Goto("reader", 1, "beatPong")
      BY <2>2 DEF BeatRead, statics, net
    <3>2. WriterTimes' = WriterTimes /\ ReaderTimes'.pong = ReaderTimes.pong
      <4>1. "reader" \in Roles /\ "writer" \in Roles
        BY DEF Roles
      <4> QED BY <1>1, <2>2, <4>1 DEF BeatRead, BeatTypes, WriterTimes, ReaderTimes
    <3>3. Threads' /\ pc'["writer"][1] = pc["writer"][1] /\ ReaderAt' = "beatPong"
      BY <1>1, <1>2, <3>1 DEF Threads
    <3>4. HasPong /\ HasPong' /\ (NoneComes' <=> NoneComes)
      BY <2>2, <3>1, <3>3 DEF HasPong, ReaderAt, NoneComes, Clear
    <3>5. Held' /\ (Fresh => Fresh') /\ (NoPong' <=> NoPong)
      BY <1>1, <3>1, <3>2, <3>4 DEF Held, Fresh, NoPong
    <3> QED BY <1>1, <3>1, <3>2, <3>3, <3>5, TimingStays
  <2>3. CASE pc["reader"][1].at = "beatPong" /\ BeatPong("reader", 1, times["reader"][1], "check")
    <3>1. server' = server /\ wire' = wire /\ Goto("reader", 1, "check") /\ ReaderAt = "beatPong"
      BY <2>3 DEF BeatPong, statics, net, ReaderAt
    <3>2. Threads' /\ pc'["writer"][1] = pc["writer"][1]
      BY <1>1, <1>2, <3>1 DEF Threads
    <3> QED BY <2>3, <3>1, <3>2, PongStored
  <2> QED BY <1>6, <2>1, <2>2, <2>3 DEF ReaderPong
<1>7. CASE ReaderRequest(1)
  <2> DEFINE q == Head(wire[1]).request
  <2>1. /\ \E S : wire'[1] \in Seq(S)
        /\ Ordinary(wire'[1]) /\ pinged' = pinged /\ ReaderAt = "recv" /\ q \in Requests
        /\ Clear(wire'[1]) <=> Clear(wire[1])
    BY <1>1, <1>7, ReceivesIs DEF ReaderRequest
  <2>2. /\ pc' = [pc EXCEPT ![q][1].at = "run", !["reader"][1].at = "check"]
        /\ server' = server /\ UNCHANGED beats
    BY <1>7 DEF ReaderRequest, statics
  <2> HIDE DEF q
  <2>3. /\ ReaderAt' = "check" /\ pc'["writer"][1] = pc["writer"][1]
        /\ \A r \in Requests : pc'[r][1].at \in {pc[r][1].at, "run"}
    BY <2>1, <2>2, RequestIs
  <2>4. Threads'
    BY <1>1, <2>1, <2>2, <2>3 DEF Threads
  <2> QED BY <1>3, <2>1, <2>2, <2>3, <2>4 DEF HasPong
<1>8. CASE ReaderReply(1)
  <2>1. /\ \E S : wire'[1] \in Seq(S)
        /\ Ordinary(wire'[1]) /\ pinged' = pinged /\ ReaderAt = "recv"
        /\ Clear(wire'[1]) <=> Clear(wire[1])
    BY <1>1, <1>8, ReceivesIs DEF ReaderReply
  <2>2. Goto("reader", 1, "check") /\ server' = server /\ UNCHANGED beats
    BY <1>8 DEF ReaderReply, statics
  <2>3. Threads' /\ pc'["writer"][1] = pc["writer"][1] /\ ReaderAt' = "check"
    BY <1>2, <2>1, <2>2
  <2> QED BY <1>3, <2>1, <2>2, <2>3 DEF HasPong
<1> QED BY <1>4, <1>5, <1>6, <1>7, <1>8 DEF Reader

LEMMA HandlerOnTime ==
  ASSUME TellInv, BeatInv, NumConns = 1, NEW r \in Requests, Handler(r, 1)
  PROVE  BeatInv'
<1>1. /\ r \in Roles /\ "reader" \in Roles /\ "writer" \in Roles /\ r # "reader" /\ r # "writer"
      /\ "ended" \in Steps /\ 1 \in Conn /\ "report" \in Steps /\ "clear" \in Steps
      /\ \A q \in Requests : q \in Roles
  BY ClientAssumption DEF Roles, Steps, Conn
<1>2. /\ wire' = wire /\ pinged' = pinged /\ link' = link /\ caller' = caller
      /\ beat' = beat /\ lost' = lost /\ waited' = waited /\ times' = times
  BY DEF Handler, Close, CloseLook, CloseReport, CloseClear, sender, beats, net
<1>3. pc'["writer"][1] = pc["writer"][1] /\ pc'["reader"][1] = pc["reader"][1]
  <2>1. PICK step : pc' = [pc EXCEPT ![r][1].at = step] \/ pc' = [pc EXCEPT ![r][1] = step]
    BY DEF Handler, SendThen, Close, CloseLook, CloseReport, CloseClear, Goto, CloseThen
  <2> QED BY <1>1, <2>1 DEF TellInv, Types
<1>4. BeatTypes' /\ Callers'
  BY <1>2, <1>3 DEF BeatInv, BeatTypes, Callers, WriterAt, ReaderAt
<1>5. ASSUME link[1] = "up"
      PROVE  Threads' /\ Held' /\ Timing'
  <2>1. Threads /\ Held /\ Timing
    BY <1>5 DEF BeatInv
  <2>2. ~ Close(r, 1)
    BY <2>1 DEF Threads, Close, CloseLook, CloseReport, CloseClear
  <2>3. Goto(r, 1, "ended") /\ server' = server
    <3>1. SendThen(r, 1, FALSE, "ended") /\ server' = server
      BY <2>2 DEF Handler, statics
    <3> QED BY <1>5, <2>1, <3>1, SendIs DEF Threads
  <2>4. \A q \in Requests : pc'[q][1].at \in {pc[q][1].at, "ended"}
    BY <1>1, <2>3, GotoIs DEF TellInv
  <2>5. Threads'
    BY <1>2, <1>3, <2>1, <2>3, <2>4 DEF Threads, ReaderAt
  <2>6. (NoneComes' <=> NoneComes) /\ (HasPong' <=> HasPong)
        /\ WriterTimes' = WriterTimes /\ ReaderTimes' = ReaderTimes
    BY <1>2, <1>3 DEF NoneComes, Clear, HasPong, ReaderAt, WriterTimes, ReaderTimes
  <2>7. Held' /\ (NoPong' <=> NoPong) /\ (Fresh => Fresh')
    BY <1>2, <2>1, <2>6 DEF Held, NoPong, Fresh
  <2> QED BY <1>2, <1>3, <2>1, <2>3, <2>5, <2>6, <2>7, TimingStays
<1> QED BY <1>2, <1>4, <1>5 DEF BeatInv

(* A frame that is sent is the last, and a server that answers a ping has a       *)
(* pong on its way from then on.                                            *)
LEMMA ServerOnTime ==
  ASSUME TellInv, BeatInv, NumConns = 1, Server(1)
  PROVE  BeatInv'
<1>1. 1 \in Conn /\ link \in [Conn -> Links]
  BY DEF Conn, TellInv, Types
<1>2. /\ pc' = pc /\ caller' = caller /\ server' = server
      /\ beat' = beat /\ lost' = lost /\ waited' = waited /\ times' = times
  BY DEF Server, Others, statics, beats, sender
<1>3. DOMAIN wire' = Conn
  <2>1. DOMAIN wire = Conn
    BY DEF BeatInv, Callers
  <2>2. wire' = wire \/ \E v : wire' = [wire EXCEPT ![1] = v]
    BY DEF Server, ServerPong, ServerAnswer, ServerCloses, ServerLost, ServerRequest, Sends
  <2> QED BY <2>1, <2>2
<1>4. BeatTypes' /\ Callers'
  BY <1>2, <1>3 DEF BeatInv, BeatTypes, Callers, WriterAt, ReaderAt
<1>5. ASSUME link'[1] = "up"
      PROVE  Threads' /\ Held' /\ Timing'
  <2>1. /\ ServerPong(1) \/ ServerAnswer(1) \/ \E r \in Requests : ServerRequest(r, 1)
        /\ link' = link
    BY <1>1, <1>5 DEF Server, ServerPong, ServerAnswer, ServerRequest, ServerCloses, ServerLost
  <2>2. Threads /\ Held /\ Timing /\ link[1] = "up"
    BY <1>5, <2>1 DEF BeatInv
  <2>3. PICK f : /\ wire' = [wire EXCEPT ![1] = Append(@, f)]
                 /\ f.kind # "close" /\ (f.kind = "request" => f.request \in Requests)
                 /\ \/ 1 \in pinged /\ f = Frame("pong")
                    \/ f.kind # "pong" /\ pinged' = pinged
    <3> DEFINE Sent(f) ==
          /\ wire' = [wire EXCEPT ![1] = Append(@, f)]
          /\ f.kind # "close" /\ (f.kind = "request" => f.request \in Requests)
          /\ \/ 1 \in pinged /\ f = Frame("pong")
             \/ f.kind # "pong" /\ pinged' = pinged
    <3> SUFFICES \E f : Sent(f)
      OBVIOUS
    <3>1. CASE ServerPong(1)
      <4>1. Sent(Frame("pong"))
        BY <3>1 DEF ServerPong, Sends, Frame
      <4> HIDE DEF Sent
      <4> QED BY <4>1
    <3>2. CASE ServerAnswer(1)
      <4>1. PICK t \in asked[1] : Sends(1, Reply(t)) /\ pinged' = pinged
        BY <3>2 DEF ServerAnswer
      <4>2. Sent(Reply(t))
        BY <4>1 DEF Sends, Reply
      <4> HIDE DEF Sent
      <4> QED BY <4>2
    <3>3. ASSUME NEW r \in Requests, ServerRequest(r, 1)
          PROVE  \E f : Sent(f)
      <4>1. Sent(Request(r))
        BY <3>3 DEF ServerRequest, Sends, Request
      <4> HIDE DEF Sent
      <4> QED BY <4>1
    <3> QED BY <2>1, <3>1, <3>2, <3>3, Zenon
  <2>4. PICK S : wire[1] \in Seq(S)
    BY <2>2 DEF Threads
  <2> DEFINE s == wire[1]
             t == wire'[1]
  <2>5. t = Append(s, f)
    BY <1>1, <2>3 DEF BeatInv, Callers
  <2>6. /\ t \in Seq(S \cup {f}) /\ Len(s) \in Nat /\ Len(t) = Len(s) + 1
        /\ (\A n \in 1..Len(s) : t[n] = s[n]) /\ t[Len(s) + 1] = f
    BY <2>4, <2>5, Added
  <2>7. Ordinary(s)
    BY <2>2 DEF Threads
  <2> HIDE DEF s, t
  <2>8. Ordinary(t) /\ (f = Frame("pong") => ~ Clear(t)) /\ (f # Frame("pong") => (Clear(t) <=> Clear(s)))
    <3>1. \A n \in 1..Len(t) : n \in 1..Len(s) \/ n = Len(s) + 1
      BY <2>6
    <3>2. \A n \in 1..Len(s) : n \in 1..Len(t)
      BY <2>6
    <3>3. Len(s) + 1 \in 1..Len(t)
      BY <2>6
    <3> QED BY <2>3, <2>6, <2>7, <3>1, <3>2, <3>3 DEF Ordinary, Clear
  <2>9. Threads'
    BY <1>2, <2>2, <2>6, <2>8 DEF Threads, ReaderAt, t
  <2>10. (NoneComes' <=> NoneComes) /\ (HasPong' <=> HasPong)
    <3>1. f.kind # "pong" => f # Frame("pong")
      BY DEF Frame
    <3>2. NoneComes' <=> 1 \notin pinged' /\ Clear(t)
      BY DEF NoneComes, Clear, t
    <3> QED BY <1>2, <2>3, <2>8, <3>1, <3>2 DEF NoneComes, HasPong, ReaderAt, s
  <2>11. Held' /\ (NoPong' <=> NoPong) /\ (Fresh => Fresh')
    BY <1>2, <2>2, <2>10 DEF Held, NoPong, Fresh, ReaderTimes
  <2> QED BY <1>2, <2>2, <2>9, <2>11, TimingStays DEF WriterTimes
<1> QED BY <1>4, <1>5 DEF BeatInv

LEMMA ConnectOnTime ==
  ASSUME TellInv, BeatInv, NumConns = 1, ConnectSpawn(1)
  PROVE  BeatInv'
<1>1. 1 \in Conn /\ "writer" \in Roles /\ "reader" \in Roles
      /\ \A r \in Requests : r \in Roles /\ r # "writer" /\ r # "reader"
  BY ClientAssumption DEF Conn, Roles
<1>2. WriterAt = "none" /\ caller[1].at = "absent"
  BY DEF ConnectSpawn, BeatInv, Callers
<1>3. /\ link' = link /\ wire' = wire /\ pinged' = pinged /\ server' = server
      /\ beat' = beat /\ times' = times /\ lost' = lost /\ waited' = waited
  BY DEF ConnectSpawn, net, beats
<1>4. WriterAt' = "start" /\ ReaderAt' = "check" /\ \A r \in Requests : pc'[r][1] = pc[r][1]
  <2>1. pc \in [Roles -> [Conn -> [at : Steps, then : Steps]]]
    BY DEF TellInv, Types
  <2> DEFINE begun == [pc EXCEPT !["writer"][1].at = "start"]
  <2>2. pc' = [begun EXCEPT !["reader"][1].at = "check"]
    BY DEF ConnectSpawn
  <2>3. begun["writer"][1].at = "start" /\ (\A s \in Roles : s # "writer" => begun[s] = pc[s])
        /\ DOMAIN begun = Roles
    BY <1>1, <2>1
  <2> HIDE DEF begun
  <2>4. pc'["reader"] = [pc["reader"] EXCEPT ![1].at = "check"]
    BY <1>1, <2>2, <2>3
  <2>5. \A s \in Roles : s # "reader" => pc'[s] = begun[s]
    BY <2>2, <2>3
  <2> QED BY <1>1, <2>1, <2>3, <2>4, <2>5 DEF WriterAt, ReaderAt
<1>5. BeatTypes' /\ Callers'
  <2>1. caller' = [caller EXCEPT ![1].at = "idle"]
    BY DEF ConnectSpawn
  <2> QED BY <1>1, <1>3, <2>1 DEF BeatInv, BeatTypes, Callers
<1>6. ASSUME link[1] = "up"
      PROVE  Threads' /\ Held' /\ Timing'
  <2>1. Threads /\ Held /\ Timing
    BY <1>6 DEF BeatInv
  <2>2. server = 1 /\ NoPong /\ beat = Now /\ lost = 0 /\ waited = 0 /\ WriterTimes = Now
    BY <1>2, <2>1 DEF Timing, OnTime
  <2>3. NoPong' /\ ~ HasPong' /\ ReaderTimes' = Now
    BY <1>3, <1>4, <2>1, <2>2 DEF NoPong, NoneComes, HasPong, Clear, Held, ReaderTimes
  <2>4. Threads' /\ Held'
    BY <1>3, <1>4, <2>1, <2>3 DEF Threads, Held
  <2>5. Bounded(beat)'
    BY <1>3, <2>1, <2>2, ExplainedStays DEF Timing
  <2> QED BY <2>5, <1>3, <1>4, <2>2, <2>3, <2>4 DEF Timing, OnTime, WriterTimes
<1> QED BY <1>3, <1>5, <1>6 DEF BeatInv

(* Before a client connects nothing has happened.                           *)
Unused ==
  /\ \A r \in Roles : pc[r][1].at = "none"
  /\ wire[1] = << >> /\ pinged = {}
  /\ beat = Now /\ lost = 0 /\ waited = 0 /\ WriterTimes = Now /\ ReaderTimes = Now

LEMMA Connected ==
  ASSUME TellInv, BeatInv, NumConns = 1, Connect(1), Unused
  PROVE  BeatInv'
<1>1. /\ link' = [link EXCEPT ![1] = "up"] /\ server' = 1 /\ pc' = pc /\ wire' = wire /\ pinged' = pinged
      /\ beat' = beat /\ times' = times /\ lost' = lost /\ waited' = waited /\ caller' = caller
  BY DEF Connect, beats, sender
<1>2. BeatTypes' /\ Callers'
  BY <1>1 DEF BeatInv, BeatTypes, Callers, WriterAt, ReaderAt
<1>3. /\ "writer" \in Roles /\ "reader" \in Roles /\ \A r \in Requests : r \in Roles
  BY DEF Roles
<1>4. WriterAt' = "none" /\ ReaderAt' = "none" /\ \A r \in Requests : pc'[r][1].at = "none"
  BY <1>1, <1>3 DEF Unused, WriterAt, ReaderAt
<1>5. wire'[1] = << >> /\ wire'[1] \in Seq(Nat) /\ Len(wire'[1]) = 0
  <2>1. wire'[1] = << >>
    BY <1>1 DEF Unused
  <2>2. << >> \in Seq(Nat) /\ Len(<< >>) = 0
    OBVIOUS
  <2> QED BY <2>1, <2>2, Zenon
<1>6. Threads'
  BY <1>1, <1>4, <1>5 DEF Threads, Ordinary
<1>7. NoPong' /\ ~ HasPong'
  BY <1>1, <1>4, <1>5 DEF NoPong, NoneComes, HasPong, Clear, Unused
<1>8. Held'
  BY <1>1, <1>7 DEF Held, Unused, ReaderTimes
<1>9. Bounded(beat)'
  <2>1. beat'.pong = 0 /\ waited' = 0 /\ Undone' = Undone /\ Undone \in Nat /\ Period \in Nat
    BY <1>1, UndoneIs DEF Unused, Now, BeatInv
  <2> QED BY <2>1 DEF Bounded, Period
<1>10. Timing'
  BY <1>1, <1>4, <1>7, <1>9 DEF Unused, Timing, OnTime, WriterTimes
<1> QED BY <1>2, <1>6, <1>8, <1>10 DEF BeatInv

LEMMA UnusedStays ==
  ASSUME TellInv, NumConns = 1, [Next]_vars, link'[1] = "none", link[1] = "none" => Unused
  PROVE  Unused'
<1>1. 1 \in Conn /\ Conn = {1} /\ link \in [Conn -> Links]
  BY DEF Conn, TellInv, Types
<1>2. link[1] = "none"
  <2>1. SUFFICES ASSUME link' # link PROVE link[1] = "none"
    OBVIOUS
  <2>2. CASE WriterSend(1)
    BY <1>1, <2>1, <2>2 DEF WriterSend, Reaches
  <2>3. CASE Connect(1)
    BY <2>3 DEF Connect
  <2>4. CASE Server(1)
    BY <1>1, <2>1, <2>4 DEF Server, ServerPong, ServerAnswer, ServerCloses, ServerLost, ServerRequest, Sends
  <2>5. CASE ~ WriterSend(1) /\ ~ Connect(1) /\ ~ Server(1)
    <3>1. CASE ConnectSpawn(1) \/ CallSend(1) \/ CallStep(1) \/ RequestShutdown(1) \/ UNCHANGED vars
      BY <2>1, <3>1 DEF ConnectSpawn, CallSend, CallStep, CallReturn, CallFails, RequestShutdown, vars, net
    <3>2. CASE Writer(1)
      BY <2>1, <2>5, <3>2
      DEF Writer, WriterStart, ThreadCheck, WriterLook, WriterIdle, WriterAlive, WriterPing, WriterBeat,
          WriterSleep, Close, CloseLook, CloseReport, CloseClear, BeatRead, BeatPing, BeatPong, net
    <3>3. CASE Reader(1)
      BY <2>1, <3>3
      DEF Reader, ThreadCheck, ReaderError, ReaderClose, ReaderPong, ReaderRequest, ReaderReply, Receives,
          Close, CloseLook, CloseReport, CloseClear, BeatRead, BeatPong, net
    <3>4. ASSUME NEW r \in Requests, Handler(r, 1)
          PROVE  link' = link
      BY <3>4 DEF Handler, Close, CloseLook, CloseReport, CloseClear, net
    <3> QED BY <1>1, <2>1, <2>5, <3>1, <3>2, <3>3, <3>4 DEF Next, Step
  <2> QED BY <2>2, <2>3, <2>4, <2>5
<1>3. Unused /\ pc["writer"][1].at = "none" /\ pc["reader"][1].at = "none"
  BY <1>2 DEF Unused, Roles
<1>4. ~ Writer(1) /\ ~ Reader(1) /\ ~ ConnectSpawn(1) /\ ~ Connect(1)
  <2>1. ~ Writer(1)
    BY <1>3 DEF Writer, WriterStart, ThreadCheck, WriterLook, WriterIdle, WriterSend, WriterAlive, WriterPing,
           WriterBeat, WriterSleep, Close, CloseLook, CloseReport, CloseClear
  <2>2. ~ Reader(1)
    BY <1>3 DEF Reader, ThreadCheck, ReaderError, ReaderClose, ReaderPong, ReaderRequest, ReaderReply, Receives,
           Close, CloseLook, CloseReport, CloseClear
  <2>3. ~ ConnectSpawn(1) /\ ~ Connect(1)
    BY <1>1, <1>2 DEF ConnectSpawn, Connect
  <2> QED BY <2>1, <2>2, <2>3
<1>5. ~ Server(1)
  BY <1>2, <1>3 DEF Server, ServerPong, ServerAnswer, ServerCloses, ServerLost, ServerRequest, Sends, Unused
<1>6. \A r \in Requests : ~ Handler(r, 1)
  BY <1>3 DEF Unused, Roles, Handler, Close, CloseLook, CloseReport, CloseClear
<1>7. /\ pc' = pc /\ wire' = wire /\ pinged' = pinged
      /\ beat' = beat /\ lost' = lost /\ waited' = waited /\ times' = times
  BY <1>1, <1>4, <1>5, <1>6 DEF Next, Step, CallSend, CallStep, CallReturn, CallFails, RequestShutdown, vars, net, beats
<1> QED BY <1>3, <1>7 DEF Unused, WriterTimes, ReaderTimes

LEMMA CallsOnTime ==
  ASSUME TellInv, BeatInv, NumConns = 1,
         CallSend(1) \/ CallStep(1) \/ RequestShutdown(1) \/ UNCHANGED vars
  PROVE  BeatInv'
<1>1. /\ pc' = pc /\ wire' = wire /\ pinged' = pinged /\ link' = link /\ server' = server
      /\ beat' = beat /\ lost' = lost /\ waited' = waited /\ times' = times
  BY DEF CallSend, CallStep, CallReturn, CallFails, RequestShutdown, vars, net, beats, statics
<1>2. Callers'
  <2>1. 1 \in Conn /\ caller \in [Conn -> [at : {"absent", "idle", "waiting"}, n : Nat]]
    BY DEF Conn, BeatInv, Callers
  <2>2. CASE CallSend(1)
    <3>1. caller' = [caller EXCEPT ![1] = [at |-> "waiting", n |-> @.n + 1]]
      BY <2>2 DEF CallSend
    <3> QED BY <1>1, <2>1, <3>1 DEF BeatInv, Callers, WriterAt, ReaderAt
  <2>3. CASE CallStep(1)
    <3>1. caller' = [caller EXCEPT ![1].at = "idle"]
      BY <2>3 DEF CallStep, CallReturn, CallFails
    <3> QED BY <1>1, <2>1, <3>1 DEF BeatInv, Callers, WriterAt, ReaderAt
  <2>4. CASE caller' = caller
    BY <1>1, <2>4 DEF BeatInv, Callers, WriterAt, ReaderAt
  <2> QED BY <2>2, <2>3, <2>4 DEF RequestShutdown, vars, sender
<1>3. BeatTypes'
  BY <1>1 DEF BeatInv, BeatTypes
<1>4. ASSUME link[1] = "up"
      PROVE  Threads' /\ Held' /\ Timing'
  <2>1. /\ Threads' /\ Held' /\ WriterTimes' = WriterTimes
        /\ (NoPong' <=> NoPong) /\ (Fresh => Fresh')
    BY <1>1, <1>4 DEF BeatInv, Threads, Held, NoPong, NoneComes, HasPong, Clear, Fresh, ReaderAt,
                      WriterTimes, ReaderTimes
  <2> QED BY <1>1, <1>4, <2>1, TimingStays DEF BeatInv
<1> QED BY <1>1, <1>2, <1>3, <1>4 DEF BeatInv

(* However long the two times are, and however the threads run, the pong on     *)
(* record of a client that connects once is as old as a period of pings, the    *)
(* pongs that were undone and the sleeps for an outstanding pong explain, and    *)
(* no older (update_heartbeat, client.rs:64-73, 141-150, 193-201).            *)
THEOREM PongAgeCorrect ==
  ASSUME NumConns = 1
  PROVE  Spec => []PongAgeExplained
<1> DEFINE Inv == BeatInv /\ (link[1] = "none" => Unused)
<1>1. 1 \in Conn /\ Conn = {1}
  BY DEF Conn
<1>2. Init => Inv
  <2> SUFFICES ASSUME Init PROVE Inv
    OBVIOUS
  <2>1. link[1] = "none"
    BY <1>1 DEF Init
  <2>2. BeatTypes
    BY ClientAssumption DEF Init, BeatTypes, Beat, PongAges, Now
  <2>3. Callers
    BY <1>1 DEF Init, Callers, WriterAt, ReaderAt, Roles
  <2>4. Unused
    BY <1>1 DEF Init, Unused, WriterTimes, ReaderTimes, Roles
  <2> QED BY <2>1, <2>2, <2>3, <2>4 DEF BeatInv
<1>3. TellInv /\ Inv /\ [Next]_vars => Inv'
  <2> SUFFICES ASSUME TellInv, Inv, [Next]_vars PROVE Inv'
    OBVIOUS
  <2>1. link'[1] = "none" => Unused'
    BY UnusedStays
  <2>2. CASE Writer(1)
    BY <2>1, <2>2, WriterOnTime
  <2>3. CASE Reader(1)
    <3>1. pc["reader"][1].at # "none"
      BY <2>3 DEF Reader, ThreadCheck, ReaderError, ReaderClose, ReaderPong, ReaderRequest, ReaderReply,
             Receives, Close, CloseLook, CloseReport, CloseClear
    <3>2. link' = link /\ caller' = caller /\ (wire' = wire \/ wire' = [wire EXCEPT ![1] = Tail(@)])
      BY <2>3 DEF Reader, ThreadCheck, ReaderError, ReaderClose, ReaderPong, ReaderRequest, ReaderReply,
             Receives, Close, CloseLook, CloseReport, CloseClear, BeatRead, BeatPong, net, sender
    <3>3. Callers'
      BY <3>1, <3>2 DEF BeatInv, Callers, ReaderAt
    <3>4. BeatTypes'
      BY <1>1, <2>3, ReaderAges DEF BeatInv
    <3>5. link'[1] = "up" => Threads' /\ Held' /\ Timing'
      BY <2>3, <3>2, ReaderOnTime
    <3> QED BY <2>1, <3>3, <3>4, <3>5 DEF BeatInv
  <2>4. ASSUME NEW r \in Requests, Handler(r, 1)
        PROVE  Inv'
    BY <2>1, <2>4, HandlerOnTime
  <2>5. CASE Server(1)
    BY <2>1, <2>5, ServerOnTime
  <2>6. CASE ConnectSpawn(1)
    BY <2>1, <2>6, ConnectOnTime
  <2>7. CASE Connect(1)
    BY <2>1, <2>7, Connected DEF Connect
  <2>8. CASE CallSend(1) \/ CallStep(1) \/ RequestShutdown(1) \/ UNCHANGED vars
    BY <2>1, <2>8, CallsOnTime
  <2> QED BY <1>1, <2>2, <2>3, <2>4, <2>5, <2>6, <2>7, <2>8 DEF Next, Step
<1>4. Inv => PongAgeExplained
  <2> SUFFICES ASSUME BeatInv, server = 1, link[1] = "up"
               PROVE  beat.pong <= (lost + 1) * (PingAfter + 1) + waited
    BY <1>1 DEF PongAgeExplained
  <2>1. beat.pong <= Undone + waited + Period
    BY DEF BeatInv, Timing, Bounded
  <2>2. /\ lost \in Nat /\ Period \in Nat /\ waited \in Nat /\ beat.pong \in Nat
        /\ Period = PingAfter + 1 /\ Undone = lost * Period
    BY UndoneIs, AgesAre DEF BeatInv, BeatTypes, Period, Undone
  <2>3. (lost + 1) * Period = lost * Period + Period /\ lost * Period \in Nat
    BY <2>2
  <2> QED BY <2>1, <2>2, <2>3
<1> HIDE DEF Inv
<1> QED BY <1>2, <1>3, <1>4, TellInvCorrect, PTL DEF Spec
=============================================================================
