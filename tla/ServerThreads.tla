--------------------------- MODULE ServerThreads ---------------------------
(***************************************************************************)
(* The two threads of slang-server and what they share.                    *)
(*                                                                         *)
(* The server thread runs the JSON-RPC loop: it reads one message from the *)
(* editor, handles it under the mutex and writes the reply to stdout.      *)
(* openWaveform makes it launch a waveform viewer, accept its connection   *)
(* and start the viewer thread (WcpClient::runClient), which reads the     *)
(* viewer's messages and handles them under the same mutex.  Both write    *)
(* frames of two pieces to stdout and to the viewer's socket.              *)
(*                                                                         *)
(* What a handler computes is left out; what it writes, where, and what it *)
(* holds meanwhile is kept.  Memory and stdin never run out.               *)
(***************************************************************************)
EXTENDS Naturals, Sequences

CONSTANTS
  None,
  Known,        \* the methods the editor uses: subset of Method
  Polite,       \* TRUE: the editor sends well-formed JSON, and only exit after shutdown
  MaxMessages,  \* bound: messages of the editor
  MaxEvents     \* bound: messages of the viewer

Thread == {"server", "viewer"}
Channel == {"stdout", "wcp"}

\* "query" and "didX" are any other request and notification with a handler,
\* "unknown" a request without one, "junk" content that does not parse.
Request == {"initialize", "shutdown", "openWaveform", "addToWaveform", "query", "unknown"}
Method == Request \cup {"exit", "didX", "junk"}

\* The viewer's messages: "greeting" (complete, version 0), events that write to
\* stdout (waveforms_loaded, goto_declaration) or to the viewer (add_drivers,
\* add_loads), and what is decoded and ignored.
Event == {"greeting", "goto", "drivers", "other"}

Message == [method : Method, id : Nat]
Piece == [msg : Event, last : BOOLEAN]

ASSUME ThreadsAssumption ==
  /\ None \notin Thread /\ None \notin Message /\ None \notin Event
  /\ Known \subseteq Method /\ Polite \in BOOLEAN
  /\ MaxMessages \in Nat /\ MaxEvents \in Nat

VARIABLES
  toServer,    \* messages of the editor the server has not read
  count,       \* how many messages the editor has sent; a request's id
  phase,       \* which loop of run(): "init", "serving", "down"
  pc,          \* [Thread -> where the thread is]
  ret,         \* [Thread -> where it goes after the frame it is writing]
  req,         \* the message the server thread handles
  answered,    \* ids of the requests answered
  mutex,       \* the thread that holds it, or None
  half,        \* [Channel -> SUBSET Thread]: who has written half a frame
  session,     \* m_wcpClient has a value
  running,     \* m_running
  conn,        \* m_clientFd: "none", "open", "closed"
  viewer,      \* the process: "none", "starting", "connecting", "connected", "gone"
  sent,        \* what the viewer has sent
  wire,        \* pieces in the socket
  recvBuffer,  \* pieces received and not yet part of a message taken
  taken,       \* the messages getMessage has returned
  ended        \* "no", or how the session with the editor ended

rpc == <<toServer, count, phase, req, answered>>
link == <<session, running, conn, viewer>>
stream == <<sent, wire, recvBuffer, taken>>
vars == <<toServer, count, phase, pc, ret, req, answered, mutex, half, session, running,
          conn, viewer, sent, wire, recvBuffer, taken, ended>>

-----------------------------------------------------------------------------
At(th, where) == ended = "no" /\ pc[th] = where

Goto(th, where) == pc' = [pc EXCEPT ![th] = where] /\ UNCHANGED ret

\* Mutant: the thread does not know where to go on.
FrameNoReturn(th, where, after) == Goto(th, where)

\* Write a frame to a channel, then go on at `after'.
Frame(th, where, after) ==
  /\ pc' = [pc EXCEPT ![th] = where]
  /\ ret' = [ret EXCEPT ![th] = after]

-----------------------------------------------------------------------------
(* The editor.                                                              *)

\* The server has taken the shutdown request.
ShuttingDown == phase = "down" \/ (phase = "serving" /\ req.method = "shutdown")

EditorSend(m) ==
  /\ ended = "no" /\ count < MaxMessages
  /\ Polite => /\ m # "junk" /\ (ShuttingDown <=> m = "exit")
               /\ \A i \in DOMAIN toServer : toServer[i].method \notin {"shutdown", "exit"}
  /\ count' = count + 1
  /\ toServer' = Append(toServer, [method |-> m, id |-> IF m \in Request THEN count + 1 ELSE 0])
  /\ UNCHANGED <<phase, pc, ret, req, answered, mutex, half, ended>>
  /\ UNCHANGED link /\ UNCHANGED stream

-----------------------------------------------------------------------------
(* The JSON-RPC loop: readJson and run().                                   *)

\* Messages run() or readJson answers itself, without the mutex: before
\* initialize, after shutdown, and what does not parse.
Rejected(m) ==
  \/ m = "junk"
  \/ phase = "init" /\ m # "initialize"
  \/ phase = "down" /\ m # "exit"

Read ==
  /\ At("server", "read") /\ toServer # <<>>
  /\ LET m == Head(toServer)
     IN  /\ req' = m /\ toServer' = Tail(toServer)
         /\ IF Rejected(m.method)
              THEN /\ Frame("server", "stdout1", "read")
                   /\ answered' = answered \cup ({m.id} \ {0})
                   /\ UNCHANGED ended
            ELSE IF phase = "down"
              THEN \* run() returns and main destroys the server; a session's thread
                   \* was never joined.
                   /\ ended' = IF session THEN "teardown" ELSE "exit"
                   /\ UNCHANGED <<pc, ret, answered>>
            ELSE Goto("server", "lock") /\ UNCHANGED <<answered, ended>>
  /\ UNCHANGED <<count, phase, mutex, half>> /\ UNCHANGED link /\ UNCHANGED stream

\* Mutant: the viewer thread takes no lock.
LockServerOnly(th) ==
  /\ At(th, "lock") /\ (th = "server" => mutex = None)
  /\ mutex' = (IF th = "server" THEN th ELSE mutex) /\ Goto(th, "handle")
  /\ UNCHANGED <<half, ended>> /\ UNCHANGED rpc /\ UNCHANGED link /\ UNCHANGED stream

Lock(th) ==
  /\ At(th, "lock") /\ mutex = None
  /\ mutex' = th /\ Goto(th, "handle")
  /\ UNCHANGED <<half, ended>> /\ UNCHANGED rpc /\ UNCHANGED link /\ UNCHANGED stream

Active == session /\ running

\* processMessage: the handler.  openWaveform decides on the session before it
\* tells the editor what it does.
Process ==
  /\ At("server", "handle")
  /\ CASE req.method = "openWaveform" ->
            Frame("server", "stdout1", IF Active THEN "load" ELSE "create")
       [] req.method = "addToWaveform" /\ Active -> Frame("server", "wcp1", "reply")
       [] req.method \in Request \ {"openWaveform", "unknown"}
            /\ ~(req.method = "addToWaveform" /\ Active) -> Goto("server", "reply")
       [] OTHER -> Goto("server", "unlock")
  /\ UNCHANGED <<mutex, half, ended>> /\ UNCHANGED rpc /\ UNCHANGED link /\ UNCHANGED stream

Reply ==
  /\ At("server", "reply")
  /\ Frame("server", "stdout1", "unlock")
  /\ answered' = answered \cup {req.id}
  /\ UNCHANGED <<toServer, count, phase, req, mutex, half, ended>>
  /\ UNCHANGED link /\ UNCHANGED stream

Unlock(th) ==
  /\ At(th, "unlock")
  /\ mutex' = None
  /\ Goto(th, IF th = "server" THEN "read" ELSE "poll")
  /\ phase' = IF th = "viewer" THEN phase
              ELSE CASE req.method = "initialize" /\ phase = "init" -> "serving"
                     [] req.method = "shutdown" -> "down"
                     [] OTHER -> phase
  /\ UNCHANGED <<toServer, count, req, answered, half, ended>>
  /\ UNCHANGED link /\ UNCHANGED stream

-----------------------------------------------------------------------------
(* Writing frames: the header and the body on stdout, the message and its   *)
(* null byte on the viewer's socket.                                        *)

WriteStdout(th) ==
  /\ \/ /\ At(th, "stdout1") /\ Goto(th, "stdout2")
        /\ half' = [half EXCEPT !["stdout"] = @ \cup {th}]
     \/ /\ At(th, "stdout2") /\ Goto(th, ret[th])
        /\ half' = [half EXCEPT !["stdout"] = @ \ {th}]
  /\ UNCHANGED <<mutex, ended>> /\ UNCHANGED rpc /\ UNCHANGED link /\ UNCHANGED stream

\* sendBuffer.  On a closed descriptor send fails and the piece is dropped.  If
\* the viewer is gone, the piece is lost or SIGPIPE ends the process.
sendBuffer(th) ==
  /\ \/ /\ At(th, "wcp1") /\ Goto(th, "wcp2")
        /\ half' = [half EXCEPT !["wcp"] = IF conn = "open" THEN @ \cup {th} ELSE @]
        /\ UNCHANGED ended
     \/ /\ At(th, "wcp2") /\ Goto(th, ret[th])
        /\ half' = [half EXCEPT !["wcp"] = @ \ {th}]
        /\ UNCHANGED ended
     \/ /\ At(th, "wcp1") \/ At(th, "wcp2")
        /\ conn = "open" /\ viewer = "gone"
        /\ ended' = "sigpipe"
        /\ UNCHANGED <<pc, ret, half>>
  /\ UNCHANGED mutex /\ UNCHANGED rpc /\ UNCHANGED link /\ UNCHANGED stream

-----------------------------------------------------------------------------
(* The WCP session.                                                         *)

\* m_wcpClient.emplace: an old value is destroyed first, and with it a thread that
\* was never joined, which ends the process.  Then initClient and runViewer.
CreateSession ==
  /\ At("server", "create")
  /\ IF session
       THEN ended' = "relaunch" /\ UNCHANGED <<pc, ret>> /\ UNCHANGED link
       ELSE /\ session' = TRUE /\ viewer' = "starting" /\ UNCHANGED <<running, conn, ended>>
            /\ Goto("server", "accept")
  /\ UNCHANGED <<mutex, half>> /\ UNCHANGED rpc /\ UNCHANGED stream

stop == conn' = "closed" /\ running' = FALSE

\* socket, bind, listen or accept fails.  Before accept, m_clientFd has no value
\* and stop closes whatever it happens to be: nothing, or the server's own stdin
\* or stdout.
SetupFails ==
  /\ At("server", "accept")
  /\ stop
  /\ \/ Goto("server", "start") /\ UNCHANGED ended
     \/ ended' = "deaf" /\ UNCHANGED <<pc, ret>>
  /\ UNCHANGED <<mutex, half, session, viewer>> /\ UNCHANGED rpc /\ UNCHANGED stream

\* greet: the connection is accepted and the greeting sent.
Accept ==
  /\ At("server", "accept") /\ viewer = "connecting"
  /\ conn' = "open" /\ viewer' = "connected"
  /\ Frame("server", "wcp1", "greet")
  /\ UNCHANGED <<mutex, half, ended, session, running>> /\ UNCHANGED rpc /\ UNCHANGED stream

\* Where the first complete message of a buffer ends, 0 if there is none.
FirstEnd(b) ==
  LET ends == {i \in DOMAIN b : b[i].last}
  IN  IF ends = {} THEN 0 ELSE CHOOSE i \in ends : \A j \in ends : i <= j

\* Mutant: the buffer is emptied when a message is taken from it.
RecvForgets(n) ==
  LET b == recvBuffer \o SubSeq(wire, 1, n)
      end == FirstEnd(b)
  IN  /\ wire' = SubSeq(wire, n + 1, Len(wire))
      /\ recvBuffer' = IF end = 0 THEN b ELSE <<>>
      /\ taken' = IF end = 0 THEN taken ELSE Append(taken, b[end].msg)
      /\ UNCHANGED sent

\* Mutant: every message of the buffer is taken, and only the last is handled.
RecvDrains(n) ==
  LET b == recvBuffer \o SubSeq(wire, 1, n)
      last == 2 * (Len(b) \div 2)
  IN  /\ wire' = SubSeq(wire, n + 1, Len(wire))
      /\ recvBuffer' = SubSeq(b, last + 1, Len(b))
      /\ taken' = taken \o [k \in 1..(last \div 2) |-> b[2 * k].msg]
      /\ UNCHANGED sent

\* recv of n pieces, then at most one message is taken from the buffer.
Recv(n) ==
  LET b == recvBuffer \o SubSeq(wire, 1, n)
      end == FirstEnd(b)
  IN  /\ wire' = SubSeq(wire, n + 1, Len(wire))
      /\ recvBuffer' = SubSeq(b, end + 1, Len(b))
      /\ taken' = IF end = 0 THEN taken ELSE Append(taken, b[end].msg)
      /\ UNCHANGED sent

HasMessage(n) == FirstEnd(recvBuffer \o SubSeq(wire, 1, n)) # 0

\* greet waits for the viewer's greeting; anything else stops the session.
GreetRecv(n) ==
  /\ At("server", "greet") /\ conn = "open" /\ n \in DOMAIN wire
  /\ Recv(n)
  /\ IF HasMessage(n)
       THEN /\ Goto("server", "start")
            /\ IF taken'[Len(taken')] = "greeting" THEN UNCHANGED <<conn, running>> ELSE stop
       ELSE UNCHANGED <<pc, ret, conn, running>>
  /\ UNCHANGED <<mutex, half, ended, session, viewer>> /\ UNCHANGED rpc

\* What recv sees of a viewer that is gone: the end of the stream, or an error in
\* place of what was still to be read.
Disconnected == conn = "open" /\ viewer = "gone"

\* getMessage finds the viewer gone: the session is stopped, greet waits on.
GreetDisconnected ==
  /\ At("server", "greet") /\ Disconnected
  /\ stop
  /\ UNCHANGED <<pc, ret, mutex, half, ended, session, viewer>> /\ UNCHANGED rpc /\ UNCHANGED stream

\* Mutant: the deadline stops the session but not the wait.
GreetTimeoutStays ==
  /\ At("server", "greet")
  /\ stop
  /\ UNCHANGED <<pc, ret, mutex, half, ended, session, viewer>> /\ UNCHANGED rpc /\ UNCHANGED stream

\* Two seconds without a greeting.
GreetTimeout ==
  /\ At("server", "greet")
  /\ stop /\ Goto("server", "start")
  /\ UNCHANGED <<mutex, half, ended, session, viewer>> /\ UNCHANGED rpc /\ UNCHANGED stream

\* The constructor starts the viewer thread, whatever became of the session.
StartThread ==
  /\ At("server", "start")
  /\ pc' = [pc EXCEPT !["server"] = "load", !["viewer"] = "poll"]
  /\ UNCHANGED <<ret, mutex, half, ended>>
  /\ UNCHANGED rpc /\ UNCHANGED link /\ UNCHANGED stream

loadWaveform ==
  /\ At("server", "load")
  /\ Frame("server", "wcp1", "reply")
  /\ UNCHANGED <<mutex, half, ended>> /\ UNCHANGED rpc /\ UNCHANGED link /\ UNCHANGED stream

-----------------------------------------------------------------------------
(* runClient, the viewer thread.                                            *)

PollRecv(n) ==
  /\ At("viewer", "poll") /\ running /\ conn = "open" /\ n \in DOMAIN wire
  /\ Recv(n)
  /\ IF HasMessage(n) THEN Goto("viewer", "lock") ELSE UNCHANGED <<pc, ret>>
  /\ UNCHANGED <<mutex, half, ended>> /\ UNCHANGED rpc /\ UNCHANGED link

\* Mutant: an orderly shutdown of the viewer is taken for silence.
PollIgnoresGone ==
  /\ At("viewer", "poll") /\ running /\ Disconnected
  /\ UNCHANGED vars

\* getMessage finds the viewer gone: the sockets are closed, then m_running reset.
PollDisconnected ==
  /\ At("viewer", "poll") /\ running /\ Disconnected
  /\ conn' = "closed" /\ Goto("viewer", "stop")
  /\ UNCHANGED <<mutex, half, ended, session, running, viewer>>
  /\ UNCHANGED rpc /\ UNCHANGED stream

ResetRunning ==
  /\ At("viewer", "stop")
  /\ running' = FALSE /\ Goto("viewer", "poll")
  /\ UNCHANGED <<mutex, half, ended, session, conn, viewer>>
  /\ UNCHANGED rpc /\ UNCHANGED stream

\* The event the thread has taken, under the mutex.
HandleEvent ==
  /\ At("viewer", "handle")
  /\ CASE taken[Len(taken)] = "goto" -> Frame("viewer", "stdout1", "unlock")
       [] taken[Len(taken)] = "drivers" -> Frame("viewer", "wcp1", "unlock")
       [] OTHER -> Goto("viewer", "unlock")
  /\ UNCHANGED <<mutex, half, ended>> /\ UNCHANGED rpc /\ UNCHANGED link /\ UNCHANGED stream

ThreadEnds ==
  /\ At("viewer", "poll") /\ ~running
  /\ stop /\ Goto("viewer", "done")
  /\ UNCHANGED <<mutex, half, ended, session, viewer>> /\ UNCHANGED rpc /\ UNCHANGED stream

-----------------------------------------------------------------------------
(* The viewer process.                                                      *)

ViewerConnects ==
  /\ ended = "no" /\ viewer = "starting" /\ conn = "none"
  /\ viewer' = "connecting"
  /\ UNCHANGED <<pc, ret, mutex, half, ended, session, running, conn>>
  /\ UNCHANGED rpc /\ UNCHANGED stream

\* The child process cannot execute the viewer's command, or the viewer ends before
\* it connects; the server process is told of neither.
LaunchFails ==
  /\ ended = "no" /\ viewer = "starting"
  /\ viewer' = "gone"
  /\ UNCHANGED <<pc, ret, mutex, half, ended, session, running, conn>>
  /\ UNCHANGED rpc /\ UNCHANGED stream

ViewerSends(m) ==
  /\ ended = "no" /\ viewer = "connected" /\ Len(sent) < MaxEvents
  /\ sent' = Append(sent, m)
  /\ wire' = wire \o <<[msg |-> m, last |-> FALSE], [msg |-> m, last |-> TRUE]>>
  /\ UNCHANGED <<pc, ret, mutex, half, ended, recvBuffer, taken>>
  /\ UNCHANGED rpc /\ UNCHANGED link

ViewerQuits ==
  /\ ended = "no" /\ viewer = "connected"
  /\ viewer' = "gone"
  /\ UNCHANGED <<pc, ret, mutex, half, ended, session, running, conn>>
  /\ UNCHANGED rpc /\ UNCHANGED stream

-----------------------------------------------------------------------------
Init ==
  /\ toServer = <<>> /\ count = 0 /\ phase = "init"
  /\ pc = [th \in Thread |-> IF th = "server" THEN "read" ELSE "none"]
  /\ ret = [th \in Thread |-> "none"]
  /\ req = [method |-> "didX", id |-> 0] /\ answered = {} /\ mutex = None
  /\ half = [c \in Channel |-> {}]
  /\ session = FALSE /\ running = TRUE /\ conn = "none" /\ viewer = "none"
  /\ sent = <<>> /\ wire = <<>> /\ recvBuffer = <<>> /\ taken = <<>>
  /\ ended = "no"

Environment ==
  \/ \E m \in Known : EditorSend(m)
  \/ \E m \in Event : ViewerSends(m)
  \/ LaunchFails \/ ViewerConnects \/ ViewerQuits \/ SetupFails

Session ==
  \/ CreateSession \/ Accept \/ GreetDisconnected \/ GreetTimeout
  \/ \E n \in DOMAIN wire : GreetRecv(n)
  \/ StartThread \/ loadWaveform

ServerThread ==
  \/ Read \/ Process \/ Reply \/ Session
  \/ Lock("server") \/ Unlock("server") \/ WriteStdout("server") \/ sendBuffer("server")

ViewerThread ==
  \/ \E n \in DOMAIN wire : PollRecv(n)
  \/ PollDisconnected \/ ResetRunning \/ HandleEvent \/ ThreadEnds
  \/ Lock("viewer") \/ Unlock("viewer") \/ WriteStdout("viewer") \/ sendBuffer("viewer")

Next == Environment \/ ServerThread \/ ViewerThread

Spec == Init /\ [][Next]_vars

\* Both threads run, and the clock of greet advances.  Nothing is assumed of the
\* viewer: it need not connect, greet, send or quit.
FairSpec == Spec /\ WF_vars(ServerThread) /\ WF_vars(ViewerThread)

-----------------------------------------------------------------------------
(* Properties.                                                              *)

Writing == {"stdout1", "stdout2", "wcp1", "wcp2"}
ServerPc == Writing \cup {"read", "lock", "handle", "reply", "unlock", "create", "accept",
                          "greet", "start", "load"}
ViewerPc == Writing \cup {"none", "poll", "lock", "handle", "unlock", "stop", "done"}

StreamTypes ==
  /\ sent \in Seq(Event) /\ taken \in Seq(Event)
  /\ wire \in Seq(Piece) /\ recvBuffer \in Seq(Piece)

\* Every variable has the type its declaration says.
TypeOK ==
  /\ toServer \in Seq(Message) /\ count \in Nat /\ phase \in {"init", "serving", "down"}
  /\ pc \in [Thread -> ServerPc \cup ViewerPc]
  /\ pc["server"] \in ServerPc /\ pc["viewer"] \in ViewerPc
  /\ ret \in [Thread -> ServerPc \cup ViewerPc]
  /\ req \in Message /\ answered \subseteq Nat /\ mutex \in Thread \cup {None}
  /\ half \in [Channel -> SUBSET Thread]
  /\ session \in BOOLEAN /\ running \in BOOLEAN /\ conn \in {"none", "open", "closed"}
  /\ viewer \in {"none", "starting", "connecting", "connected", "gone"}
  /\ ended \in {"no", "exit", "relaunch", "teardown", "sigpipe", "deaf"}
  /\ StreamTypes

\* A frame is never cut in two by the other thread's: the editor and the viewer
\* can parse what they get.  Replies run() writes without the mutex come before
\* there is a viewer thread, if the editor keeps to the protocol.
Framed == \A c \in Channel : \A th, other \in half[c] : th = other

InSession == {"create", "accept", "greet", "start", "load"}

\* Where a thread is between Lock and Unlock.  The server thread also writes
\* outside, when run() answers by itself; then it goes back to reading.
Inside(th) ==
  \/ pc[th] \in {"handle", "reply", "unlock"} \cup InSession
  \/ pc[th] \in Writing /\ ret[th] # "read"

\* The mutex is held by the thread that is inside.
MutexHeld == \A th \in Thread : Inside(th) => mutex = th

\* Half a frame is what lies between the two writes of a thread.
HalfWritten ==
  \A th \in Thread : /\ th \in half["stdout"] => pc[th] = "stdout2"
                     /\ th \in half["wcp"] => pc[th] = "wcp2"

\* A polite editor ends with shutdown and exit: nothing follows them in the queue,
\* and what is left for the last loop of run() is exit.
QueueOrder ==
  /\ \A i \in DOMAIN toServer : toServer[i].method # "junk"
  /\ \A i \in DOMAIN toServer : i < Len(toServer) => toServer[i].method \notin {"shutdown", "exit"}
  /\ ShuttingDown => \A i \in DOMAIN toServer : toServer[i].method = "exit"

\* There is no viewer thread before initialize was handled, and the server thread
\* answers without the mutex only then.
InitFirst ==
  /\ phase = "init" => pc["viewer"] = "none"
  /\ pc["server"] = "lock" \/ Inside("server") =>
       phase = "serving" \/ (phase = "init" /\ req.method = "initialize")
  /\ pc["server"] \in InSession \/ (pc["server"] \in Writing /\ ret["server"] \in InSession) =>
       phase = "serving"
  /\ pc["server"] \in Writing /\ ret["server"] = "read" => phase = "init"

\* Where a thread can go on after a frame.
Returns ==
  /\ pc["server"] \in Writing => ret["server"] \in {"read", "reply", "unlock"} \cup InSession
  /\ pc["viewer"] \in Writing => ret["viewer"] = "unlock"

\* The inductive invariant of Framed.
FrameInv == TypeOK /\ MutexHeld /\ HalfWritten /\ QueueOrder /\ InitFirst /\ Returns

InOrder == taken = SubSeq(sent, 1, Len(taken))

\* getMessage returns the viewer's messages whole, in order and none twice, and
\* what it has not returned is still in the buffer or the socket, however recv cuts
\* the stream, and across the hand-over from greet to runClient.
StreamInOrder ==
  /\ InOrder
  /\ Len(recvBuffer) + Len(wire) = 2 * (Len(sent) - Len(taken))

\* The k-th piece that getMessage has still to return.
Pending(k) == [msg |-> sent[Len(taken) + ((k + 1) \div 2)], last |-> k % 2 = 0]

\* The inductive invariant of StreamInOrder: the buffer and the socket hold the
\* rest of the stream, two pieces to a message.
StreamInv ==
  /\ Len(taken) <= Len(sent)
  /\ InOrder
  /\ Len(recvBuffer) + Len(wire) = 2 * (Len(sent) - Len(taken))
  /\ \A k \in 1..Len(recvBuffer) : recvBuffer[k] = Pending(k)
  /\ \A k \in 1..Len(wire) : wire[k] = Pending(Len(recvBuffer) + k)

\* What the viewer has sent and getMessage has not returned.
InTransit == SubSeq(sent, Len(taken) + 1, Len(sent))

Queue == INSTANCE MessageQueue WITH Msg <- Event, queue <- InTransit, got <- taken

\* getMessage implements a queue of whole messages: each step of either thread takes
\* the oldest message in transit or leaves the queue alone, so that no message is
\* passed over, also where greet hands the buffer over to runClient.
IsQueue == Queue!Spec

\* A request the server has yet to answer: in the queue, or being handled.
Open(i) ==
  /\ i \notin answered
  /\ \/ \E k \in DOMAIN toServer : toServer[k].id = i /\ toServer[k].method # "unknown"
     \/ req.id = i /\ req.method # "unknown"

\* greet is in accept, which has no deadline, and no viewer has connected.
InAccept == pc["server"] = "accept" /\ viewer # "connecting"

\* Every request the editor sends is answered, also while a viewer is launched,
\* fails to greet or quits, unless the process ends.  The one way for a request to
\* stay open is a viewer that was launched and never connects: then the server
\* thread stays in accept for ever, with the mutex; the deadline of the greeting
\* (WcpClient.cpp:167) starts behind it.
RequestsAnswered ==
  \A i \in 1..MaxMessages : Open(i) ~> (i \in answered \/ ended # "no" \/ []InAccept)

\* A viewer that is gone after it had connected is noticed: the session does not stay
\* active, so that addToWaveform refuses and openWaveform launches anew.
GoneNoticed == Disconnected /\ running ~> ~running \/ ended # "no"

\* openWaveform without an active session launches a viewer; it does not end the
\* process.
RelaunchWorks == ended # "relaunch"
=============================================================================
