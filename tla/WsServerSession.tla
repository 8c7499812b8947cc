-------------------------- MODULE WsServerSession --------------------------
(***************************************************************************)
(* WebSocketServerSession of ws-server.ts: a socket that was accepted for  *)
(* a prepared connection.  Frames wait in messageChain and are handled one *)
(* after the other, the first as initialize; a pump sends what the         *)
(* connection's router queues.  The client, the agent and the connection   *)
(* may stop at any point of that, and whoever notices closes the rest.     *)
(*                                                                         *)
(* The connection is seen through allOutbound, waitForOutboundCapacity and *)
(* its shutdown; HttpConnection has its other parts.  Every frame and      *)
(* every message counts as one toward maxBufferedBytes.                    *)
(***************************************************************************)
EXTENDS Integers, Sequences

CONSTANTS
    MaxBuffered,    \* limits.maxBufferedBytes
    MaxFrames,      \* bound on the frames the client sends
    MaxOutput       \* bound on the messages the agent's router queues

ASSUME LimitAssumption  == MaxBuffered \in Nat \ {0}
ASSUME BoundsAssumption == MaxFrames \in Nat /\ MaxOutput \in Nat

(* What a frame may hold: nothing that parses, an initialize request, a    *)
(* request, a notification, a response, a batch of requests, or a request  *)
(* with an id longer than maxIdLength.                                     *)
Frames == {"malformed", "initialize", "request", "notification", "response",
           "batch", "overlong"}

VARIABLES
    isClosed,           \* of the session; its listeners are detached with it
    connection,         \* whether this.connection is set
    preparedConnection, \* whether this.preparedConnection is set
    batchesEnabled,
    messageChain,       \* frames that wait behind the one being handled
    waitingInbound,     \* waitingInboundBytes
    handler,            \* what the handling of a frame awaits, "idle" if none
    pump,               \* what the outbound pump awaits
    unsent,             \* socket.bufferedAmount
    registry,           \* where the registry has the connection
    shutdown,           \* whether the connection's shutdown has started
    initial,            \* what became of the agent's answer to initialize
    outputEnded,        \* hasAgentOutputEnded
    finishedRouting,    \* hasFinishedRouting
    queue,              \* how many messages allOutbound holds
    frames,             \* how many frames the client has sent
    output              \* how many messages the router has queued

sessionVars == <<isClosed, connection, preparedConnection>>
inVars      == <<messageChain, waitingInbound, handler, frames>>
agentVars   == <<batchesEnabled, initial, outputEnded, finishedRouting, output>>
connVars    == <<registry, shutdown, queue>>
vars == <<sessionVars, inVars, agentVars, connVars, pump, unsent>>

(* A connection that was prepared may have shut down before its socket     *)
(* came: its agent closed, or the server did.                              *)
Init ==
    /\ isClosed = FALSE
    /\ connection = FALSE
    /\ preparedConnection = TRUE
    /\ batchesEnabled = FALSE
    /\ messageChain = <<>>
    /\ waitingInbound = 0
    /\ handler = "idle"
    /\ pump = "none"
    /\ unsent = 0
    /\ shutdown \in BOOLEAN
    /\ registry = IF shutdown THEN "absent" ELSE "pending"
    /\ initial = "none"
    /\ outputEnded = FALSE
    /\ finishedRouting = FALSE
    /\ queue = 0
    /\ frames = 0
    /\ output = 0

-----------------------------------------------------------------------------
(* Closing.                                                                *)

HoldsLease == pump \notin {"none", "ended"}

(* notifyOutboundProgress, for a request that waits for room. *)
WakeHandler == IF handler = "room" THEN "woken" ELSE handler

(* ConnectionRegistry.discard: a connection that the registry still knows  *)
(* shuts down.                                                             *)
Discard ==
    /\ registry' = "absent"
    /\ shutdown' = (shutdown \/ registry # "absent")
    /\ queue' = IF registry # "absent" THEN 0 ELSE queue

(* closeSession, and shutdown(), which closes the socket first: the        *)
(* listeners are detached, the lease is released, and the connection is    *)
(* discarded.  `next` is what becomes of the handler.                      *)
CloseSession(next) ==
    /\ isClosed' = TRUE
    /\ handler' = next
    /\ connection' = FALSE
    /\ preparedConnection' = FALSE
    /\ Discard

(* The client closes the socket, it fails, or the server closes.           *)
SocketCloses ==
    /\ ~isClosed
    /\ CloseSession(WakeHandler)
    /\ UNCHANGED <<messageChain, waitingInbound, frames, agentVars, pump, unsent>>

(* The connection shuts down for a reason of its own: its agent closed     *)
(* before the router started, the router stopped at a limit, or a DELETE   *)
(* request named it.  The lease is stopped, and that closes the session.   *)
ConnectionStops ==
    /\ ~shutdown
    /\ ~finishedRouting \/ registry # "absent"
    /\ IF HoldsLease /\ ~isClosed
       THEN /\ isClosed' = TRUE
            /\ connection' = FALSE
            /\ preparedConnection' = FALSE
            /\ registry' = "absent"
       ELSE UNCHANGED <<sessionVars, registry>>
    /\ shutdown' = TRUE
    /\ queue' = 0
    /\ handler' = WakeHandler
    /\ UNCHANGED <<messageChain, waitingInbound, frames, agentVars, pump, unsent>>

(* trackConnectionClose. *)
Unregister ==
    /\ registry # "absent"
    /\ shutdown \/ finishedRouting
    /\ registry' = "absent"
    /\ UNCHANGED <<sessionVars, inVars, agentVars, shutdown, queue, pump, unsent>>

-----------------------------------------------------------------------------
(* Frames.                                                                 *)

(* Faulty: frames that wait are not limited.                               *)
NeverTooMany == FALSE

TooManyFrames == waitingInbound > 0 /\ waitingInbound >= MaxBuffered

(* enqueueSocketMessage. *)
EnqueueFrame(frame) ==
    /\ ~isClosed
    /\ frames < MaxFrames
    /\ frames' = frames + 1
    /\ IF TooManyFrames
       THEN /\ CloseSession(WakeHandler)
            /\ UNCHANGED <<messageChain, waitingInbound>>
       ELSE /\ messageChain' = Append(messageChain, frame)
            /\ waitingInbound' = waitingInbound + 1
            /\ UNCHANGED <<sessionVars, connVars, handler>>
    /\ UNCHANGED <<agentVars, pump, unsent>>

(* What a frame leads to when its turn comes: the handler's next await, or *)
(* "idle" when the frame is done with, or the end of the session.          *)
Handling(frame) ==
    IF isClosed THEN "idle" ELSE
    CASE frame = "malformed" -> "toReply"
      [] frame = "initialize" -> IF connection THEN "toReply" ELSE "initializing"
      [] frame = "response" -> IF connection THEN "chained" ELSE "idle"
      [] frame = "notification" /\ connection -> "chained"
      [] frame = "request" /\ connection -> "room"
      [] frame = "batch" /\ connection /\ batchesEnabled -> "room"
      [] OTHER -> "shutdown"

(* The condition on which waitForRoom returns at once. *)
HasRoom == shutdown \/ finishedRouting \/ queue = 0

(* handleSocketMessage up to its first await. *)
HandleFrame ==
    LET frame == Head(messageChain)
        next  == Handling(frame)
    IN
    /\ handler = "idle"
    /\ messageChain # <<>>
    /\ messageChain' = Tail(messageChain)
    /\ waitingInbound' = waitingInbound - 1
    /\ IF next = "shutdown"
       THEN CloseSession("idle")
       ELSE /\ handler' = IF next = "room" /\ HasRoom THEN "toWrite" ELSE next
            /\ UNCHANGED <<sessionVars, connVars>>
    /\ UNCHANGED <<frames, agentVars, pump, unsent>>

-----------------------------------------------------------------------------
(* Initialize.                                                             *)

(* The agent answers, or what it answers is no response to initialize, for *)
(* which the connection shuts down, or it refuses to read.  There is no    *)
(* answer, either, when the connection has shut down.                      *)
AgentAnswers(answer) ==
    /\ handler = "initializing"
    /\ initial = "none"
    /\ shutdown => answer = "failed"
    /\ initial' = IF answer = "answered" THEN "answered" ELSE "failed"
    /\ IF answer = "failed"
       THEN /\ shutdown' = TRUE
            /\ queue' = 0
       ELSE UNCHANGED <<shutdown, queue>>
    /\ UNCHANGED <<sessionVars, inVars, batchesEnabled, outputEnded, finishedRouting,
                   output, registry, pump, unsent>>

(* Faulty: the session is not looked at after the agent's answer.          *)
StillWanted == TRUE

(* Whether the socket is still there for the answer. *)
Wanted == ~isClosed

(* The continuation of a successful recvInitial: the connection becomes    *)
(* that of the session, and its router and the pump start.  If it has shut *)
(* down by then there is no lease to get: then, and if the answer cannot   *)
(* be sent, the session closes, unless it has.                             *)
Initialized(v2, sendFails) ==
    /\ handler = "initializing"
    /\ initial = "answered"
    /\ initial' = "settled"
    /\ handler' = "idle"
    /\ IF ~Wanted
       THEN /\ Discard
            /\ UNCHANGED <<sessionVars, batchesEnabled, pump, unsent>>
       ELSE /\ batchesEnabled' = v2
            /\ preparedConnection' = FALSE
            /\ IF ~isClosed /\ (sendFails \/ shutdown)
               THEN /\ isClosed' = TRUE
                    /\ connection' = FALSE
                    /\ registry' = "absent"
                    /\ shutdown' = TRUE
                    /\ queue' = 0
                    /\ unsent' = unsent + (IF sendFails THEN 0 ELSE 1)
                    /\ UNCHANGED pump
               ELSE /\ connection' = TRUE
                    /\ registry' = "registered"
                    /\ pump' = IF shutdown THEN pump ELSE "receiving"
                    /\ unsent' = unsent + 1
                    /\ UNCHANGED <<isClosed, shutdown, queue>>
    /\ UNCHANGED <<messageChain, waitingInbound, frames, outputEnded,
                   finishedRouting, output>>

(* The catch clause: the error is sent, if it can be, and the session      *)
(* closes.                                                                 *)
InitializeFailed(sendFails) ==
    /\ handler = "initializing"
    /\ initial = "failed"
    /\ initial' = "settled"
    /\ CloseSession("idle")
    /\ unsent' = unsent + (IF isClosed \/ sendFails THEN 0 ELSE 1)
    /\ UNCHANGED <<messageChain, waitingInbound, frames, batchesEnabled,
                   outputEnded, finishedRouting, output, pump>>

-----------------------------------------------------------------------------
(* The rest of the handling of a frame.                                    *)

(* The wait for the connection's output to be taken goes on, or is over.   *)
RoomResumes ==
    /\ handler = "woken"
    /\ handler' = IF HasRoom THEN "toWrite" ELSE "room"
    /\ UNCHANGED <<sessionVars, messageChain, waitingInbound, frames,
                   agentVars, connVars, pump, unsent>>

(* The condition on which the loop of waitForSocketCapacity ends. *)
SocketHasCapacity == isClosed \/ unsent < MaxBuffered

(* waitForSocketCapacity is over for the handler, which goes on in another *)
(* turn of the event loop.                                                 *)
SocketResumes ==
    /\ handler \in {"toReply", "toWrite"}
    /\ SocketHasCapacity
    /\ handler' = IF handler = "toReply" THEN "reply" ELSE "write"
    /\ UNCHANGED <<sessionVars, messageChain, waitingInbound, frames,
                   agentVars, connVars, pump, unsent>>

(* send(), for the error a frame is answered with. *)
Reply(sendFails) ==
    /\ handler = "reply"
    /\ IF isClosed
       THEN /\ handler' = "idle"
            /\ UNCHANGED <<sessionVars, connVars, unsent>>
       ELSE IF sendFails
       THEN CloseSession("idle") /\ UNCHANGED unsent
       ELSE /\ handler' = "idle"
            /\ unsent' = unsent + 1
            /\ UNCHANGED <<sessionVars, connVars>>
    /\ UNCHANGED <<messageChain, waitingInbound, frames, agentVars, pump>>

(* writeInbound, which throws if the session has lost its connection.      *)
WriteInbound ==
    /\ handler = "write"
    /\ handler' = IF connection THEN "chained" ELSE "idle"
    /\ UNCHANGED <<sessionVars, messageChain, waitingInbound, frames,
                   agentVars, connVars, pump, unsent>>

(* Faulty: a connection whose router has ended takes writes.               *)
UnlessShutdown == ~shutdown

(* Whether the connection begins a write.                                  *)
TakesWrites == ~shutdown /\ ~finishedRouting

(* writeInboundMessage up to its await.  A write that is refused throws a  *)
(* ConnectionClosedError, which is all.                                    *)
StartWrite ==
    /\ handler = "chained"
    /\ handler' = IF TakesWrites THEN "writing" ELSE "idle"
    /\ UNCHANGED <<sessionVars, messageChain, waitingInbound, frames,
                   agentVars, connVars, pump, unsent>>

(* An agent whose output has ended may still read. *)
AgentReads ==
    /\ handler = "writing"
    /\ ~shutdown
    /\ handler' = "idle"
    /\ UNCHANGED <<sessionVars, messageChain, waitingInbound, frames,
                   agentVars, connVars, pump, unsent>>

(* Shutdown aborts the write that waits for the agent; nothing else of the *)
(* connection ends it.                                                     *)
WriteAborted ==
    /\ handler = "writing"
    /\ shutdown
    /\ handler' = "idle"
    /\ UNCHANGED <<sessionVars, messageChain, waitingInbound, frames,
                   agentVars, connVars, pump, unsent>>

(* It is rejected by the agent's end of the stream.                        *)
WriteFails ==
    /\ handler = "writing"
    /\ ~shutdown
    /\ CloseSession("idle")
    /\ UNCHANGED <<messageChain, waitingInbound, frames, agentVars, pump, unsent>>

-----------------------------------------------------------------------------
(* The agent's output, which is external but for the router's wait.        *)

RouterQueues ==
    /\ connection /\ ~shutdown /\ ~finishedRouting
    /\ queue = 0 \/ outputEnded
    /\ output < MaxOutput
    /\ output' = output + 1
    /\ queue' = queue + 1
    /\ UNCHANGED <<sessionVars, inVars, batchesEnabled, initial, outputEnded,
                   finishedRouting, registry, shutdown, pump, unsent>>

OutputEnds ==
    /\ connection /\ ~shutdown /\ ~outputEnded
    /\ outputEnded' = TRUE
    /\ UNCHANGED <<sessionVars, inVars, batchesEnabled, initial, finishedRouting,
                   output, connVars, pump, unsent>>

(* The router runs from initialize on, as the pump does; that of a         *)
(* connection which shut down before is not looked at.                     *)
RouterEnds ==
    /\ pump # "none"
    /\ outputEnded \/ shutdown
    /\ ~finishedRouting
    /\ finishedRouting' = TRUE
    /\ handler' = WakeHandler
    /\ UNCHANGED <<sessionVars, messageChain, waitingInbound, frames,
                   batchesEnabled, initial, outputEnded, output, connVars, pump, unsent>>

-----------------------------------------------------------------------------
(* The pump.                                                               *)

PumpTakes ==
    /\ pump = "receiving"
    /\ ~isClosed
    /\ queue > 0
    /\ queue' = queue - 1
    /\ handler' = WakeHandler
    /\ pump' = "taken"
    /\ UNCHANGED <<sessionVars, messageChain, waitingInbound, frames,
                   agentVars, registry, shutdown, unsent>>

(* A message that was taken is sent, unless the session has closed.  If    *)
(* sending fails the session closes.                                       *)
PumpSends(sendFails) ==
    /\ pump = "taken"
    /\ IF isClosed
       THEN /\ pump' = "ended"
            /\ UNCHANGED <<sessionVars, connVars, handler, unsent>>
       ELSE IF sendFails
       THEN /\ pump' = "ended"
            /\ CloseSession(WakeHandler)
            /\ UNCHANGED unsent
       ELSE /\ pump' = "socket"
            /\ unsent' = unsent + 1
            /\ UNCHANGED <<sessionVars, connVars, handler>>
    /\ UNCHANGED <<messageChain, waitingInbound, frames, agentVars>>

(* Faulty: the next message is sent without looking at the socket.         *)
CapacityUnchecked == TRUE

(* Whether the pump may take the next message. *)
MayPump == SocketHasCapacity

PumpResumes ==
    /\ pump = "socket"
    /\ MayPump
    /\ pump' = IF isClosed THEN "ended" ELSE "receiving"
    /\ UNCHANGED <<sessionVars, inVars, agentVars, connVars, unsent>>

(* Faulty: a mailbox that is finished leaves the socket open.              *)
EndPumpOnly ==
    /\ pump' = "ended"
    /\ UNCHANGED <<sessionVars, connVars, handler>>

(* The pump's finally clause: the session closes, if it has not.           *)
EndPump ==
    /\ pump' = "ended"
    /\ IF isClosed
       THEN UNCHANGED <<sessionVars, connVars, handler>>
       ELSE CloseSession(WakeHandler)

(* receive() is done, or rejects: the lease was released, or nothing more  *)
(* will come.                                                              *)
PumpEnds ==
    /\ pump = "receiving"
    /\ isClosed \/ (queue = 0 /\ finishedRouting)
    /\ EndPump
    /\ UNCHANGED <<messageChain, waitingInbound, frames, agentVars, unsent>>

ClientReads ==
    /\ unsent > 0
    /\ unsent' = unsent - 1
    /\ UNCHANGED <<sessionVars, inVars, agentVars, connVars, pump>>

(* Faulty: only the pump gives up on the client.                           *)
PumpWaits == pump = "socket"

WaitsForSocket == pump = "socket" \/ handler \in {"toReply", "toWrite"}

(* The client has read nothing for maxOutputStallMs: closeForLimit.        *)
Stall ==
    /\ WaitsForSocket
    /\ ~SocketHasCapacity
    /\ CloseSession(WakeHandler)
    /\ UNCHANGED <<messageChain, waitingInbound, frames, agentVars, pump, unsent>>

-----------------------------------------------------------------------------
Handle ==
    \/ HandleFrame
    \/ \E v2, sendFails \in BOOLEAN : Initialized(v2, sendFails)
    \/ RoomResumes \/ SocketResumes \/ WriteInbound \/ StartWrite \/ WriteAborted
    \/ \E sendFails \in BOOLEAN : InitializeFailed(sendFails) \/ Reply(sendFails)

Pump ==
    \/ PumpTakes \/ PumpResumes \/ PumpEnds
    \/ \E sendFails \in BOOLEAN : PumpSends(sendFails)

Next ==
    \/ SocketCloses \/ ConnectionStops \/ Unregister \/ Stall
    \/ \E frame \in Frames : EnqueueFrame(frame)
    \/ \E answer \in {"answered", "failed", "refused"} : AgentAnswers(answer)
    \/ AgentReads \/ WriteFails \/ ClientReads
    \/ RouterQueues \/ OutputEnds \/ RouterEnds
    \/ Handle \/ Pump

Spec == Init /\ [][Next]_vars

(* The event loop runs the handler, the pump, the router's end and the     *)
(* timers; an initialize that waits for a connection that has shut down is *)
(* told.  The client need not read, nor the agent answer, read or write.   *)
Fairness ==
    /\ WF_vars(Handle) /\ WF_vars(Pump) /\ WF_vars(RouterEnds) /\ WF_vars(Stall)
    /\ WF_vars(shutdown /\ AgentAnswers("failed"))

LiveSpec == Spec /\ Fairness

-----------------------------------------------------------------------------
(* Properties.                                                             *)

(* The values the variables take. *)
TypeOK ==
    /\ isClosed \in BOOLEAN /\ connection \in BOOLEAN /\ preparedConnection \in BOOLEAN
    /\ batchesEnabled \in BOOLEAN
    /\ messageChain \in Seq(Frames)
    /\ waitingInbound \in 0 .. MaxBuffered
    /\ handler \in {"idle", "initializing", "room", "woken", "toReply", "toWrite",
                    "reply", "write", "chained", "writing"}
    /\ pump \in {"none", "receiving", "taken", "socket", "ended"}
    /\ unsent \in Nat
    /\ registry \in {"absent", "pending", "registered"}
    /\ shutdown \in BOOLEAN
    /\ initial \in {"none", "answered", "failed", "settled"}
    /\ outputEnded \in BOOLEAN /\ finishedRouting \in BOOLEAN
    /\ queue \in 0 .. MaxOutput
    /\ frames \in 0 .. MaxFrames /\ output \in 0 .. MaxOutput

(* What a client can make the session hold is bounded: the frames that     *)
(* wait are counted exactly, whatever became of the ones before them, and  *)
(* do not pass the limit, nor does what the socket holds by more than two  *)
(* messages, which are sent without another look: the answer to initialize *)
(* and the first the pump takes, or one of the pump and one of the handler.*)
BuffersAreBounded ==
    /\ waitingInbound = Len(messageChain)
    /\ Len(messageChain) <= MaxBuffered
    /\ unsent <= MaxBuffered + 2

(* A session that has closed leaves nothing behind, also when its          *)
(* handler was in the middle of initialize or of forwarding a frame: the   *)
(* registry does not know the connection, which has shut down, or whose    *)
(* agent had nothing more to say and which was forgotten before.           *)
NothingLeftBehind ==
    isClosed =>
        /\ ~connection /\ ~preparedConnection
        /\ registry = "absent"
        /\ shutdown \/ finishedRouting

Waiting == handler \in {"room", "woken", "toReply", "toWrite"}

(* A session outlives neither its client nor its agent: when the agent's   *)
(* output ends or its connection shuts down the session closes, even if    *)
(* the client reads nothing, and the pump lets go of its lease.  What the  *)
(* handler does then comes to an end as well, but for one thing: a write   *)
(* that the agent already had when its output ended.  The registry forgets *)
(* such a connection and does not shut it down, so the write lasts until   *)
(* the agent reads or gives up its input.  Nor does a client that does not *)
(* read stop the handling of its frames, by waiting for itself: the        *)
(* request that waits for room waits for the pump, and both for the        *)
(* socket, which is given up in the end.                                   *)
SessionsEnd ==
    /\ connection /\ (outputEnded \/ shutdown) ~> isClosed
    /\ isClosed ~> ~HoldsLease
    /\ isClosed /\ (shutdown \/ handler # "writing") ~> handler = "idle" /\ messageChain = <<>>
    /\ Waiting ~> ~Waiting
=============================================================================
