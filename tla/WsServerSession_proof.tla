----------------------- MODULE WsServerSession_proof -----------------------
(***************************************************************************)
(* Proofs of the safety properties of both ends of a WebSocket: of         *)
(* WsServerSession, for every limit and any number of frames and messages, *)
(* and of WsStream, for any number of sends.                               *)
(***************************************************************************)
EXTENDS WebSocketEnds, SequenceTheorems, TLAPS

(* How many messages may still be sent without another look at what the    *)
(* socket holds: that of a handler which has looked, and, of the pump, the *)
(* next one, before which there is the answer to initialize at first.  A   *)
(* session that has closed sends nothing.                                  *)
Unlooked ==
    (IF handler = "reply" THEN 1 ELSE 0)
      + (IF pump \in {"receiving", "taken"} THEN 1
         ELSE IF pump = "none" /\ initial # "settled" THEN 2 ELSE 0)

(* The pump starts when the answer to initialize is dealt with. *)
PumpFollowsInitialize == initial # "settled" => pump = "none"

SocketOK == ~isClosed => unsent + Unlooked <= MaxBuffered + 2

QueueOK == queue <= output

(* The registry forgets a connection when it shuts down, or when its       *)
(* router is done.                                                         *)
ForgottenWhenDone == registry = "absent" => shutdown \/ finishedRouting

Core ==
    /\ TypeOK
    /\ BuffersAreBounded
    /\ NothingLeftBehind
    /\ PumpFollowsInitialize
    /\ SocketOK
    /\ QueueOK

IInv == Core /\ ForgottenWhenDone

-----------------------------------------------------------------------------
LEMMA InitIInv == Init => IInv
<1> SUFFICES ASSUME Init PROVE IInv
  OBVIOUS
<1> USE LimitAssumption, BoundsAssumption DEF Init
<1>1. TypeOK
  <2>1. registry \in {"absent", "pending", "registered"}
    <3>1. CASE shutdown
      BY <3>1
    <3>2. CASE ~shutdown
      BY <3>2
    <3> QED BY <3>1, <3>2
  <2>2. shutdown \in BOOLEAN
    OBVIOUS
  <2>3. /\ messageChain \in Seq(Frames)
        /\ waitingInbound \in 0 .. MaxBuffered
        /\ queue \in 0 .. MaxOutput /\ output \in 0 .. MaxOutput
        /\ frames \in 0 .. MaxFrames /\ unsent \in Nat
    OBVIOUS
  <2>4. /\ isClosed \in BOOLEAN /\ connection \in BOOLEAN /\ preparedConnection \in BOOLEAN
        /\ batchesEnabled \in BOOLEAN /\ outputEnded \in BOOLEAN /\ finishedRouting \in BOOLEAN
    OBVIOUS
  <2>5. initial = "none" /\ pump = "none" /\ handler = "idle"
    OBVIOUS
  <2> HIDE DEF Init
  <2> QED BY <2>1, <2>2, <2>3, <2>4, <2>5 DEF TypeOK
<1>2. BuffersAreBounded /\ NothingLeftBehind
  BY DEF BuffersAreBounded, NothingLeftBehind
<1>3. PumpFollowsInitialize /\ SocketOK /\ QueueOK
  BY DEF PumpFollowsInitialize, SocketOK, Unlooked, QueueOK
<1>4. ForgottenWhenDone
  BY DEF ForgottenWhenDone
<1> QED BY <1>1, <1>2, <1>3, <1>4 DEF IInv, Core

(* Closing the session disturbs nothing when what else changes does not.   *)
LEMMA CloseKeepsCore ==
    ASSUME IInv, NEW next, CloseSession(next),
           next \in {WakeHandler, "idle"},
           messageChain' = messageChain \/ (messageChain # <<>> /\ messageChain' = Tail(messageChain)),
           waitingInbound' = waitingInbound - (Len(messageChain) - Len(messageChain')),
           frames' \in 0 .. MaxFrames, output' = output, batchesEnabled' = batchesEnabled,
           initial' \in {initial, "settled"}, outputEnded' = outputEnded,
           finishedRouting' = finishedRouting,
           unsent' = unsent \/ unsent' \in 0 .. MaxBuffered + 2,
           pump' = pump \/ (initial' = "settled" /\ pump' = "ended")
    PROVE  Core'
<1> USE LimitAssumption, BoundsAssumption
<1>1. /\ messageChain' \in Seq(Frames)
      /\ waitingInbound' = Len(messageChain')
      /\ Len(messageChain') <= Len(messageChain)
  <2>1. messageChain \in Seq(Frames) /\ waitingInbound = Len(messageChain)
    BY DEF IInv, Core, TypeOK, BuffersAreBounded
  <2>2. messageChain' \in Seq(Frames) /\ Len(messageChain') <= Len(messageChain)
    BY <2>1
  <2> QED BY <2>1, <2>2
<1>2. handler' = "idle" \/ handler' = WakeHandler
  BY DEF CloseSession
<1>3. unsent' \in Nat /\ unsent' <= MaxBuffered + 2
  BY DEF IInv, Core, TypeOK, BuffersAreBounded
<1>4. TypeOK'
  <2>1. /\ waitingInbound' \in 0 .. MaxBuffered
        /\ queue' \in 0 .. MaxOutput
        /\ messageChain' \in Seq(Frames)
    BY <1>1 DEF IInv, Core, TypeOK, BuffersAreBounded, CloseSession, Discard
  <2>2. /\ handler' \in {"idle", "initializing", "room", "woken", "toReply", "toWrite",
                          "reply", "write", "chained", "writing"}
        /\ pump' \in {"none", "receiving", "taken", "socket", "ended"}
        /\ initial' \in {"none", "answered", "failed", "settled"}
    BY <1>2 DEF IInv, Core, TypeOK, WakeHandler
  <2>3. /\ isClosed' \in BOOLEAN /\ connection' \in BOOLEAN /\ preparedConnection' \in BOOLEAN
        /\ shutdown' \in BOOLEAN /\ registry' = "absent"
    BY DEF CloseSession, Discard, IInv, Core, TypeOK
  <2> QED BY <1>3, <2>1, <2>2, <2>3 DEF IInv, Core, TypeOK
<1>5. BuffersAreBounded' /\ NothingLeftBehind'
  <2>1. BuffersAreBounded'
    BY <1>1, <1>3 DEF IInv, Core, BuffersAreBounded
  <2>2. shutdown' \/ finishedRouting'
    <3>1. CASE registry = "absent"
      BY <3>1 DEF IInv, ForgottenWhenDone, CloseSession, Discard
    <3>2. CASE registry # "absent"
      BY <3>2 DEF CloseSession, Discard
    <3> QED BY <3>1, <3>2
  <2>3. ~connection' /\ ~preparedConnection' /\ registry' = "absent"
    BY DEF CloseSession, Discard
  <2> QED BY <2>1, <2>2, <2>3 DEF NothingLeftBehind
<1>6. PumpFollowsInitialize'
  BY DEF IInv, Core, PumpFollowsInitialize
<1>7. SocketOK' /\ QueueOK'
  BY DEF SocketOK, QueueOK, CloseSession, Discard, IInv, Core, TypeOK
<1> QED BY <1>4, <1>5, <1>6, <1>7 DEF IInv, Core

-----------------------------------------------------------------------------
(* Every action keeps the invariant.                                       *)

LEMMA FramesKeepCore ==
    ASSUME IInv, (\E frame \in Frames : EnqueueFrame(frame)) \/ HandleFrame
    PROVE  Core'
<1> USE LimitAssumption, BoundsAssumption
<1>1. ASSUME NEW frame \in Frames, EnqueueFrame(frame) PROVE Core'
  <2>1. CASE TooManyFrames
    BY <1>1, <2>1, CloseKeepsCore DEF EnqueueFrame, agentVars, IInv, Core, TypeOK, BuffersAreBounded
  <2>2. CASE ~TooManyFrames
    <3>1. /\ messageChain' = Append(messageChain, frame)
          /\ waitingInbound' = waitingInbound + 1
          /\ Len(messageChain') = Len(messageChain) + 1
          /\ messageChain' \in Seq(Frames)
      BY <1>1, <2>2 DEF EnqueueFrame, IInv, Core, TypeOK
    <3>2. waitingInbound < MaxBuffered
      BY <2>2 DEF TooManyFrames, IInv, Core, TypeOK
    <3>3. TypeOK'
      BY <1>1, <2>2, <3>1, <3>2 DEF EnqueueFrame, IInv, Core, TypeOK, sessionVars, agentVars, connVars
    <3>4. BuffersAreBounded' /\ NothingLeftBehind'
      BY <1>1, <2>2, <3>1, <3>2 DEF EnqueueFrame, IInv, Core, TypeOK, BuffersAreBounded,
         NothingLeftBehind, sessionVars, agentVars, connVars
    <3>5. PumpFollowsInitialize' /\ SocketOK' /\ QueueOK'
      <4>1. PumpFollowsInitialize'
        BY <1>1, <2>2 DEF EnqueueFrame, IInv, Core, PumpFollowsInitialize,
           agentVars
      <4>2. SocketOK'
        BY <1>1, <2>2 DEF EnqueueFrame, IInv, Core, TypeOK, PumpFollowsInitialize,
           SocketOK, Unlooked, sessionVars, inVars, agentVars
      <4>3. QueueOK'
        BY <1>1, <2>2 DEF EnqueueFrame, IInv, Core, TypeOK, QueueOK, connVars,
           agentVars
      <4> QED BY <4>1, <4>2, <4>3
    <3> QED BY <3>3, <3>4, <3>5 DEF IInv, Core
  <2> QED BY <2>1, <2>2
<1>2. ASSUME HandleFrame PROVE Core'
  <2> DEFINE next == Handling(Head(messageChain))
  <2>1. /\ messageChain # <<>> /\ messageChain' = Tail(messageChain)
        /\ waitingInbound' = waitingInbound - 1
        /\ Len(messageChain') = Len(messageChain) - 1
        /\ messageChain' \in Seq(Frames)
        /\ Len(messageChain) \in Nat
    BY <1>2 DEF HandleFrame, IInv, Core, TypeOK
  <2>2. CASE next = "shutdown"
    <3>1. CloseSession("idle")
      BY <1>2, <2>2 DEF HandleFrame
    <3> QED BY <1>2, <2>1, <3>1, CloseKeepsCore DEF HandleFrame, agentVars, IInv, Core, TypeOK, BuffersAreBounded
  <2>3. CASE next # "shutdown"
    <3>1. next \in {"idle", "toReply", "initializing", "chained", "room"}
      BY <2>3 DEF Handling
    <3>2. handler' \in {"idle", "toReply", "initializing", "chained", "room", "toWrite"}
      BY <1>2, <2>3, <3>1 DEF HandleFrame
    <3>3. TypeOK' /\ BuffersAreBounded' /\ NothingLeftBehind'
      BY <1>2, <2>1, <2>3, <3>2 DEF HandleFrame, IInv, Core, TypeOK, BuffersAreBounded,
         NothingLeftBehind, sessionVars, agentVars, connVars
    <3>4. UNCHANGED <<sessionVars, connVars, agentVars, pump, unsent>>
      BY <1>2, <2>3 DEF HandleFrame
    <3>5. PumpFollowsInitialize' /\ SocketOK'
      BY <3>2, <3>4 DEF IInv, Core, TypeOK, PumpFollowsInitialize, SocketOK, Unlooked, sessionVars, agentVars
    <3>6. QueueOK'
      BY <3>4 DEF IInv, Core, QueueOK, connVars, agentVars
    <3> QED BY <3>3, <3>5, <3>6 DEF IInv, Core
  <2> QED BY <2>2, <2>3
<1> QED BY <1>1, <1>2

LEMMA InitializeKeepsCore ==
    ASSUME IInv,
           \/ \E answer \in {"answered", "failed", "refused"} : AgentAnswers(answer)
           \/ \E v2, sendFails \in BOOLEAN : Initialized(v2, sendFails)
           \/ \E sendFails \in BOOLEAN : InitializeFailed(sendFails)
    PROVE  Core'
<1> USE LimitAssumption, BoundsAssumption
<1>1. ASSUME NEW answer \in {"answered", "failed", "refused"}, AgentAnswers(answer) PROVE Core'
  <2>1. /\ initial' \in {"answered", "failed"} /\ initial = "none"
        /\ shutdown' \in {shutdown, TRUE}
        /\ queue' \in {queue, 0}
        /\ UNCHANGED <<sessionVars, inVars, batchesEnabled, outputEnded, finishedRouting,
                       output, registry, pump, unsent>>
    BY <1>1 DEF AgentAnswers
  <2>3. TypeOK'
    <3>1. shutdown' \in BOOLEAN
      BY <2>1 DEF IInv, Core, TypeOK
    <3>2. queue' \in 0 .. MaxOutput
      BY <2>1 DEF IInv, Core, TypeOK
    <3> QED BY <2>1, <3>1, <3>2 DEF IInv, Core, TypeOK, sessionVars, inVars
  <2>4. BuffersAreBounded'
    BY <2>1 DEF IInv, Core, BuffersAreBounded, inVars
  <2>5. NothingLeftBehind'
    <3>1. shutdown => shutdown'
      BY <2>1 DEF IInv, Core, TypeOK
    <3> QED BY <2>1, <3>1 DEF IInv, Core, NothingLeftBehind, sessionVars
  <2>2. PumpFollowsInitialize' /\ SocketOK' /\ QueueOK'
    <3>1. PumpFollowsInitialize'
      BY <1>1 DEF AgentAnswers, IInv, Core, PumpFollowsInitialize, agentVars
    <3>2. SocketOK'
      BY <1>1 DEF AgentAnswers, IInv, Core, TypeOK, PumpFollowsInitialize,
         SocketOK, Unlooked, sessionVars, inVars, agentVars
    <3>3. QueueOK'
      BY <1>1 DEF AgentAnswers, IInv, Core, TypeOK, QueueOK, connVars, agentVars
    <3> QED BY <3>1, <3>2, <3>3
  <2> QED BY <2>2, <2>3, <2>4, <2>5 DEF IInv, Core
<1>2. ASSUME NEW v2 \in BOOLEAN, NEW sendFails \in BOOLEAN, Initialized(v2, sendFails) PROVE Core'
  <2>1. /\ pump = "none" /\ initial # "settled" /\ Unlooked = 2
        /\ initial' = "settled" /\ handler' = "idle"
        /\ UNCHANGED <<messageChain, waitingInbound, frames, outputEnded, finishedRouting, output>>
    BY <1>2 DEF Initialized, IInv, Core, PumpFollowsInitialize, Unlooked
  <2>2. /\ unsent' \in {unsent, unsent + 1}
        /\ isClosed => unsent' = unsent
        /\ queue' \in {queue, 0}
        /\ pump' \in {"none", "receiving"}
    <3>1. CASE isClosed
      <4>1. unsent' = unsent /\ pump' = pump /\ queue' \in {queue, 0}
        BY <1>2, <3>1 DEF Initialized, Wanted, Discard
      <4> QED BY <2>1, <4>1
    <3>2. CASE ~isClosed /\ (sendFails \/ shutdown)
      BY <1>2, <2>1, <3>2 DEF Initialized, Wanted, IInv, Core, TypeOK
    <3>3. CASE ~isClosed /\ ~(sendFails \/ shutdown)
      BY <1>2, <2>1, <3>3 DEF Initialized, Wanted
    <3> QED BY <3>1, <3>2, <3>3
  <2>3. TypeOK'
    <3>1. /\ isClosed' \in BOOLEAN /\ connection' \in BOOLEAN
          /\ preparedConnection' \in BOOLEAN /\ batchesEnabled' \in BOOLEAN
          /\ shutdown' \in BOOLEAN
      <4>1. CASE isClosed
        <5>1. /\ UNCHANGED <<sessionVars, batchesEnabled>>
              /\ shutdown' = (shutdown \/ registry # "absent")
          BY <1>2, <4>1 DEF Initialized, Wanted, Discard
        <5> QED BY <5>1 DEF sessionVars, IInv, Core, TypeOK
      <4>2. CASE ~isClosed /\ (sendFails \/ shutdown)
        BY <1>2, <4>2 DEF Initialized, Wanted, IInv, Core, TypeOK
      <4>3. CASE ~isClosed /\ ~(sendFails \/ shutdown)
        BY <1>2, <4>3 DEF Initialized, Wanted, IInv, Core, TypeOK
      <4> QED BY <4>1, <4>2, <4>3
    <3>2. registry' \in {"absent", "registered"}
      BY <1>2 DEF Initialized, Discard
    <3>3. unsent' \in Nat /\ queue' \in 0 .. MaxOutput
      BY <2>2 DEF IInv, Core, TypeOK
    <3> QED BY <2>1, <2>2, <3>1, <3>2, <3>3 DEF IInv, Core, TypeOK
  <2>4. PumpFollowsInitialize'
    BY <2>1 DEF PumpFollowsInitialize
  <2>5. SocketOK'
    <3>1. CASE isClosed
      BY <1>2, <3>1 DEF Initialized, Wanted, sessionVars, SocketOK
    <3>2. CASE ~isClosed
      <4>1. unsent \in Nat /\ MaxBuffered \in Nat /\ unsent <= MaxBuffered
        BY <2>1, <3>2 DEF IInv, Core, TypeOK, SocketOK
      <4>2. unsent' + Unlooked' <= MaxBuffered + 2
        <5>1. Unlooked' = 0 \/ Unlooked' = 1
          BY <2>1, <2>2 DEF Unlooked
        <5>2. unsent' = unsent \/ unsent' = unsent + 1
          BY <2>2
        <5> QED BY <4>1, <5>1, <5>2
      <4> QED BY <4>2 DEF SocketOK
    <3> QED BY <3>1, <3>2
  <2>6. QueueOK'
    BY <2>1, <2>2 DEF IInv, Core, TypeOK, QueueOK
  <2>7. BuffersAreBounded'
    BY <2>1, <2>2 DEF IInv, Core, TypeOK, BuffersAreBounded, SocketOK
  <2>8. NothingLeftBehind'
    <3>1. CASE isClosed
      <4>1. /\ UNCHANGED <<sessionVars, finishedRouting>> /\ registry' = "absent"
            /\ shutdown' = (shutdown \/ registry # "absent")
        BY <1>2, <3>1 DEF Initialized, Wanted, Discard
      <4> QED BY <3>1, <4>1 DEF IInv, Core, NothingLeftBehind, sessionVars
    <3>2. CASE ~isClosed /\ (sendFails \/ shutdown)
      BY <1>2, <3>2 DEF Initialized, Wanted, NothingLeftBehind
    <3>3. CASE ~isClosed /\ ~(sendFails \/ shutdown)
      BY <1>2, <3>3 DEF Initialized, Wanted, NothingLeftBehind
    <3> QED BY <3>1, <3>2, <3>3
  <2> QED BY <2>3, <2>4, <2>5, <2>6, <2>7, <2>8 DEF IInv, Core
<1>3. ASSUME NEW sendFails \in BOOLEAN, InitializeFailed(sendFails) PROVE Core'
  <2>1. pump = "none" /\ initial # "settled"
    BY <1>3 DEF InitializeFailed, IInv, Core, PumpFollowsInitialize
  <2>2. unsent' \in 0 .. MaxBuffered + 2
    <3>1. CASE isClosed
      BY <1>3, <3>1 DEF InitializeFailed, IInv, Core, TypeOK, BuffersAreBounded
    <3>2. CASE ~isClosed
      BY <1>3, <2>1, <3>2 DEF InitializeFailed, IInv, Core, TypeOK, SocketOK, Unlooked
    <3> QED BY <3>1, <3>2
  <2> QED BY <1>3, <2>2, CloseKeepsCore DEF InitializeFailed, IInv, Core, TypeOK
<1> QED BY <1>1, <1>2, <1>3

LEMMA HandlerKeepsCore ==
    ASSUME IInv,
           \/ RoomResumes \/ SocketResumes \/ WriteInbound \/ StartWrite \/ WriteAborted \/ AgentReads
           \/ \E sendFails \in BOOLEAN : Reply(sendFails)
           \/ WriteFails
    PROVE  Core'
<1> USE LimitAssumption, BoundsAssumption
<1>1. CASE RoomResumes \/ WriteInbound \/ StartWrite \/ WriteAborted \/ AgentReads
  <2>1. /\ handler' \in {"toWrite", "room", "chained", "writing", "idle"}
        /\ UNCHANGED <<sessionVars, messageChain, waitingInbound, frames, agentVars,
                       connVars, pump, unsent>>
    BY <1>1 DEF RoomResumes, WriteInbound, StartWrite, WriteAborted, AgentReads
  <2>2. TypeOK' /\ BuffersAreBounded' /\ NothingLeftBehind'
    BY <2>1 DEF IInv, Core, TypeOK, BuffersAreBounded, NothingLeftBehind, sessionVars, agentVars, connVars
  <2>3. PumpFollowsInitialize' /\ SocketOK' /\ QueueOK'
    <3>1. PumpFollowsInitialize'
      BY <2>1 DEF IInv, Core, PumpFollowsInitialize, agentVars
    <3>2. SocketOK'
      BY <2>1 DEF IInv, Core, TypeOK, PumpFollowsInitialize, SocketOK, Unlooked,
         sessionVars, inVars, agentVars
    <3>3. QueueOK'
      BY <2>1 DEF IInv, Core, TypeOK, QueueOK, connVars, agentVars
    <3> QED BY <3>1, <3>2, <3>3
  <2> QED BY <2>2, <2>3 DEF IInv, Core
<1>2. CASE SocketResumes
  <2>1. TypeOK' /\ BuffersAreBounded' /\ NothingLeftBehind'
    BY <1>2 DEF SocketResumes, IInv, Core, TypeOK, BuffersAreBounded, NothingLeftBehind,
       sessionVars, agentVars, connVars
  <2>2. PumpFollowsInitialize'
    BY <1>2 DEF SocketResumes, IInv, Core, PumpFollowsInitialize, agentVars
  <2>3. SocketOK' /\ QueueOK'
    <3>1. SocketOK'
      BY <1>2 DEF SocketResumes, SocketHasCapacity, IInv, Core, TypeOK,
         PumpFollowsInitialize, SocketOK, Unlooked, sessionVars, inVars,
         agentVars
    <3>2. QueueOK'
      BY <1>2 DEF SocketResumes, SocketHasCapacity, IInv, Core, TypeOK, QueueOK,
         connVars, agentVars
    <3> QED BY <3>1, <3>2
  <2> QED BY <2>1, <2>2, <2>3 DEF IInv, Core
<1>3. ASSUME NEW sendFails \in BOOLEAN, Reply(sendFails) PROVE Core'
  <2>1. CASE ~isClosed /\ sendFails
    BY <1>3, <2>1, CloseKeepsCore DEF Reply, agentVars, IInv, Core, TypeOK
  <2>2. CASE isClosed \/ ~sendFails
    <3>1. TypeOK' /\ NothingLeftBehind'
      BY <1>3, <2>2 DEF Reply, IInv, Core, TypeOK, NothingLeftBehind, sessionVars, agentVars, connVars
    <3>2. PumpFollowsInitialize' /\ SocketOK' /\ QueueOK'
      <4>1. PumpFollowsInitialize'
        BY <1>3, <2>2 DEF Reply, IInv, Core, PumpFollowsInitialize, agentVars
      <4>2. SocketOK'
        BY <1>3, <2>2 DEF Reply, IInv, Core, TypeOK, PumpFollowsInitialize,
           SocketOK, Unlooked, sessionVars, inVars, agentVars
      <4>3. QueueOK'
        BY <1>3, <2>2 DEF Reply, IInv, Core, TypeOK, QueueOK, connVars, agentVars
      <4> QED BY <4>1, <4>2, <4>3
    <3>3. BuffersAreBounded'
      BY <1>3, <2>2, <3>1, <3>2 DEF Reply, IInv, Core, TypeOK, BuffersAreBounded, SocketOK, QueueOK, Unlooked
    <3> QED BY <3>1, <3>2, <3>3 DEF IInv, Core
  <2> QED BY <2>1, <2>2
<1>4. CASE WriteFails
  BY <1>4, CloseKeepsCore DEF WriteFails, agentVars, IInv, Core, TypeOK
<1> QED BY <1>1, <1>2, <1>3, <1>4

LEMMA PumpKeepsCore ==
    ASSUME IInv, Pump
    PROVE  Core'
<1> USE LimitAssumption, BoundsAssumption
<1>1. CASE PumpTakes
  <2>1. TypeOK' /\ BuffersAreBounded' /\ NothingLeftBehind'
    BY <1>1 DEF PumpTakes, WakeHandler, IInv, Core, TypeOK, BuffersAreBounded, NothingLeftBehind,
       sessionVars, agentVars
  <2>2. PumpFollowsInitialize' /\ SocketOK' /\ QueueOK'
    <3>1. PumpFollowsInitialize'
      BY <1>1 DEF PumpTakes, WakeHandler, IInv, Core, PumpFollowsInitialize,
         agentVars
    <3>2. SocketOK'
      BY <1>1 DEF PumpTakes, WakeHandler, IInv, Core, TypeOK,
         PumpFollowsInitialize, SocketOK, Unlooked, sessionVars, inVars,
         agentVars
    <3>3. QueueOK'
      BY <1>1 DEF PumpTakes, WakeHandler, IInv, Core, TypeOK, QueueOK, connVars,
         agentVars
    <3> QED BY <3>1, <3>2, <3>3
  <2> QED BY <2>1, <2>2 DEF IInv, Core
<1>2. CASE PumpResumes
  <2>1. TypeOK' /\ BuffersAreBounded' /\ NothingLeftBehind'
    BY <1>2 DEF PumpResumes, IInv, Core, TypeOK, BuffersAreBounded, NothingLeftBehind,
       sessionVars, inVars, agentVars, connVars
  <2>2. PumpFollowsInitialize'
    BY <1>2 DEF PumpResumes, IInv, Core, PumpFollowsInitialize, agentVars
  <2>3. SocketOK' /\ QueueOK'
    <3>1. SocketOK'
      BY <1>2 DEF PumpResumes, MayPump, SocketHasCapacity, IInv, Core, TypeOK,
         PumpFollowsInitialize, SocketOK, Unlooked, sessionVars, inVars,
         agentVars
    <3>2. QueueOK'
      BY <1>2 DEF PumpResumes, MayPump, SocketHasCapacity, IInv, Core, TypeOK,
         QueueOK, connVars, agentVars
    <3> QED BY <3>1, <3>2
  <2> QED BY <2>1, <2>2, <2>3 DEF IInv, Core
<1>3. CASE PumpEnds
  <2>1. initial = "settled" /\ pump = "receiving" /\ pump' = "ended"
    BY <1>3 DEF PumpEnds, EndPump, IInv, Core, PumpFollowsInitialize
  <2>2. CASE isClosed
    <3>1. UNCHANGED <<isClosed, connection, preparedConnection, registry, shutdown, queue,
                      handler, messageChain, waitingInbound, frames, agentVars, unsent>>
      BY <1>3, <2>2 DEF PumpEnds, EndPump, sessionVars, connVars
    <3>2. TypeOK' /\ BuffersAreBounded' /\ NothingLeftBehind'
      BY <2>1, <3>1 DEF IInv, Core, TypeOK, BuffersAreBounded, NothingLeftBehind, agentVars
    <3>3. PumpFollowsInitialize' /\ SocketOK' /\ QueueOK'
      <4>1. PumpFollowsInitialize'
        BY <2>1, <3>1 DEF IInv, Core, PumpFollowsInitialize, agentVars
      <4>2. SocketOK'
        BY <2>1, <3>1 DEF IInv, Core, TypeOK, PumpFollowsInitialize, SocketOK,
           Unlooked, sessionVars, inVars, agentVars
      <4>3. QueueOK'
        BY <2>1, <3>1 DEF IInv, Core, TypeOK, QueueOK, connVars, agentVars
      <4> QED BY <4>1, <4>2, <4>3
    <3> QED BY <3>2, <3>3 DEF IInv, Core
  <2>3. CASE ~isClosed
    BY <1>3, <2>1, <2>3, CloseKeepsCore DEF PumpEnds, EndPump, agentVars, IInv, Core, TypeOK
  <2> QED BY <2>2, <2>3
<1>4. ASSUME NEW sendFails \in BOOLEAN, PumpSends(sendFails) PROVE Core'
  <2>1. initial = "settled" /\ pump = "taken"
    BY <1>4 DEF PumpSends, IInv, Core, PumpFollowsInitialize
  <2>2. CASE ~isClosed /\ sendFails
    BY <1>4, <2>1, <2>2, CloseKeepsCore DEF PumpSends, agentVars, IInv, Core, TypeOK
  <2>3. CASE isClosed \/ ~sendFails
    <3>1. TypeOK' /\ NothingLeftBehind'
      BY <1>4, <2>3 DEF PumpSends, IInv, Core, TypeOK, NothingLeftBehind, sessionVars, agentVars, connVars
    <3>2. PumpFollowsInitialize' /\ SocketOK' /\ QueueOK'
      <4>1. PumpFollowsInitialize'
        BY <1>4, <2>1, <2>3 DEF PumpSends, IInv, Core, PumpFollowsInitialize,
           agentVars
      <4>2. SocketOK'
        BY <1>4, <2>1, <2>3 DEF PumpSends, IInv, Core, TypeOK,
           PumpFollowsInitialize, SocketOK, Unlooked, sessionVars, inVars,
           agentVars
      <4>3. QueueOK'
        BY <1>4, <2>1, <2>3 DEF PumpSends, IInv, Core, TypeOK, QueueOK, connVars,
           agentVars
      <4> QED BY <4>1, <4>2, <4>3
    <3>3. BuffersAreBounded'
      BY <1>4, <2>3, <3>1, <3>2 DEF PumpSends, IInv, Core, TypeOK, BuffersAreBounded, SocketOK, QueueOK, Unlooked
    <3> QED BY <3>1, <3>2, <3>3 DEF IInv, Core
  <2> QED BY <2>2, <2>3
<1> QED BY <1>1, <1>2, <1>3, <1>4 DEF Pump

LEMMA RestKeepsCore ==
    ASSUME IInv,
           \/ SocketCloses \/ ConnectionStops \/ Unregister \/ Stall
           \/ ClientReads \/ RouterQueues \/ OutputEnds \/ RouterEnds
    PROVE  Core'
<1> USE LimitAssumption, BoundsAssumption
<1>1. CASE SocketCloses \/ Stall
  BY <1>1, CloseKeepsCore DEF SocketCloses, Stall, agentVars, IInv, Core, TypeOK
<1>2. CASE ConnectionStops
  <2>1. CASE HoldsLease /\ ~isClosed
    <3>1. /\ isClosed' = TRUE /\ connection' = FALSE /\ preparedConnection' = FALSE
          /\ registry' = "absent" /\ shutdown' = TRUE /\ queue' = 0 /\ handler' = WakeHandler
          /\ UNCHANGED <<messageChain, waitingInbound, frames, agentVars, pump, unsent>>
      BY <1>2, <2>1 DEF ConnectionStops
    <3>2. TypeOK'
      <4>1. queue' \in 0 .. MaxOutput
        BY <3>1 DEF IInv, Core, TypeOK
      <4>2. handler' \in {"idle", "initializing", "room", "woken", "toReply", "toWrite",
                           "reply", "write", "chained", "writing"}
        BY <3>1 DEF WakeHandler, IInv, Core, TypeOK
      <4> QED BY <3>1, <4>1, <4>2 DEF IInv, Core, TypeOK, agentVars
    <3>3. BuffersAreBounded' /\ NothingLeftBehind' /\ SocketOK'
      BY <3>1 DEF IInv, Core, BuffersAreBounded, NothingLeftBehind, SocketOK
    <3>4. PumpFollowsInitialize' /\ QueueOK'
      BY <3>1 DEF IInv, Core, TypeOK, PumpFollowsInitialize, QueueOK, agentVars
    <3> QED BY <3>2, <3>3, <3>4 DEF Core
  <2>2. CASE ~(HoldsLease /\ ~isClosed)
    <3>1. /\ shutdown' = TRUE /\ queue' = 0 /\ handler' = WakeHandler
          /\ UNCHANGED <<sessionVars, registry, messageChain, waitingInbound, frames,
                         agentVars, pump, unsent>>
      BY <1>2, <2>2 DEF ConnectionStops
    <3>3. TypeOK'
      <4>1. queue' \in 0 .. MaxOutput /\ shutdown' \in BOOLEAN
        BY <3>1 DEF IInv, Core, TypeOK
      <4>2. handler' \in {"idle", "initializing", "room", "woken", "toReply", "toWrite",
                           "reply", "write", "chained", "writing"}
        BY <3>1 DEF WakeHandler, IInv, Core, TypeOK
      <4> QED BY <3>1, <4>1, <4>2 DEF IInv, Core, TypeOK, sessionVars, agentVars
    <3>4. BuffersAreBounded' /\ NothingLeftBehind'
      BY <3>1 DEF IInv, Core, BuffersAreBounded, NothingLeftBehind, sessionVars
    <3>2. PumpFollowsInitialize' /\ SocketOK' /\ QueueOK'
      <4>1. PumpFollowsInitialize'
        BY <1>2, <2>2 DEF ConnectionStops, WakeHandler, IInv, Core,
           PumpFollowsInitialize, agentVars
      <4>2. SocketOK'
        BY <1>2, <2>2 DEF ConnectionStops, WakeHandler, IInv, Core, TypeOK,
           PumpFollowsInitialize, SocketOK, Unlooked, sessionVars, inVars,
           agentVars
      <4>3. QueueOK'
        BY <1>2, <2>2 DEF ConnectionStops, WakeHandler, IInv, Core, TypeOK,
           QueueOK, connVars, agentVars
      <4> QED BY <4>1, <4>2, <4>3
    <3> QED BY <3>2, <3>3, <3>4 DEF IInv, Core
  <2> QED BY <2>1, <2>2
<1>3. CASE Unregister \/ RouterQueues \/ OutputEnds \/ RouterEnds
  <2>1. TypeOK'
    <3>1. CASE Unregister
      BY <1>3, <3>1 DEF Unregister, IInv, Core, TypeOK, sessionVars, inVars, agentVars
    <3>2. CASE RouterQueues
      <4>1. output' \in 0 .. MaxOutput /\ queue' \in 0 .. MaxOutput
        BY <3>2 DEF RouterQueues, IInv, Core, TypeOK, QueueOK
      <4> QED BY <3>2, <4>1 DEF RouterQueues, IInv, Core, TypeOK, sessionVars, inVars
    <3>3. CASE OutputEnds
      BY <3>3 DEF OutputEnds, IInv, Core, TypeOK, sessionVars, inVars, connVars
    <3>4. CASE RouterEnds
      <4>1. handler' \in {"idle", "initializing", "room", "woken", "toReply", "toWrite",
                           "reply", "write", "chained", "writing"}
        BY <3>4 DEF RouterEnds, WakeHandler, IInv, Core, TypeOK
      <4> QED BY <3>4, <4>1 DEF RouterEnds, IInv, Core, TypeOK, sessionVars, connVars
    <3> QED BY <1>3, <3>1, <3>2, <3>3, <3>4
  <2>3. BuffersAreBounded' /\ NothingLeftBehind'
    BY <1>3 DEF Unregister, RouterQueues, OutputEnds, RouterEnds, IInv, Core, TypeOK,
       BuffersAreBounded, NothingLeftBehind, sessionVars, inVars, connVars
  <2>2. PumpFollowsInitialize' /\ SocketOK' /\ QueueOK'
    <3>1. PumpFollowsInitialize'
      BY <1>3 DEF Unregister, RouterQueues, OutputEnds, RouterEnds,
         WakeHandler, IInv, Core, PumpFollowsInitialize, agentVars
    <3>2. SocketOK'
      BY <1>3 DEF Unregister, RouterQueues, OutputEnds, RouterEnds,
         WakeHandler, IInv, Core, TypeOK, PumpFollowsInitialize, SocketOK, Unlooked,
         sessionVars, inVars, agentVars
    <3>3. QueueOK'
      BY <1>3 DEF Unregister, RouterQueues, OutputEnds, RouterEnds,
         WakeHandler, IInv, Core, TypeOK, QueueOK, connVars, agentVars
    <3> QED BY <3>1, <3>2, <3>3
  <2> QED BY <2>1, <2>2, <2>3 DEF IInv, Core
<1>4. CASE ClientReads
  <2>1. unsent' = unsent - 1 /\ unsent \in Nat /\ unsent > 0
    BY <1>4 DEF ClientReads, IInv, Core, TypeOK
  <2>2. TypeOK' /\ BuffersAreBounded' /\ NothingLeftBehind'
    BY <1>4, <2>1 DEF ClientReads, IInv, Core, TypeOK, BuffersAreBounded, NothingLeftBehind,
       sessionVars, inVars, agentVars, connVars
  <2>3. PumpFollowsInitialize' /\ SocketOK' /\ QueueOK'
    <3>1. PumpFollowsInitialize'
      BY <1>4, <2>1 DEF ClientReads, IInv, Core, PumpFollowsInitialize, agentVars
    <3>2. SocketOK'
      BY <1>4, <2>1 DEF ClientReads, IInv, Core, TypeOK, PumpFollowsInitialize,
         SocketOK, Unlooked, sessionVars, inVars, agentVars
    <3>3. QueueOK'
      BY <1>4, <2>1 DEF ClientReads, IInv, Core, TypeOK, QueueOK, connVars,
         agentVars
    <3> QED BY <3>1, <3>2, <3>3
  <2> QED BY <2>2, <2>3 DEF IInv, Core
<1> QED BY <1>1, <1>2, <1>3, <1>4

LEMMA StutterKeepsCore ==
    ASSUME IInv, UNCHANGED vars
    PROVE  Core'
BY DEF vars, sessionVars, inVars, agentVars, connVars, IInv, Core, TypeOK, BuffersAreBounded,
   NothingLeftBehind, PumpFollowsInitialize, SocketOK, QueueOK, Unlooked

(* A connection leaves the registry only with its end, and enters it only  *)
(* to be discarded at once if that has come.                               *)
LEMMA RegistryIsRight ==
    ASSUME IInv, [Next]_vars
    PROVE  ForgottenWhenDone'
<1> USE DEF IInv, ForgottenWhenDone, sessionVars, inVars, agentVars, connVars, Discard, CloseSession
<1>1. CASE UNCHANGED vars
  BY <1>1 DEF vars
<1>2. CASE SocketCloses \/ ConnectionStops \/ Unregister \/ Stall
  BY <1>2 DEF SocketCloses, ConnectionStops, Unregister, Stall, Core, TypeOK
<1>3. CASE (\E frame \in Frames : EnqueueFrame(frame)) \/ HandleFrame
  BY <1>3 DEF EnqueueFrame, HandleFrame, Core, TypeOK
<1>4. CASE \E answer \in {"answered", "failed", "refused"} : AgentAnswers(answer)
  BY <1>4 DEF AgentAnswers
<1>5. ASSUME NEW v2 \in BOOLEAN, NEW sendFails \in BOOLEAN, Initialized(v2, sendFails)
      PROVE  ForgottenWhenDone'
  <2>1. finishedRouting' = finishedRouting
    BY <1>5 DEF Initialized
  <2>2. CASE isClosed
    <3>1. shutdown' = (shutdown \/ registry # "absent")
      BY <1>5, <2>2 DEF Initialized, Wanted
    <3> QED BY <2>1, <3>1
  <2>3. CASE ~isClosed /\ (sendFails \/ shutdown)
    BY <1>5, <2>3 DEF Initialized, Wanted
  <2>4. CASE ~isClosed /\ ~(sendFails \/ shutdown)
    BY <1>5, <2>4 DEF Initialized, Wanted
  <2> QED BY <2>2, <2>3, <2>4
<1>6. ASSUME NEW sendFails \in BOOLEAN, InitializeFailed(sendFails) \/ Reply(sendFails)
      PROVE  ForgottenWhenDone'
  <2>1. CASE InitializeFailed(sendFails)
    BY <2>1 DEF InitializeFailed
  <2>2. CASE Reply(sendFails)
    <3>1. CASE ~isClosed /\ sendFails
      BY <2>2, <3>1 DEF Reply
    <3>2. CASE isClosed \/ ~sendFails
      BY <2>2, <3>2 DEF Reply
    <3> QED BY <3>1, <3>2
  <2> QED BY <1>6, <2>1, <2>2
<1>7. CASE AgentReads \/ WriteFails \/ ClientReads \/ RouterQueues \/ OutputEnds \/ RouterEnds
  BY <1>7 DEF AgentReads, WriteFails, ClientReads, RouterQueues, OutputEnds, RouterEnds
<1>8. CASE RoomResumes \/ SocketResumes \/ WriteInbound \/ StartWrite \/ WriteAborted
  BY <1>8 DEF RoomResumes, SocketResumes, WriteInbound, StartWrite, WriteAborted
<1>9. CASE Pump
  BY <1>9 DEF Pump, PumpTakes, PumpResumes, PumpEnds, EndPump, PumpSends
<1> QED BY <1>1, <1>2, <1>3, <1>4, <1>5, <1>6, <1>7, <1>8, <1>9 DEF Next, Handle

(* IInv holds in every reachable state: each action keeps it. *)
THEOREM Invariance == Spec => []IInv
<1>1. Init => IInv
  BY InitIInv
<1>2. IInv /\ [Next]_vars => Core'
  BY FramesKeepCore, InitializeKeepsCore, HandlerKeepsCore, PumpKeepsCore, RestKeepsCore,
     StutterKeepsCore DEF Next, Handle
<1>3. IInv /\ [Next]_vars => IInv'
  BY <1>2, RegistryIsRight DEF IInv
<1> QED BY <1>1, <1>3, PTL DEF Spec

(* The variables of a session keep their types. *)
THEOREM TypeCorrect == Spec => []TypeOK
<1>1. IInv => TypeOK
  BY DEF IInv, Core
<1> QED BY <1>1, Invariance, PTL

(* What a client can make a session hold is bounded, whatever the limit is *)
(* and however many frames and messages there are.                         *)
THEOREM ClientCannotOverfill == Spec => []BuffersAreBounded
<1>1. IInv => BuffersAreBounded
  BY DEF IInv, Core
<1> QED BY <1>1, Invariance, PTL

(* A closed session leaves no connection behind. *)
THEOREM ClosedSessionsAreGone == Spec => []NothingLeftBehind
<1>1. IInv => NothingLeftBehind
  BY DEF IInv, Core
<1> QED BY <1>1, Invariance, PTL

-----------------------------------------------------------------------------
(* How far initialize is: its answer is waited for by the frame that is    *)
(* handled, and with a connection there is a pump.  A request waits for    *)
(* room only where there is none, and only while something may make some.  *)
InitializeFits ==
    /\ initial \in {"answered", "failed"} => handler = "initializing"
    /\ handler = "initializing" => initial # "settled"
    /\ finishedRouting => initial = "settled"

ConnectionFits ==
    /\ connection => ~isClosed /\ HoldsLease
    /\ ~isClosed /\ initial = "settled" => connection

RoomIsMissed ==
    /\ handler = "room" => connection /\ ~shutdown /\ ~finishedRouting /\ queue > 0
    /\ handler = "woken" => connection \/ isClosed

(* Who can go on: the pump, the end of the router, the timer of a socket   *)
(* that is not read, and the handler, one whose initialize waits for a     *)
(* connection that has shut down included.                                 *)
PumpGoesOn ==
    \/ pump = "receiving" /\ (isClosed \/ queue > 0 \/ finishedRouting)
    \/ pump = "taken"
    \/ pump = "socket" /\ SocketHasCapacity

RouterGoesOn == pump # "none" /\ (outputEnded \/ shutdown) /\ ~finishedRouting

SocketIsGivenUp == WaitsForSocket /\ ~SocketHasCapacity

HandlerGoesOn ==
    \/ handler = "idle" /\ messageChain # <<>>
    \/ handler = "initializing" /\ (initial # "none" \/ shutdown)
    \/ handler \in {"woken", "reply", "write", "chained"}
    \/ handler \in {"toReply", "toWrite"} /\ SocketHasCapacity
    \/ handler = "writing" /\ shutdown

(* Nothing that SessionsEnd speaks of waits where nobody can go on: the    *)
(* agent, its connection and the client have no part in it any more.  The  *)
(* handler of a closed session waits only with a write that the agent has. *)
SessionCanEnd ==
    /\ connection /\ (outputEnded \/ shutdown) => PumpGoesOn \/ RouterGoesOn \/ SocketIsGivenUp
    /\ isClosed /\ HoldsLease => PumpGoesOn
    /\ isClosed /\ (shutdown \/ handler # "writing") /\ (handler # "idle" \/ messageChain # <<>>) =>
           HandlerGoesOn
    /\ Waiting => HandlerGoesOn \/ PumpGoesOn \/ SocketIsGivenUp

(* When a session has closed it hands the agent nothing more: a write that *)
(* the agent does not have by then is refused before it begins, as the     *)
(* connection has shut down or its router has ended (writeInboundMessage). *)
NoWriteBegins == [][isClosed /\ handler # "writing" => handler' # "writing"]_vars

(* The inductive part, with IInv. *)
SessionFits == InitializeFits /\ ConnectionFits /\ RoomIsMissed

(* A session that closes while initialize is handled settles its answer,   *)
(* or leaves it to the handler.                                            *)
LEMMA ClosingFits ==
    ASSUME SessionFits, NEW next, CloseSession(next), finishedRouting' = finishedRouting,
           \/ next = WakeHandler /\ initial' = initial
           \/ next = "idle" /\ handler # "initializing" /\ initial' = initial
           \/ next = "idle" /\ initial' = "settled"
    PROVE  SessionFits'
<1>1. isClosed' /\ handler' = next /\ ~connection'
  BY DEF CloseSession
<1>2. next # "room" /\ (next = "initializing" => handler = "initializing")
  BY DEF WakeHandler
<1>3. handler = "initializing" => next = "initializing" \/ initial' = "settled"
  BY DEF WakeHandler
<1>4. InitializeFits'
  BY <1>1, <1>2, <1>3 DEF SessionFits, InitializeFits
<1>5. ConnectionFits' /\ RoomIsMissed'
  BY <1>1, <1>2 DEF ConnectionFits, RoomIsMissed
<1> QED BY <1>4, <1>5 DEF SessionFits

(* Every action keeps it. *)
LEMMA FramesFit ==
    ASSUME IInv, SessionFits, (\E frame \in Frames : EnqueueFrame(frame)) \/ HandleFrame
    PROVE  SessionFits'
<1>1. CASE \E frame \in Frames : EnqueueFrame(frame)
  <2>1. CASE CloseSession(WakeHandler) /\ UNCHANGED agentVars
    <3>1. initial' = initial /\ finishedRouting' = finishedRouting
      BY <2>1 DEF agentVars
    <3> QED BY <2>1, <3>1, ClosingFits
  <2>2. CASE UNCHANGED <<sessionVars, connVars, handler, agentVars, pump>>
    BY <2>2 DEF SessionFits, InitializeFits, ConnectionFits, RoomIsMissed, HoldsLease,
                sessionVars, connVars, agentVars
  <2> QED BY <1>1, <2>1, <2>2 DEF EnqueueFrame
<1>2. CASE HandleFrame
  <2> DEFINE next == Handling(Head(messageChain))
  <2>1. handler = "idle" /\ UNCHANGED <<agentVars, pump>>
    BY <1>2 DEF HandleFrame
  <2>2. initial' = initial /\ finishedRouting' = finishedRouting /\ pump' = pump
    BY <2>1 DEF agentVars
  <2>3. CASE next = "shutdown"
    <3>1. CloseSession("idle")
      BY <1>2, <2>3 DEF HandleFrame
    <3> QED BY <2>1, <2>2, <3>1, ClosingFits
  <2>4. CASE next # "shutdown"
    <3>1. /\ handler' = IF next = "room" /\ HasRoom THEN "toWrite" ELSE next
          /\ UNCHANGED <<sessionVars, connVars>>
      BY <1>2, <2>4 DEF HandleFrame
    <3>2. UNCHANGED <<isClosed, connection, shutdown, queue>>
      BY <3>1 DEF sessionVars, connVars
    <3>3. /\ next = "room" => connection
          /\ next = "initializing" => ~isClosed /\ ~connection
      BY DEF Handling
    <3>4. next = "room" /\ ~HasRoom => ~shutdown /\ ~finishedRouting /\ queue > 0
      BY DEF HasRoom, IInv, Core, TypeOK
    <3>8. next # "woken"
      BY DEF Handling
    <3>5. InitializeFits'
      BY <2>1, <2>2, <3>1, <3>2, <3>3 DEF SessionFits, InitializeFits, ConnectionFits
    <3>6. ConnectionFits'
      BY <2>2, <3>2 DEF SessionFits, ConnectionFits, HoldsLease
    <3>7. RoomIsMissed'
      BY <2>1, <2>2, <3>1, <3>2, <3>3, <3>4, <3>8 DEF RoomIsMissed
    <3> QED BY <3>5, <3>6, <3>7 DEF SessionFits
  <2> QED BY <2>3, <2>4
<1> QED BY <1>1, <1>2

LEMMA InitializeKeepsFits ==
    ASSUME IInv, SessionFits,
           \/ \E answer \in {"answered", "failed", "refused"} : AgentAnswers(answer)
           \/ \E v2, sendFails \in BOOLEAN : Initialized(v2, sendFails)
           \/ \E sendFails \in BOOLEAN : InitializeFailed(sendFails)
    PROVE  SessionFits'
<1>1. ASSUME NEW answer \in {"answered", "failed", "refused"}, AgentAnswers(answer)
      PROVE  SessionFits'
  <2>1. /\ handler = "initializing" /\ initial = "none" /\ initial' \in {"answered", "failed"}
        /\ UNCHANGED <<isClosed, connection, handler, finishedRouting, pump>>
    BY <1>1 DEF AgentAnswers, sessionVars, inVars
  <2> QED BY <2>1 DEF SessionFits, InitializeFits, ConnectionFits, RoomIsMissed, HoldsLease
<1>2. ASSUME NEW v2 \in BOOLEAN, NEW sendFails \in BOOLEAN, Initialized(v2, sendFails)
      PROVE  SessionFits'
  <2>1. initial' = "settled" /\ handler' = "idle" /\ finishedRouting' = finishedRouting
    BY <1>2 DEF Initialized
  <2>2. CASE isClosed
    <3>1. UNCHANGED <<isClosed, connection, pump>>
      BY <1>2, <2>2 DEF Initialized, Wanted, sessionVars
    <3> QED BY <2>1, <2>2, <3>1 DEF SessionFits, InitializeFits, ConnectionFits, RoomIsMissed
  <2>3. CASE ~isClosed /\ (sendFails \/ shutdown)
    <3>1. isClosed' = TRUE /\ connection' = FALSE
      BY <1>2, <2>3 DEF Initialized, Wanted
    <3> QED BY <2>1, <3>1 DEF SessionFits, InitializeFits, ConnectionFits, RoomIsMissed
  <2>4. CASE ~isClosed /\ ~(sendFails \/ shutdown)
    <3>1. isClosed' = FALSE /\ connection' = TRUE /\ pump' = "receiving"
      BY <1>2, <2>4 DEF Initialized, Wanted, IInv, Core, TypeOK
    <3> QED BY <2>1, <3>1 DEF SessionFits, InitializeFits, ConnectionFits, RoomIsMissed, HoldsLease
  <2> QED BY <2>2, <2>3, <2>4
<1>3. ASSUME NEW sendFails \in BOOLEAN, InitializeFailed(sendFails) PROVE SessionFits'
  BY <1>3, ClosingFits DEF InitializeFailed
<1> QED BY <1>1, <1>2, <1>3

LEMMA HandlerKeepsFits ==
    ASSUME IInv, SessionFits,
           \/ RoomResumes \/ SocketResumes \/ WriteInbound \/ StartWrite \/ WriteAborted \/ AgentReads
           \/ \E sendFails \in BOOLEAN : Reply(sendFails)
           \/ WriteFails
    PROVE  SessionFits'
<1>1. CASE RoomResumes
  <2>1. /\ handler = "woken" /\ handler' = IF HasRoom THEN "toWrite" ELSE "room"
        /\ UNCHANGED <<isClosed, connection, initial, finishedRouting, shutdown, queue, pump>>
    BY <1>1 DEF RoomResumes, sessionVars, agentVars, connVars
  <2>2. ~HasRoom => ~shutdown /\ ~finishedRouting /\ queue > 0
    BY DEF HasRoom, IInv, Core, TypeOK
  <2>3. ~HasRoom => connection
    BY <2>1, <2>2 DEF SessionFits, RoomIsMissed, IInv, Core, NothingLeftBehind
  <2>4. InitializeFits' /\ ConnectionFits'
    BY <2>1 DEF SessionFits, InitializeFits, ConnectionFits, HoldsLease
  <2>5. RoomIsMissed'
    BY <2>1, <2>2, <2>3 DEF RoomIsMissed, HasRoom
  <2> QED BY <2>4, <2>5 DEF SessionFits
<1>2. CASE SocketResumes \/ WriteInbound \/ StartWrite \/ WriteAborted \/ AgentReads
  <2>1. /\ handler \notin {"idle", "initializing", "room", "woken"}
        /\ handler' \notin {"initializing", "room", "woken"}
        /\ UNCHANGED <<isClosed, connection, initial, finishedRouting, pump>>
    BY <1>2 DEF SocketResumes, WriteInbound, StartWrite, WriteAborted, AgentReads, sessionVars, agentVars
  <2> QED BY <2>1 DEF SessionFits, InitializeFits, ConnectionFits, RoomIsMissed, HoldsLease
<1>3. ASSUME NEW sendFails \in BOOLEAN, Reply(sendFails) PROVE SessionFits'
  <2>1. handler = "reply" /\ UNCHANGED <<initial, finishedRouting, pump>>
    BY <1>3 DEF Reply, agentVars
  <2>2. CASE CloseSession("idle")
    BY <2>1, <2>2, ClosingFits
  <2>3. CASE handler' = "idle" /\ UNCHANGED sessionVars
    BY <2>1, <2>3 DEF SessionFits, InitializeFits, ConnectionFits, RoomIsMissed, HoldsLease,
                      sessionVars
  <2> QED BY <1>3, <2>2, <2>3 DEF Reply
<1>4. CASE WriteFails
  <2>1. handler = "writing" /\ CloseSession("idle") /\ UNCHANGED <<initial, finishedRouting>>
    BY <1>4 DEF WriteFails, agentVars
  <2> QED BY <2>1, ClosingFits
<1> QED BY <1>1, <1>2, <1>3, <1>4

LEMMA PumpKeepsFits ==
    ASSUME IInv, SessionFits,
           \/ PumpTakes \/ PumpResumes \/ PumpEnds \/ Stall \/ ClientReads
           \/ \E sendFails \in BOOLEAN : PumpSends(sendFails)
    PROVE  SessionFits'
<1>1. CASE PumpTakes
  <2>1. /\ handler' = WakeHandler /\ pump = "receiving" /\ pump' = "taken"
        /\ UNCHANGED <<isClosed, connection, initial, finishedRouting>>
    BY <1>1 DEF PumpTakes, sessionVars, agentVars
  <2> QED BY <2>1 DEF WakeHandler, SessionFits, InitializeFits, ConnectionFits, RoomIsMissed,
                      HoldsLease
<1>2. CASE ClientReads
  BY <1>2 DEF ClientReads, sessionVars, inVars, agentVars, connVars, SessionFits, InitializeFits,
              ConnectionFits, RoomIsMissed, HoldsLease
<1>3. CASE PumpResumes
  <2>1. /\ pump = "socket" /\ (pump' = "ended" => isClosed) /\ pump' # "none"
        /\ UNCHANGED <<isClosed, connection, initial, finishedRouting, handler, shutdown, queue>>
    BY <1>3 DEF PumpResumes, sessionVars, inVars, agentVars, connVars
  <2> QED BY <2>1 DEF SessionFits, InitializeFits, ConnectionFits, RoomIsMissed, HoldsLease
<1>4. CASE Stall
  <2>1. CloseSession(WakeHandler) /\ UNCHANGED <<initial, finishedRouting>>
    BY <1>4 DEF Stall, agentVars
  <2> QED BY <2>1, ClosingFits
<1>5. CASE PumpEnds
  <2>1. UNCHANGED <<initial, finishedRouting>>
    BY <1>5 DEF PumpEnds, agentVars
  <2>2. CASE isClosed
    <3>1. UNCHANGED <<isClosed, connection, handler, shutdown, queue>>
      BY <1>5, <2>2 DEF PumpEnds, EndPump, sessionVars, connVars
    <3> QED BY <2>1, <2>2, <3>1 DEF SessionFits, InitializeFits, ConnectionFits, RoomIsMissed
  <2>3. CASE ~isClosed
    BY <1>5, <2>1, <2>3, ClosingFits DEF PumpEnds, EndPump
  <2> QED BY <2>2, <2>3
<1>6. ASSUME NEW sendFails \in BOOLEAN, PumpSends(sendFails) PROVE SessionFits'
  <2>1. UNCHANGED <<initial, finishedRouting>> /\ pump = "taken"
    BY <1>6 DEF PumpSends, agentVars
  <2>2. CASE CloseSession(WakeHandler)
    BY <2>1, <2>2, ClosingFits
  <2>3. CASE /\ UNCHANGED <<sessionVars, connVars, handler>>
             /\ (isClosed \/ pump' = "socket")
    BY <2>1, <2>3 DEF SessionFits, InitializeFits, ConnectionFits, RoomIsMissed, HoldsLease,
                      sessionVars, connVars
  <2> QED BY <1>6, <2>2, <2>3 DEF PumpSends
<1> QED BY <1>1, <1>2, <1>3, <1>4, <1>5, <1>6

LEMMA ConnectionKeepsFits ==
    ASSUME IInv, SessionFits,
           \/ SocketCloses \/ ConnectionStops \/ Unregister
           \/ RouterQueues \/ OutputEnds \/ RouterEnds
    PROVE  SessionFits'
<1>1. CASE SocketCloses
  <2>1. CloseSession(WakeHandler) /\ UNCHANGED <<initial, finishedRouting>>
    BY <1>1 DEF SocketCloses, agentVars
  <2> QED BY <2>1, ClosingFits
<1>2. CASE ConnectionStops
  <2>1. handler' = WakeHandler /\ UNCHANGED <<initial, finishedRouting, pump>>
    BY <1>2 DEF ConnectionStops, agentVars
  <2>2. \/ isClosed' /\ ~connection'
        \/ UNCHANGED <<isClosed, connection>>
    BY <1>2 DEF ConnectionStops, sessionVars
  <2> QED BY <2>1, <2>2 DEF WakeHandler, SessionFits, InitializeFits, ConnectionFits, RoomIsMissed,
                            HoldsLease
<1>3. CASE Unregister \/ OutputEnds
  <2>1. UNCHANGED <<isClosed, connection, initial, finishedRouting, handler, shutdown, queue, pump>>
    BY <1>3 DEF Unregister, OutputEnds, sessionVars, inVars, agentVars, connVars
  <2> QED BY <2>1 DEF SessionFits, InitializeFits, ConnectionFits, RoomIsMissed, HoldsLease
<1>4. CASE RouterQueues
  <2>1. /\ UNCHANGED <<isClosed, connection, initial, finishedRouting, handler, shutdown, pump>>
        /\ queue' = queue + 1 /\ queue \in Nat
    BY <1>4 DEF RouterQueues, sessionVars, inVars, IInv, Core, TypeOK
  <2> QED BY <2>1 DEF SessionFits, InitializeFits, ConnectionFits, RoomIsMissed, HoldsLease
<1>5. CASE RouterEnds
  <2>1. /\ pump # "none" /\ handler' = WakeHandler
        /\ UNCHANGED <<isClosed, connection, initial, pump>>
    BY <1>5 DEF RouterEnds, sessionVars
  <2>2. initial = "settled"
    BY <2>1 DEF IInv, Core, PumpFollowsInitialize
  <2> QED BY <2>1, <2>2 DEF WakeHandler, SessionFits, InitializeFits, ConnectionFits, RoomIsMissed,
                            HoldsLease
<1> QED BY <1>1, <1>2, <1>3, <1>4, <1>5

(* However the client, the agent, the connection and the limits end what   *)
(* they have begun: of what SessionsEnd promises, nothing waits for anyone *)
(* who will not come.  A closed session may still wait for the agent with  *)
(* a write that the agent had before, and begins no other.  The safety     *)
(* part of SessionsEnd, for any limit and any number of frames and         *)
(* messages.                                                               *)
THEOREM SessionsCanEnd == Spec => []SessionCanEnd /\ NoWriteBegins
<1>1. Init => SessionFits
  BY DEF Init, SessionFits, InitializeFits, ConnectionFits, RoomIsMissed, HoldsLease
<1>2. IInv /\ SessionFits /\ [Next]_vars => SessionFits'
  <2> SUFFICES ASSUME IInv, SessionFits, [Next]_vars PROVE SessionFits'
    OBVIOUS
  <2>1. CASE UNCHANGED vars
    <3>1. UNCHANGED <<isClosed, connection, initial, finishedRouting, handler, shutdown, queue, pump>>
      BY <2>1 DEF vars, sessionVars, inVars, agentVars, connVars
    <3> QED BY <3>1 DEF SessionFits, InitializeFits, ConnectionFits, RoomIsMissed, HoldsLease
  <2>2. CASE Next
    BY <2>2, FramesFit, InitializeKeepsFits, HandlerKeepsFits, PumpKeepsFits, ConnectionKeepsFits
       DEF Next, Handle, Pump
  <2> QED BY <2>1, <2>2
<1>3. IInv /\ SessionFits => SessionCanEnd
  <2> SUFFICES ASSUME IInv, SessionFits PROVE SessionCanEnd
    OBVIOUS
  <2>1. /\ pump \in {"none", "receiving", "taken", "socket", "ended"}
        /\ handler \in {"idle", "initializing", "room", "woken", "toReply", "toWrite",
                        "reply", "write", "chained", "writing"}
        /\ initial \in {"none", "answered", "failed", "settled"}
        /\ queue \in Nat
    BY DEF IInv, Core, TypeOK
  <2>2. connection => pump \in {"receiving", "taken", "socket"} /\ ~isClosed
    BY <2>1 DEF SessionFits, ConnectionFits, HoldsLease
  <2>3. connection /\ (outputEnded \/ shutdown) => PumpGoesOn \/ RouterGoesOn \/ SocketIsGivenUp
    BY <2>2 DEF PumpGoesOn, RouterGoesOn, SocketIsGivenUp, WaitsForSocket
  <2>4. isClosed /\ HoldsLease => PumpGoesOn
    BY <2>1 DEF HoldsLease, PumpGoesOn, SocketHasCapacity
  <2>5. isClosed /\ (shutdown \/ handler # "writing") /\ (handler # "idle" \/ messageChain # <<>>) =>
            HandlerGoesOn
    BY <2>1, <2>2 DEF HandlerGoesOn, SocketHasCapacity, SessionFits, InitializeFits, RoomIsMissed,
                      IInv, Core, NothingLeftBehind
  <2>6. Waiting => HandlerGoesOn \/ PumpGoesOn \/ SocketIsGivenUp
    BY <2>2 DEF Waiting, HandlerGoesOn, PumpGoesOn, SocketIsGivenUp, WaitsForSocket, SessionFits,
                RoomIsMissed
  <2> QED BY <2>3, <2>4, <2>5, <2>6 DEF SessionCanEnd
<1>4. IInv /\ [Next]_vars => [isClosed /\ handler # "writing" => handler' # "writing"]_vars
  <2> SUFFICES ASSUME IInv, isClosed, handler # "writing", Next PROVE handler' # "writing"
    BY DEF vars, inVars
  <2>1. shutdown \/ finishedRouting
    BY DEF IInv, Core, NothingLeftBehind
  <2>2. CASE Handle
    <3>1. CASE StartWrite
      BY <2>1, <3>1 DEF StartWrite, TakesWrites
    <3>2. ASSUME HandleFrame PROVE handler' # "writing"
      BY <3>2 DEF HandleFrame, Handling, CloseSession
    <3>3. CASE \E v2, sendFails \in BOOLEAN : Initialized(v2, sendFails)
      BY <3>3 DEF Initialized
    <3>4. CASE RoomResumes \/ SocketResumes \/ WriteInbound \/ WriteAborted
      BY <3>4 DEF RoomResumes, SocketResumes, WriteInbound, WriteAborted
    <3>5. CASE \E sendFails \in BOOLEAN : InitializeFailed(sendFails) \/ Reply(sendFails)
      BY <3>5 DEF InitializeFailed, Reply, CloseSession
    <3> QED BY <2>2, <3>1, <3>2, <3>3, <3>4, <3>5 DEF Handle
  <2>3. CASE Pump
    BY <2>3 DEF Pump, PumpTakes, PumpResumes, PumpEnds, PumpSends, EndPump, CloseSession,
                WakeHandler, inVars
  <2>4. CASE ~Handle /\ ~Pump
    BY <2>4 DEF Next, SocketCloses, ConnectionStops, Unregister, Stall, EnqueueFrame, AgentAnswers,
                AgentReads, WriteFails, ClientReads, RouterQueues, OutputEnds, RouterEnds,
                CloseSession, WakeHandler, inVars
  <2> QED BY <2>2, <2>3, <2>4
<1> QED BY <1>1, <1>2, <1>3, <1>4, Invariance, PTL DEF Spec, NoWriteBegins

-----------------------------------------------------------------------------
(* The other end of the socket: the client's stream, WsStream, for any     *)
(* number of sends.                                                        *)

(* Sends are numbered as they are queued, and the queue keeps the order.   *)
QueueInOrder ==
    /\ \A i, j \in 1 .. Len(sendQueue) : i < j => sendQueue[i].id < sendQueue[j].id
    /\ \A i \in 1 .. Len(sendQueue) : sendQueue[i].id <= queued
    /\ \A i \in 1 .. Len(sent) : sent[i] <= queued
    /\ Len(sent) + Len(sendQueue) <= queued

(* What awaits something is the first send of the queue. *)
SenderHasASend == sender # "idle" => sendQueue # <<>>

(* The inductive invariant. *)
ClientInv ==
    /\ Client!TypeOK
    /\ Client!SentInOrder
    /\ QueueInOrder
    /\ SenderHasASend

-----------------------------------------------------------------------------
(* What a sequence is when an element is added or the first one is taken.  *)
LEMMA AppendFacts ==
    ASSUME NEW S, NEW s \in Seq(S), NEW e \in S
    PROVE  /\ Append(s, e) \in Seq(S) /\ Len(Append(s, e)) = Len(s) + 1
           /\ Append(s, e)[Len(s) + 1] = e
           /\ \A i \in 1 .. Len(s) : Append(s, e)[i] = s[i]
OBVIOUS

LEMMA TailFacts ==
    ASSUME NEW S, NEW s \in Seq(S), s # <<>>
    PROVE  /\ Len(s) \in Nat \ {0} /\ Head(s) = s[1] /\ s[1] \in S
           /\ Tail(s) \in Seq(S) /\ Len(Tail(s)) = Len(s) - 1
           /\ \A i \in 1 .. Len(Tail(s)) : Tail(s)[i] = s[i + 1] /\ i + 1 \in 1 .. Len(s)
OBVIOUS

Sends == [id : 1 .. MaxSends, reply : BOOLEAN]

(* The initial states satisfy it. *)
LEMMA ClientInitially == ASSUME MaxSends \in Nat, Client!Init PROVE ClientInv
<1> USE DEF Client!Init
<1>1. <<>> \in Seq(Sends) /\ <<>> \in Seq(1 .. MaxSends) BY EmptySeq
<1>2. Client!TypeOK
  <2>1. 0 \in 0 .. MaxSends OBVIOUS
  <2> QED BY <1>1, <2>1, Zenon DEF Client!TypeOK, Sends
<1>3. Client!SentInOrder BY DEF Client!SentInOrder
<1>4. QueueInOrder BY DEF QueueInOrder
<1>5. SenderHasASend BY DEF SenderHasASend
<1> QED BY <1>2, <1>3, <1>4, <1>5 DEF ClientInv

(* Closing the stream notes how much was sent, and sends nothing.          *)
LEMMA EndStreamKeepsClientInv ==
    ASSUME MaxSends \in Nat, ClientInv, NEW how \in {"closed", "errored"}, Client!EndStream(how),
           UNCHANGED <<tellsState, sendQueue, queued, sent>>,
           socket' \in {"connecting", "open", "closing", "closed"},
           writable' \in {"open", "closing", "closed", "errored"}
    PROVE  ClientInv'
<1> USE DEF ClientInv
<1>1. Len(sent) \in 0 .. MaxSends /\ Len(sent) \in Nat
  <2>1. Len(sent) \in Nat /\ Len(sendQueue) \in Nat BY DEF Client!TypeOK
  <2>2. queued \in 0 .. MaxSends BY DEF Client!TypeOK
  <2> QED BY <2>1, <2>2 DEF QueueInOrder
<1>2. Client!TypeOK' BY <1>1 DEF Client!TypeOK, Client!EndStream, Client!RejectOpen
<1>3. Client!SentInOrder' BY DEF Client!SentInOrder, Client!EndStream
<1>4. QueueInOrder' BY DEF QueueInOrder
<1>5. SenderHasASend' BY DEF SenderHasASend, Client!EndStream, Client!RejectOpen
<1> QED BY <1>2, <1>3, <1>4, <1>5

(* A message is queued behind all others. *)
LEMMA QueueMessageKeepsClientInv ==
    ASSUME MaxSends \in Nat, ClientInv, NEW reply \in BOOLEAN, Client!QueueMessage(reply),
           UNCHANGED <<socket, tellsState, clientClosed, openPromise, readable, writable,
                       sender, sent, sentBefore>>
    PROVE  ClientInv'
<1> USE DEF ClientInv
<1> DEFINE e == [id |-> queued + 1, reply |-> reply]
<1>1. /\ queued \in 0 .. MaxSends /\ queued < MaxSends /\ queued' = queued + 1
      /\ sendQueue \in Seq(Sends) /\ e \in Sends /\ sendQueue' = Append(sendQueue, e)
  BY DEF Client!TypeOK, Client!QueueMessage, Sends
<1> HIDE DEF e
<1>2. /\ sendQueue' \in Seq(Sends) /\ Len(sendQueue') = Len(sendQueue) + 1
      /\ sendQueue'[Len(sendQueue) + 1] = e
      /\ \A i \in 1 .. Len(sendQueue) : sendQueue'[i] = sendQueue[i]
  BY <1>1, AppendFacts
<1>3. e.id = queued + 1 BY DEF e
<1>4. Len(sendQueue) \in Nat /\ Len(sent) \in Nat BY <1>1 DEF Client!TypeOK
<1>5. \A i \in 1 .. Len(sendQueue') : i \in 1 .. Len(sendQueue) \/ i = Len(sendQueue) + 1
  BY <1>2, <1>4
<1>10. /\ \A i \in 1 .. Len(sendQueue) : sendQueue[i] \in Sends /\ sendQueue[i].id \in Nat
       /\ \A i \in 1 .. Len(sent) : sent[i] \in Nat
  <2>1. \A i \in 1 .. Len(sendQueue) : sendQueue[i] \in Sends BY <1>1, ElementOfSeq
  <2>2. \A x \in Sends : x.id \in Nat BY DEF Sends
  <2>3. sent \in Seq(1 .. MaxSends) BY DEF Client!TypeOK
  <2>4. \A i \in 1 .. Len(sent) : sent[i] \in 1 .. MaxSends BY <2>3, ElementOfSeq
  <2> QED BY <2>1, <2>2, <2>4
<1>6. Client!TypeOK' BY <1>1, <1>2 DEF Client!TypeOK, Sends
<1>7. Client!SentInOrder'
  <2>1. \A i \in 1 .. Len(sent), j \in 1 .. Len(sendQueue') : sent[i] < sendQueue'[j].id
    BY <1>1, <1>2, <1>3, <1>5, <1>10 DEF Client!SentInOrder, QueueInOrder
  <2> QED BY <2>1 DEF Client!SentInOrder
<1>8. QueueInOrder'
  <2>1. \A i, j \in 1 .. Len(sendQueue') : i < j => sendQueue'[i].id < sendQueue'[j].id
    BY <1>1, <1>2, <1>3, <1>4, <1>5, <1>10 DEF QueueInOrder
  <2>2. \A i \in 1 .. Len(sendQueue') : sendQueue'[i].id <= queued'
    BY <1>1, <1>2, <1>3, <1>4, <1>5, <1>10 DEF QueueInOrder
  <2>3. \A i \in 1 .. Len(sent) : sent[i] <= queued'
    BY <1>1, <1>10 DEF QueueInOrder
  <2>4. Len(sent) + Len(sendQueue') <= queued' BY <1>1, <1>2, <1>4 DEF QueueInOrder
  <2> QED BY <2>1, <2>2, <2>3, <2>4 DEF QueueInOrder
<1>9. SenderHasASend' BY <1>2, <1>4 DEF SenderHasASend
<1> QED BY <1>6, <1>7, <1>8, <1>9 DEF ClientInv

(* What is left of the queue when its first send is done with.             *)
LEMMA TailOfQueue ==
    ASSUME MaxSends \in Nat, ClientInv, sendQueue # <<>>
    PROVE  LET rest == Tail(sendQueue) IN
           /\ rest \in Seq(Sends) /\ Len(rest) + 1 = Len(sendQueue) /\ Len(rest) \in Nat
           /\ Head(sendQueue).id \in 1 .. MaxSends /\ Head(sendQueue).id <= queued
           /\ \A i \in 1 .. Len(rest) : Head(sendQueue).id < rest[i].id /\ rest[i].id <= queued
           /\ \A i, j \in 1 .. Len(rest) : i < j => rest[i].id < rest[j].id
           /\ \A i \in 1 .. Len(sent) :
                /\ sent[i] < Head(sendQueue).id
                /\ \A j \in 1 .. Len(rest) : sent[i] < rest[j].id
<1> DEFINE rest == Tail(sendQueue)
<1>1. sendQueue \in Seq(Sends) BY DEF ClientInv, Client!TypeOK, Sends
<1>2. /\ Len(sendQueue) \in Nat \ {0} /\ Head(sendQueue) = sendQueue[1] /\ sendQueue[1] \in Sends
      /\ rest \in Seq(Sends) /\ Len(rest) = Len(sendQueue) - 1
      /\ \A i \in 1 .. Len(rest) : rest[i] = sendQueue[i + 1] /\ i + 1 \in 1 .. Len(sendQueue)
  BY <1>1, TailFacts
<1> HIDE DEF rest
<1>3. Len(rest) \in Nat /\ Len(rest) + 1 = Len(sendQueue) /\ 1 \in 1 .. Len(sendQueue) BY <1>2
<1>4. Head(sendQueue).id \in 1 .. MaxSends /\ Head(sendQueue).id <= queued
  BY <1>2, <1>3 DEF Sends, ClientInv, QueueInOrder
<1>5. \A i \in 1 .. Len(rest) : Head(sendQueue).id < rest[i].id /\ rest[i].id <= queued
  BY <1>2, <1>3 DEF ClientInv, QueueInOrder
<1>6. \A i, j \in 1 .. Len(rest) : i < j => rest[i].id < rest[j].id
  <2>1. SUFFICES ASSUME NEW i \in 1 .. Len(rest), NEW j \in 1 .. Len(rest), i < j
                 PROVE  rest[i].id < rest[j].id
    OBVIOUS
  <2>2. /\ rest[i] = sendQueue[i + 1] /\ rest[j] = sendQueue[j + 1]
        /\ i + 1 \in 1 .. Len(sendQueue) /\ j + 1 \in 1 .. Len(sendQueue)
    BY <1>2
  <2>3. i + 1 < j + 1 BY <2>1, <1>3
  <2>4. sendQueue[i + 1].id < sendQueue[j + 1].id BY <2>2, <2>3 DEF ClientInv, QueueInOrder
  <2> QED BY <2>2, <2>4
<1>7. \A i \in 1 .. Len(sent) : sent[i] < Head(sendQueue).id
                                /\ \A j \in 1 .. Len(rest) : sent[i] < rest[j].id
  BY <1>2, <1>3 DEF ClientInv, Client!SentInOrder
<1> QED BY <1>2, <1>3, <1>4, <1>5, <1>6, <1>7 DEF rest

(* A send that fails leaves the queue, and may close the stream. *)
LEMMA FailSendKeepsClientInv ==
    ASSUME MaxSends \in Nat, ClientInv, sendQueue # <<>>, Client!FailSend, UNCHANGED <<socket, tellsState, queued, sent>>
    PROVE  ClientInv'
<1> USE DEF ClientInv
<1>1. sendQueue' = Tail(sendQueue) /\ sender' = "idle" BY DEF Client!FailSend
<1>2. /\ sendQueue' \in Seq(Sends) /\ Len(sendQueue') + 1 = Len(sendQueue) /\ Len(sendQueue') \in Nat
      /\ \A i \in 1 .. Len(sendQueue') : sendQueue'[i].id <= queued
      /\ \A i, j \in 1 .. Len(sendQueue') : i < j => sendQueue'[i].id < sendQueue'[j].id
      /\ \A i \in 1 .. Len(sent), j \in 1 .. Len(sendQueue') : sent[i] < sendQueue'[j].id
  BY <1>1, TailOfQueue
<1>3. Len(sent) \in Nat /\ queued \in 0 .. MaxSends /\ Len(sent) \in 0 .. MaxSends
  <2>1. Len(sent) \in Nat /\ queued \in 0 .. MaxSends BY DEF Client!TypeOK
  <2> QED BY <1>2, <2>1 DEF QueueInOrder
<1>4. Client!TypeOK' BY <1>1, <1>2, <1>3 DEF Client!TypeOK, Client!FailSend, Sends
<1>5. Client!SentInOrder' BY <1>2 DEF Client!SentInOrder, Client!FailSend
<1>6. QueueInOrder' BY <1>2, <1>3 DEF QueueInOrder
<1>7. SenderHasASend' BY <1>1 DEF SenderHasASend
<1> QED BY <1>4, <1>5, <1>6, <1>7

(* A send that succeeds is behind those before it, and before those behind. *)
LEMMA FinishSendKeepsClientInv == ASSUME MaxSends \in Nat, ClientInv, Client!FinishSend PROVE ClientInv'
<1> USE DEF ClientInv
<1>1. sendQueue # <<>> /\ UNCHANGED <<socket, tellsState, queued>>
  BY DEF Client!FinishSend, SenderHasASend
<1>2. CASE ~Client!MaySend \/ socket = "connecting"
  <2>1. Client!FailSend /\ UNCHANGED sent BY <1>2 DEF Client!FinishSend
  <2> QED BY <1>1, <2>1, FailSendKeepsClientInv
<1>3. CASE ~(~Client!MaySend \/ socket = "connecting")
  <2> DEFINE id == Head(sendQueue).id
  <2>1. /\ sendQueue' = Tail(sendQueue) /\ sender' = "idle" /\ sent' = Append(sent, id)
        /\ UNCHANGED <<clientClosed, readable, openPromise, writable, sentBefore>> /\ ~clientClosed
    BY <1>3 DEF Client!FinishSend, Client!MaySend
  <2>2. /\ sendQueue' \in Seq(Sends) /\ Len(sendQueue') + 1 = Len(sendQueue)
        /\ Len(sendQueue') \in Nat
        /\ id \in 1 .. MaxSends /\ id <= queued
        /\ \A i \in 1 .. Len(sendQueue') : id < sendQueue'[i].id /\ sendQueue'[i].id <= queued
        /\ \A i, j \in 1 .. Len(sendQueue') : i < j => sendQueue'[i].id < sendQueue'[j].id
        /\ \A i \in 1 .. Len(sent) :
              sent[i] < id /\ \A j \in 1 .. Len(sendQueue') : sent[i] < sendQueue'[j].id
    BY <1>1, <2>1, TailOfQueue
  <2> HIDE DEF id
  <2>3. sent \in Seq(1 .. MaxSends) /\ Len(sent) \in Nat /\ queued \in 0 .. MaxSends
    BY DEF Client!TypeOK
  <2>4. /\ sent' \in Seq(1 .. MaxSends) /\ Len(sent') = Len(sent) + 1
        /\ sent'[Len(sent) + 1] = id /\ \A i \in 1 .. Len(sent) : sent'[i] = sent[i]
    BY <2>1, <2>2, <2>3, AppendFacts
  <2>5. \A i \in 1 .. Len(sent') : i \in 1 .. Len(sent) \/ i = Len(sent) + 1 BY <2>3, <2>4
  <2>6. Client!TypeOK' BY <1>1, <2>1, <2>2, <2>4 DEF Client!TypeOK, Sends
  <2>7. Client!SentInOrder'
    <3>1. \A i, j \in 1 .. Len(sent') : i < j => sent'[i] < sent'[j]
      <4> SUFFICES ASSUME NEW i \in 1 .. Len(sent'), NEW j \in 1 .. Len(sent'), i < j
                   PROVE  sent'[i] < sent'[j]
        OBVIOUS
      <4>1. i \in 1 .. Len(sent) BY <2>3, <2>4
      <4>2. CASE j \in 1 .. Len(sent) BY <4>1, <4>2, <2>4 DEF Client!SentInOrder
      <4>3. CASE j = Len(sent) + 1 BY <4>1, <4>3, <2>2, <2>4
      <4> QED BY <2>5, <4>2, <4>3
    <3>2. \A i \in 1 .. Len(sent'), j \in 1 .. Len(sendQueue') : sent'[i] < sendQueue'[j].id
      BY <2>2, <2>4, <2>5
    <3> QED BY <2>1, <3>1, <3>2 DEF Client!SentInOrder
  <2>8. QueueInOrder'
    <3>1. \A i \in 1 .. Len(sent') : sent'[i] <= queued BY <2>2, <2>4, <2>5 DEF QueueInOrder
    <3>2. Len(sent') + Len(sendQueue') <= queued BY <2>2, <2>3, <2>4 DEF QueueInOrder
    <3> QED BY <1>1, <2>2, <3>1, <3>2 DEF QueueInOrder
  <2>9. SenderHasASend' BY <2>1 DEF SenderHasASend
  <2> QED BY <2>6, <2>7, <2>8, <2>9
<1> QED BY <1>2, <1>3

(* Every step keeps it. *)
LEMMA ClientStep == ASSUME MaxSends \in Nat, ClientInv, [Client!Next]_(Client!vars) PROVE ClientInv'
<1> USE DEF ClientInv
<1>1. CASE Client!Cancel
  <2>1. /\ Client!EndStream("closed") /\ UNCHANGED <<tellsState, writable, sendQueue, queued, sent>>
        /\ Client!CloseSocket
    BY <1>1 DEF Client!Cancel
  <2>2. /\ socket' \in {"connecting", "open", "closing", "closed"}
        /\ writable' \in {"open", "closing", "closed", "errored"}
    BY <2>1 DEF Client!TypeOK, Client!CloseSocket
  <2> QED BY <2>1, <2>2, EndStreamKeepsClientInv
<1>2. CASE Client!CloseWritable
  <2>1. Client!TypeOK' BY <1>2 DEF Client!CloseWritable, Client!TypeOK
  <2>2. Client!SentInOrder' /\ QueueInOrder' /\ SenderHasASend'
    BY <1>2 DEF Client!CloseWritable, Client!SentInOrder, QueueInOrder, SenderHasASend
  <2> QED BY <2>1, <2>2
<1>3. CASE Client!WritableCloses
  <2>1. /\ Client!EndStream("closed") /\ UNCHANGED <<tellsState, sendQueue, queued, sent>>
        /\ Client!CloseSocket /\ writable' = "closed"
    BY <1>3 DEF Client!WritableCloses
  <2>2. /\ socket' \in {"connecting", "open", "closing", "closed"}
        /\ writable' \in {"open", "closing", "closed", "errored"}
    BY <2>1 DEF Client!TypeOK, Client!CloseSocket
  <2> QED BY <2>1, <2>2, EndStreamKeepsClientInv
<1>4. CASE Client!SocketOpens
  <2>1. Client!TypeOK' BY <1>4 DEF Client!SocketOpens, Client!TypeOK
  <2>2. Client!SentInOrder' /\ QueueInOrder' BY <1>4 DEF Client!SocketOpens, Client!SentInOrder, QueueInOrder
  <2>3. SenderHasASend' BY <1>4 DEF Client!SocketOpens, SenderHasASend
  <2> QED BY <2>1, <2>2, <2>3
<1>5. CASE Client!PeerCloses
  <2>1. Client!TypeOK' BY <1>5 DEF Client!PeerCloses, Client!TypeOK
  <2>2. Client!SentInOrder' /\ QueueInOrder' /\ SenderHasASend'
    BY <1>5 DEF Client!PeerCloses, Client!SentInOrder, QueueInOrder, SenderHasASend
  <2> QED BY <2>1, <2>2
<1>6. ASSUME NEW how \in {"closed", "errored"}, Client!SocketEnds(how) PROVE ClientInv'
  <2>1. /\ Client!EndStream(how) /\ UNCHANGED <<tellsState, writable, sendQueue, queued, sent>>
        /\ socket' = "closed"
    BY <1>6 DEF Client!SocketEnds
  <2>2. /\ socket' \in {"connecting", "open", "closing", "closed"}
        /\ writable' \in {"open", "closing", "closed", "errored"}
    BY <2>1 DEF Client!TypeOK
  <2> QED BY <2>1, <2>2, EndStreamKeepsClientInv
<1>7. CASE Client!UserWrites
  <2>1. Client!QueueMessage(FALSE)
        /\ UNCHANGED <<socket, tellsState, clientClosed, openPromise, readable, writable,
                       sender, sent, sentBefore>>
    BY <1>7 DEF Client!UserWrites
  <2> QED BY <2>1, QueueMessageKeepsClientInv
<1>8. CASE Client!ReceiveMalformed
  <2>1. Client!QueueMessage(TRUE)
        /\ UNCHANGED <<socket, tellsState, clientClosed, openPromise, readable, writable,
                       sender, sent, sentBefore>>
    BY <1>8 DEF Client!ReceiveMalformed
  <2> QED BY <2>1, QueueMessageKeepsClientInv
<1>9. CASE Client!BeginSend
  <2>1. sendQueue # <<>> /\ UNCHANGED <<socket, tellsState, queued, sent>> BY <1>9 DEF Client!BeginSend
  <2>2. CASE clientClosed
    <3>1. Client!FailSend BY <1>9, <2>2 DEF Client!BeginSend
    <3> QED BY <2>1, <3>1, FailSendKeepsClientInv
  <2>3. CASE ~clientClosed
    <3>1. /\ sender' = Client!WaitForOpen
          /\ UNCHANGED <<sendQueue, clientClosed, readable, openPromise, writable, sentBefore>>
      BY <1>9, <2>3 DEF Client!BeginSend
    <3>2. Client!TypeOK' BY <2>1, <3>1 DEF Client!TypeOK, Client!WaitForOpen
    <3>3. Client!SentInOrder' /\ QueueInOrder' BY <2>1, <3>1 DEF Client!SentInOrder, QueueInOrder
    <3>4. SenderHasASend' BY <2>1, <3>1 DEF SenderHasASend
    <3> QED BY <3>2, <3>3, <3>4
  <2> QED BY <2>2, <2>3
<1>10. CASE Client!FinishSend BY <1>10, FinishSendKeepsClientInv
<1>11. CASE Client!RejectSend
  <2>1. sendQueue # <<>> /\ Client!FailSend /\ UNCHANGED <<socket, tellsState, queued, sent>>
    BY <1>11 DEF Client!RejectSend, SenderHasASend
  <2> QED BY <2>1, FailSendKeepsClientInv
<1>12. CASE UNCHANGED Client!vars
  <2>1. Client!TypeOK' BY <1>12 DEF Client!TypeOK, Client!vars
  <2>2. Client!SentInOrder' /\ QueueInOrder' /\ SenderHasASend'
    BY <1>12 DEF Client!SentInOrder, QueueInOrder, SenderHasASend, Client!vars
  <2> QED BY <2>1, <2>2
<1> QED
  BY <1>1, <1>2, <1>3, <1>4, <1>5, <1>6, <1>7, <1>8, <1>9, <1>10, <1>11, <1>12 DEF Client!Next

(* The invariant holds in every state. *)
THEOREM ClientInvariance == Client!Spec => []ClientInv
<1>1. Client!Init => ClientInv BY ClientInitially, MaxSendsAssumption
<1>2. ClientInv /\ [Client!Next]_(Client!vars) => ClientInv' BY ClientStep, MaxSendsAssumption
<1> QED BY <1>1, <1>2, PTL DEF Client!Spec

(* The variables of the stream keep their types, for any number of sends.  *)
THEOREM ClientTypeCorrect == Client!Spec => []Client!TypeOK
<1>1. ClientInv => Client!TypeOK BY DEF ClientInv
<1> QED BY <1>1, ClientInvariance, PTL

(* For any number of sends: they go out in the order in which sendMessage  *)
(* queued them, and none after the stream has closed.                      *)
THEOREM SendsKeepOrder == Client!Spec => []SentInOrder
<1>1. ClientInv => SentInOrder BY DEF ClientInv, SentInOrder
<1> QED BY <1>1, ClientInvariance, PTL

(* The promise for the opening is there while the socket may still open    *)
(* and the stream has not closed, and a send waits for nothing else; one   *)
(* that was rejected was so by the close of the stream.                    *)
WaitsForTheSocket ==
    /\ openPromise => socket = "connecting" /\ ~clientClosed
    /\ sender = "open" => openPromise /\ tellsState
    /\ sender = "rejected" => clientClosed

LEMMA ClientKeepsWaiting ==
    ASSUME ClientInv, WaitsForTheSocket, [Client!Next]_(Client!vars) PROVE WaitsForTheSocket'
<1> USE DEF WaitsForTheSocket
<1>1. CASE Client!Cancel \/ Client!WritableCloses \/ \E how \in {"closed", "errored"} : Client!SocketEnds(how)
  BY <1>1 DEF Client!Cancel, Client!WritableCloses, Client!SocketEnds, Client!CloseSocket,
              Client!EndStream, Client!RejectOpen
<1>2. CASE Client!CloseWritable \/ Client!PeerCloses
  BY <1>2 DEF Client!CloseWritable, Client!PeerCloses
<1>3. CASE Client!SocketOpens
  BY <1>3 DEF Client!SocketOpens
<1>4. CASE Client!UserWrites
  <2>1. UNCHANGED <<openPromise, socket, clientClosed, sender, tellsState>>
    BY <1>4 DEF Client!UserWrites
  <2> QED BY <2>1
<1>8. CASE Client!ReceiveMalformed
  <2>1. UNCHANGED <<openPromise, socket, clientClosed, sender, tellsState>>
    BY <1>8 DEF Client!ReceiveMalformed
  <2> QED BY <2>1
<1>5. CASE Client!BeginSend
  BY <1>5 DEF Client!BeginSend, Client!WaitForOpen, Client!FailSend
<1>6. CASE Client!FinishSend \/ Client!RejectSend
  BY <1>6 DEF Client!FinishSend, Client!RejectSend, Client!FailSend
<1>7. CASE UNCHANGED Client!vars
  BY <1>7 DEF Client!vars
<1> QED BY <1>1, <1>2, <1>3, <1>4, <1>5, <1>6, <1>7, <1>8 DEF Client!Next

(* A send waits for the socket to open only while the socket may, and the  *)
(* stream is there for it.  Every other send that has begun can go on by   *)
(* itself, and it is one that was queued.                                  *)
NoSendIsStuck ==
    /\ sender = "open" => socket = "connecting" /\ ~clientClosed /\ openPromise
    /\ sender # "idle" => sendQueue # <<>>

(* However the socket opens, ends and is closed around them, no send waits *)
(* for what cannot come: the safety part of SendsSettle, for any number of *)
(* sends.                                                                  *)
THEOREM SendsCanSettle == Client!Spec => []NoSendIsStuck
<1>1. Client!Init => WaitsForTheSocket
  BY DEF Client!Init, WaitsForTheSocket
<1>2. ClientInv /\ WaitsForTheSocket /\ [Client!Next]_(Client!vars) => WaitsForTheSocket'
  BY ClientKeepsWaiting
<1>3. ClientInv /\ WaitsForTheSocket => NoSendIsStuck
  BY DEF ClientInv, SenderHasASend, WaitsForTheSocket, NoSendIsStuck
<1> QED BY <1>1, <1>2, <1>3, ClientInvariance, PTL DEF Client!Spec

(* Whichever end takes steps, it is as its module has it.                  *)
THEOREM EndsAreTheirs == EndsSpec => [](BuffersAreBounded /\ NothingLeftBehind /\ SentInOrder)
<1>1. [ServerNext \/ ClientNext]_<<end, vars, clientVars>>
          => [Next]_vars /\ [Client!Next]_(Client!vars)
  BY Zenon DEF ServerNext, ClientNext, clientVars, Client!vars
<1>2. EndsSpec => Spec /\ Client!Spec
  BY <1>1, PTL DEF EndsSpec, EndsInit, Spec, Client!Spec
<1> QED BY <1>2, ClientCannotOverfill, ClosedSessionsAreGone, SendsKeepOrder, PTL
=============================================================================
