--------------------------- MODULE ProtocolRouter ---------------------------
(***************************************************************************)
(* AgentProtocolRouter of protocol-router.ts: it reads the first item of a *)
(* connection, gives the connection to the agent of the protocol version   *)
(* that fits, or turns the client away, and says when the connection is    *)
(* over.                                                                   *)
(*                                                                         *)
(* The first item is reduced to what the router asks of it.  The rewriting *)
(* of the initialize params is not modelled, but that it may fail is.  The *)
(* agent and the server, which asks for the connect handlers, are external. *)
(***************************************************************************)
EXTENDS Integers, Sequences

CONSTANTS
    Versions,       \* the protocol versions that clients ask for
    MaxAnswers      \* bound on the messages that the agent writes

ASSUME VersionsAssumption == Versions \subseteq Nat
ASSUME MaxAnswersAssumption == MaxAnswers \in Nat

(* shouldCloseWithoutResponse, what is no initialize request, and one.     *)
Kinds == {"quiet", "other", "initialize"}

(* convertible: whether the params suit the version that is selected. *)
FirstItems == [kind : Kinds, version : Versions, batched : BOOLEAN, convertible : BOOLEAN]

VARIABLES
    configured,     \* the versions for which there is an agent
    first,          \* the first item
    pc,             \* what route awaits: "read", "write" (of the error),
                    \* "close" (of the output), "cancel" (of the input),
                    \* "abort" (of the output), "attached" or "end"
    failed,         \* whether route has thrown
    holdsReader,    \* route or the routed stream holds the input's reader
    input,          \* "open", "ended", "errored" or "cancelled"
    output,         \* "open", "closed", "aborted" or "errored"
    outputLocked,   \* whether the agent holds the output's writer
    agent,          \* version of the agent that has the connection, 0: none
    lifecycle,      \* what that agent's connection offers: {"closed", "start"}
    agentClosed,    \* its `closed` has settled
    routed,         \* the stream that the agent reads: "first" while the
                    \* initialize is not taken, "open" or "over"
    responseFramed,
    startRequested,
    starts,         \* how often the agent's connect handlers were started
    isFinished,     \* the router's own `closed` has resolved
    replies         \* history: the responses to the first item that were
                    \* written: [framed: as an array]

vars == <<configured, first, pc, failed, holdsReader, input, output, outputLocked, agent,
          lifecycle, agentClosed, routed, responseFramed, startRequested, starts,
          isFinished, replies>>

setup == <<configured, first>>
ends == <<input, output, outputLocked>>
routing == <<agent, lifecycle, agentClosed, routed, responseFramed>>
handlers == <<startRequested, starts>>

Init ==
    /\ configured \in SUBSET {1, 2}
    /\ first \in FirstItems
    /\ pc = "read"
    /\ failed = FALSE
    /\ holdsReader = TRUE
    /\ input = "open"
    /\ output = "open"
    /\ outputLocked = FALSE
    /\ agent = 0
    /\ lifecycle = {}
    /\ agentClosed = FALSE
    /\ routed = "first"
    /\ responseFramed = FALSE
    /\ startRequested \in BOOLEAN
    /\ starts = 0
    /\ isFinished = FALSE
    /\ replies = <<>>

-----------------------------------------------------------------------------
(* Selecting the agent.                                                    *)

MaxProtocolVersion == 65535

(* Faulty: an agent serves one version only.                               *)
ExactMatch(requested) ==
    IF requested \in configured THEN requested ELSE 0

(* highestCompatible, 0 for undefined. *)
HighestCompatible(requested) ==
    IF 2 \in configured /\ requested >= 2 THEN 2
    ELSE IF 1 \in configured /\ requested >= 1 THEN 1
    ELSE 0

(* Whether the first item gets an agent, when its connector does not throw. *)
Selects ==
    /\ first.kind = "initialize"
    /\ first.version <= MaxProtocolVersion
    /\ HighestCompatible(first.version) # 0
    /\ first.convertible

(* Faulty: the handlers start when they are asked for.                     *)
StartsAtOnce(requested, offers) == starts' = IF requested THEN starts + 1 ELSE starts

(* maybeStartConnectHandlers; starts is what connectHandlersStarted says. *)
MaybeStart(requested, offers) ==
    starts' = IF requested /\ starts = 0 /\ "start" \in offers THEN 1 ELSE starts

-----------------------------------------------------------------------------
(* route.                                                                  *)

(* The end of route: it returns, and the connection is over. *)
Return == pc' = "end" /\ isFinished' = TRUE /\ UNCHANGED failed

(* It goes on, or throws and goes on with what it must do all the same. *)
GoOn(next) == pc' = next /\ UNCHANGED <<isFinished, failed>>
Throw(next) == pc' = next /\ failed' = TRUE /\ UNCHANGED isFinished

(* The connector of the selected agent throws, perhaps after it has locked *)
(* the output, or its connection is attached.                              *)
ConnectFails ==
    /\ outputLocked' \in BOOLEAN
    /\ Throw("cancel")
    /\ UNCHANGED <<input, output, holdsReader, routing, handlers>>

Attach ==
    /\ agent' = HighestCompatible(first.version)
    /\ lifecycle' \in SUBSET {"closed", "start"}
    /\ MaybeStart(startRequested, lifecycle')
    /\ outputLocked' = TRUE
    /\ GoOn("attached")
    /\ UNCHANGED <<input, output, holdsReader, agentClosed, routed, responseFramed,
                   startRequested>>

ReadFirst ==
    /\ pc = "read" /\ input = "open"
    /\ CASE first.kind = "quiet" -> GoOn("close") /\ UNCHANGED <<ends, holdsReader, routing, handlers>>
         [] Selects -> Attach \/ ConnectFails
         [] OTHER -> GoOn("write") /\ UNCHANGED <<ends, holdsReader, routing, handlers>>
    /\ UNCHANGED <<setup, replies>>

(* The client leaves before it has sent anything. *)
ReadNothing ==
    /\ pc = "read" /\ input # "open"
    /\ holdsReader' = FALSE
    /\ IF input = "ended" THEN GoOn("close") ELSE Throw("abort")
    /\ UNCHANGED <<setup, ends, routing, handlers, replies>>

(* rejectInitialize writes the error, in the framing of the request when   *)
(* there is one.                                                           *)
WriteError ==
    /\ pc = "write"
    /\ IF output = "open"
       THEN /\ GoOn("close")
            /\ replies' = Append(replies,
                   [framed |-> first.batched /\ first.kind = "initialize"])
       ELSE Throw("cancel") /\ UNCHANGED replies
    /\ UNCHANGED <<setup, ends, holdsReader, routing, handlers>>

(* The output is closed; then the input is cancelled, if it is still held. *)
CloseOutput ==
    /\ pc = "close"
    /\ CASE output = "open" /\ holdsReader -> GoOn("cancel")
         [] output = "open" /\ ~holdsReader -> Return
         [] output # "open" -> Throw(IF holdsReader THEN "cancel" ELSE "abort")
    /\ output' = IF output = "open" THEN "closed" ELSE output
    /\ UNCHANGED <<setup, input, outputLocked, holdsReader, routing, handlers, replies>>

(* The input is cancelled, which may throw, and released. *)
CancelInput ==
    /\ pc = "cancel"
    /\ holdsReader' = FALSE
    /\ input' = IF input = "open" THEN "cancelled" ELSE input
    /\ \E throws \in BOOLEAN :
        IF failed THEN GoOn("abort") ELSE IF throws THEN Throw("abort") ELSE Return
    /\ UNCHANGED <<setup, output, outputLocked, routing, handlers, replies>>

(* Faulty: an abort that fails leaves the connection as it is.             *)
OverWhenAborted(throws) == isFinished' = ~throws

(* The abort of the output is done, or has failed. *)
OverAfterAbort(throws) == isFinished' = TRUE

(* connect: a failure of route aborts the output, which must not be locked. *)
AbortOutput ==
    /\ pc = "abort"
    /\ pc' = "end"
    /\ output' = IF output = "open" /\ ~outputLocked THEN "aborted" ELSE output
    /\ \E throws \in BOOLEAN : OverAfterAbort(throws)
    /\ UNCHANGED <<setup, failed, holdsReader, input, outputLocked, routing, handlers, replies>>

-----------------------------------------------------------------------------
(* The routed connection.                                                  *)

(* RoutedAgentConnection.startConnectHandlers, which the server may call   *)
(* at any time and again.                                                  *)
StartConnectHandlers ==
    /\ startRequested' = TRUE
    /\ MaybeStart(TRUE, lifecycle)
    /\ UNCHANGED <<setup, pc, failed, holdsReader, ends, routing, isFinished, replies>>

(* The agent takes the initialize, which comes first. *)
TakeInitialize ==
    /\ pc = "attached" /\ routed = "first"
    /\ routed' = "open"
    /\ UNCHANGED <<setup, pc, failed, holdsReader, ends, agent, lifecycle, agentClosed,
                   responseFramed, handlers, isFinished, replies>>

(* routedReadable finds the end of the input, or an error. *)
RoutedEnds ==
    /\ pc = "attached" /\ routed = "open" /\ input # "open"
    /\ routed' = "over"
    /\ holdsReader' = FALSE
    /\ isFinished' = TRUE
    /\ UNCHANGED <<setup, pc, failed, ends, agent, lifecycle, agentClosed,
                   responseFramed, handlers, replies>>

(* The agent cancels it. *)
RoutedCancelled ==
    /\ pc = "attached" /\ routed # "over"
    /\ routed' = "over"
    /\ holdsReader' = FALSE
    /\ input' = IF input = "open" THEN "cancelled" ELSE input
    /\ isFinished' = TRUE
    /\ UNCHANGED <<setup, pc, failed, output, outputLocked, agent, lifecycle, agentClosed,
                   responseFramed, handlers, replies>>

(* The agent's connection closes, and says so. *)
AgentCloses ==
    /\ pc = "attached" /\ "closed" \in lifecycle /\ ~agentClosed
    /\ agentClosed' = TRUE
    /\ isFinished' = TRUE
    /\ UNCHANGED <<setup, pc, failed, holdsReader, ends, agent, lifecycle, routed,
                   responseFramed, handlers, replies>>

(* Faulty: every response with the id of initialize is framed.             *)
FramesEach == first.batched

(* batchInitializeResponseWritable of a v1 agent frames a response once; a *)
(* v2 agent is given the batch, and answers it with one.                   *)
Frames == first.batched /\ (agent = 2 \/ ~responseFramed)

(* The agent writes: the response to initialize, once, or a response to a  *)
(* later request of the client, which may use the same id again.           *)
AgentWrites(toInitialize) ==
    /\ pc = "attached" /\ routed # "first" /\ output = "open"
    /\ toInitialize <=> replies = <<>>
    /\ Len(replies) < MaxAnswers
    /\ replies' = Append(replies,
           [framed |-> IF agent = 2 THEN Frames /\ toInitialize ELSE Frames])
    /\ responseFramed' = (responseFramed \/ (agent = 1 /\ Frames))
    /\ UNCHANGED <<setup, pc, failed, holdsReader, ends, agent, lifecycle, agentClosed,
                   routed, handlers, isFinished>>

-----------------------------------------------------------------------------
(* The client leaves, or the transport fails.                              *)

InputEnds(how) ==
    /\ input = "open"
    /\ input' = how
    /\ UNCHANGED <<setup, pc, failed, holdsReader, output, outputLocked, routing, handlers,
                   isFinished, replies>>

OutputFails ==
    /\ output = "open"
    /\ output' = "errored"
    /\ UNCHANGED <<setup, pc, failed, holdsReader, input, outputLocked, routing, handlers,
                   isFinished, replies>>

Next ==
    \/ ReadFirst \/ ReadNothing \/ WriteError \/ CloseOutput \/ CancelInput \/ AbortOutput
    \/ StartConnectHandlers
    \/ TakeInitialize \/ RoutedEnds \/ RoutedCancelled \/ AgentCloses
    \/ \E toInitialize \in BOOLEAN : AgentWrites(toInitialize)
    \/ \E how \in {"ended", "errored"} : InputEnds(how)
    \/ OutputFails

Spec == Init /\ [][Next]_vars

(* The event loop runs what is queued, the output takes a message, closes  *)
(* or fails, and the agent that has the connection reads what comes.       *)
Fairness ==
    /\ WF_vars(ReadFirst) /\ WF_vars(ReadNothing) /\ WF_vars(WriteError)
    /\ WF_vars(CloseOutput) /\ WF_vars(CancelInput) /\ WF_vars(AbortOutput)
    /\ WF_vars(TakeInitialize) /\ WF_vars(RoutedEnds)

LiveSpec == Spec /\ Fairness

-----------------------------------------------------------------------------
(* Properties.                                                             *)

(* The values the variables take. *)
TypeOK ==
    /\ configured \subseteq {1, 2}
    /\ first \in FirstItems
    /\ pc \in {"read", "write", "close", "cancel", "abort", "attached", "end"}
    /\ {failed, holdsReader, outputLocked, agentClosed, responseFramed, startRequested,
        isFinished} \subseteq BOOLEAN
    /\ input \in {"open", "ended", "errored", "cancelled"}
    /\ output \in {"open", "closed", "aborted", "errored"}
    /\ agent \in {0, 1, 2}
    /\ lifecycle \subseteq {"closed", "start"}
    /\ routed \in {"first", "open", "over"}
    /\ starts \in 0 .. 1
    /\ replies \in Seq([framed : BOOLEAN])

(* "the highest configured protocol version that does not exceed the       *)
(* client's requested version", of which there is one if an agent is       *)
(* selected.                                                               *)
IsHighest(version) ==
    /\ version \in configured /\ version <= first.version
    /\ \A v \in configured : v <= first.version => v <= version

(* An initialize request gets the highest version that suits it, and is    *)
(* turned away when none does; the handlers of the agent that has it, and  *)
(* no other's, start once, however early and often they are asked for.  A  *)
(* batched initialize is answered with a batch, by the router or by either *)
(* agent, and nothing else is.                                             *)
RoutedAsAsked ==
    /\ agent # 0 => IsHighest(agent)
    /\ first.kind = "initialize" /\ replies # <<>> /\ agent = 0 =>
           \/ ~\E v \in configured : IsHighest(v)
           \/ first.version > MaxProtocolVersion
           \/ ~first.convertible
    /\ starts = IF agent # 0 /\ startRequested /\ "start" \in lifecycle THEN 1 ELSE 0
    /\ \A i \in 1 .. Len(replies) :
        replies[i].framed <=> i = 1 /\ first.batched /\ first.kind = "initialize"

(* "`closed` always resolves once the routed connection ends, including    *)
(* when the client leaves before `initialize` or routing fails"; and the   *)
(* reader of the input is not held for ever then, unless the agent has it. *)
ClosedResolves ==
    /\ input # "open" \/ pc \in {"write", "close", "cancel", "abort"} ~> isFinished
    /\ agentClosed ~> isFinished
    /\ pc = "end" ~> isFinished /\ ~holdsReader
=============================================================================
