--------------------------- MODULE RpcConnection ---------------------------
(***************************************************************************)
(* Two `Connection` objects of jsonrpc.ts talking over one duplex stream:  *)
(* issuing requests, cancelling them, answering them, the write chain that *)
(* serialises everything a connection sends, and closing.                  *)
(*                                                                         *)
(* Each peer is both a caller (pendingResponses) and a callee              *)
(* (incomingRequests).  The dispatch of a received request through the     *)
(* handler chain is the subject of RpcDispatch; here a handler is whatever *)
(* may, at any later moment, use the request's responder.                  *)
(***************************************************************************)
EXTENDS Integers, Sequences

CONSTANTS
    Client, Agent,  \* the two ends of the stream
    IdBound,        \* request ids are below this bound
    MaxRequests     \* [Peers -> 0..IdBound]: how many requests a peer issues

Peers    == {Client, Agent}
Other(p) == IF p = Client THEN Agent ELSE Client
Ids      == 0 .. IdBound - 1

ASSUME PeersAssumption       == Client # Agent
ASSUME IdBoundAssumption     == IdBound \in Nat
ASSUME MaxRequestsAssumption == MaxRequests \in [Peers -> 0 .. IdBound]

VARIABLES
    aborted,            \* abortController.signal.aborted
    nextRequestId,      \* the id the next request of this peer gets
    pendingResponses,   \* ids of this peer's requests that await a response
    listeners,          \* ids whose cancellationSignal still has `cancel` attached
    cancellationSent,   \* ids for which `cancel` has run
    promise,            \* what became of the promise sendRequest returned
    writeQueue,         \* the links of the write chain that are not settled yet
    writing,            \* how far the write of Head(writeQueue) has come
    wire,               \* messages this peer wrote that the other has not read
    incomingRequests,   \* ids of the other peer's requests with a controller
    controller,         \* that AbortController, by request id
    responder           \* the RequestResponder of an incoming request

callerVars == <<nextRequestId, pendingResponses, listeners, cancellationSent, promise>>
calleeVars == <<incomingRequests, controller, responder>>
writeVars  == <<writeQueue, writing, wire>>
vars == <<aborted, callerVars, writeVars, calleeVars>>

-----------------------------------------------------------------------------
(* Messages.  The only notification modelled is `$/cancel_request`.        *)

Results == {"result", "error"}

(* Faulty: names the next request instead of its own. *)
CancelOfNextRequest(id) == [kind |-> "cancel", id |-> id + 1, result |-> "none"]

Request(id)     == [kind |-> "request",  id |-> id, result |-> "none"]
Cancel(id)      == [kind |-> "cancel",   id |-> id, result |-> "none"]
Response(id, r) == [kind |-> "response", id |-> id, result |-> r]

Messages == [kind : {"request", "cancel", "response"}, id : Ids,
             result : Results \cup {"none"}]

Init ==
    /\ aborted          = [p \in Peers |-> FALSE]
    /\ nextRequestId    = [p \in Peers |-> 0]
    /\ pendingResponses = [p \in Peers |-> {}]
    /\ listeners        = [p \in Peers |-> {}]
    /\ cancellationSent = [p \in Peers |-> {}]
    /\ promise          = [p \in Peers |-> [id \in Ids |-> "none"]]
    /\ writeQueue       = [p \in Peers |-> <<>>]
    /\ writing          = [p \in Peers |-> "idle"]
    /\ wire             = [p \in Peers |-> <<>>]
    /\ incomingRequests = [p \in Peers |-> {}]
    /\ controller       = [p \in Peers |-> [id \in Ids |-> "none"]]
    /\ responder        = [p \in Peers |-> [id \in Ids |-> "none"]]

-----------------------------------------------------------------------------
(* Shared steps.                                                           *)

(* sendWireMessage: messages are chained only while the connection is open. *)
Enqueue(p, messages) ==
    writeQueue' = IF aborted[p] THEN writeQueue
                  ELSE [writeQueue EXCEPT ![p] = @ \o messages]

(* Faulty: close() drops the pending responses without rejecting them.     *)
SettleOnResponseOnly(f, ids, value) ==
    [id \in Ids |-> IF id \in ids /\ f[id] = "pending" /\ value # "closed"
                    THEN value ELSE f[id]]

(* Faulty: error responses settle nothing.                                 *)
SettleUnlessError(f, ids, value) ==
    [id \in Ids |-> IF id \in ids /\ f[id] = "pending" /\ value # "error"
                    THEN value ELSE f[id]]

(* Settle the promises of `ids`; a promise settles only once.              *)
Settle(f, ids, value) ==
    [id \in Ids |-> IF id \in ids /\ f[id] = "pending" THEN value ELSE f[id]]

(* pendingResponse.cleanup: detach `cancel` from the caller's signals.     *)
Cleanup(p, ids) == listeners' = [listeners EXCEPT ![p] = @ \ ids]

(* What close() does to a connection that is still open: every pending     *)
(* request is rejected, every incoming request is aborted.                 *)
CloseEffects(p) ==
    /\ aborted'          = [aborted EXCEPT ![p] = TRUE]
    /\ promise'          = [promise EXCEPT ![p] = Settle(@, pendingResponses[p], "closed")]
    /\ Cleanup(p, pendingResponses[p])
    /\ pendingResponses' = [pendingResponses EXCEPT ![p] = {}]
    /\ controller'       = [controller EXCEPT ![p] =
                              [id \in Ids |-> IF id \in incomingRequests[p]
                                              THEN "aborted" ELSE @[id]]]
    /\ incomingRequests' = [incomingRequests EXCEPT ![p] = {}]

-----------------------------------------------------------------------------
(* The caller.                                                             *)

(* What sendRequest enqueues when the caller's signal is aborted already.  *)
RequestThenCancel(id) == <<Request(id), Cancel(id)>>

(* sendRequest, whose signal may be aborted already: then the request is   *)
(* sent all the same and the cancellation right behind it.                 *)
SendRequest(p, signalAborted) ==
    LET id == nextRequestId[p] IN
    /\ ~aborted[p]
    /\ id < MaxRequests[p]
    /\ nextRequestId'    = [nextRequestId EXCEPT ![p] = id + 1]
    /\ pendingResponses' = [pendingResponses EXCEPT ![p] = @ \cup {id}]
    /\ promise'          = [promise EXCEPT ![p][id] = "pending"]
    /\ IF signalAborted
       THEN /\ cancellationSent' = [cancellationSent EXCEPT ![p] = @ \cup {id}]
            /\ Enqueue(p, RequestThenCancel(id))
            /\ UNCHANGED listeners
       ELSE /\ listeners' = [listeners EXCEPT ![p] = @ \cup {id}]
            /\ Enqueue(p, <<Request(id)>>)
            /\ UNCHANGED cancellationSent
    /\ UNCHANGED <<aborted, writing, wire, calleeVars>>

(* The caller's cancellationSignal fires.  Without a listener that is      *)
(* nothing to this connection.                                             *)
CancelRequest(p, id) ==
    /\ id \in listeners[p]
    /\ id \notin cancellationSent[p]
    /\ cancellationSent' = [cancellationSent EXCEPT ![p] = @ \cup {id}]
    /\ Cleanup(p, {id})
    /\ Enqueue(p, <<Cancel(id)>>)
    /\ UNCHANGED <<aborted, nextRequestId, pendingResponses, promise,
                   writing, wire, calleeVars>>

-----------------------------------------------------------------------------
(* The callee's handler.                                                   *)

(* Faulty: without the didRespond check.                                   *)
ReceivedRequest(q, id) == responder[q][id] # "none"

(* A request was received and its responder not used yet.                  *)
MayRespond(q, id) == responder[q][id] = "open"

(* respondWithResult, the first time it is called; later calls reject and  *)
(* change nothing.  On a closed connection nothing is written and the      *)
(* request is finished at once, which close() has already done.            *)
Respond(q, id, r) ==
    /\ MayRespond(q, id)
    /\ responder' = [responder EXCEPT ![q][id] = r]
    /\ Enqueue(q, <<Response(id, r)>>)
    /\ UNCHANGED <<aborted, callerVars, writing, wire, incomingRequests, controller>>

(* Faulty: no finishRequest.                                               *)
NeverFinishRequest(q, m) == UNCHANGED incomingRequests

(* The `finally` of respondWithResult, run when the response's link of the *)
(* write chain settles.                                                    *)
FinishRequest(q, m) ==
    incomingRequests' = IF m.kind = "response"
                        THEN [incomingRequests EXCEPT ![q] = @ \ {m.id}]
                        ELSE incomingRequests

-----------------------------------------------------------------------------
(* The write chain: one link at a time, each a getWriter, write, release.  *)

StartWrite(p) ==
    /\ writing[p] = "idle"
    /\ writeQueue[p] # <<>>
    /\ ~aborted[p]
    /\ writing' = [writing EXCEPT ![p] = "started"]
    /\ UNCHANGED <<aborted, callerVars, writeQueue, wire, calleeVars>>

(* The transport takes the message.  The promise of the write resolves     *)
(* later, and the peer may read and answer before it does.                 *)
LandWrite(p) ==
    /\ writing[p] = "started"
    /\ writing' = [writing EXCEPT ![p] = "landed"]
    /\ wire' = [wire EXCEPT ![p] = Append(@, Head(writeQueue[p]))]
    /\ UNCHANGED <<aborted, callerVars, writeQueue, calleeVars>>

FinishWrite(p) ==
    /\ writing[p] = "landed"
    /\ writing' = [writing EXCEPT ![p] = "idle"]
    /\ writeQueue' = [writeQueue EXCEPT ![p] = Tail(@)]
    /\ FinishRequest(p, Head(writeQueue[p]))
    /\ UNCHANGED <<aborted, callerVars, wire, controller, responder>>

(* A link rejects because the transport failed, before or after it took    *)
(* the message.  The chain stays rejected: no later link runs, and the     *)
(* first one closes the connection.                                        *)
FailWrite(p) ==
    /\ writing[p] \in {"started", "landed"}
    /\ writing' = [writing EXCEPT ![p] = "idle"]
    /\ writeQueue' = [writeQueue EXCEPT ![p] = <<>>]
    /\ IF aborted[p]
       THEN UNCHANGED <<aborted, callerVars, calleeVars>>
       ELSE /\ CloseEffects(p)
            /\ UNCHANGED <<nextRequestId, cancellationSent, responder>>
    /\ UNCHANGED wire

(* A link that is reached on a closed connection throws, and with it every *)
(* link behind it.                                                         *)
RejectWrites(p) ==
    /\ writing[p] = "idle"
    /\ writeQueue[p] # <<>>
    /\ aborted[p]
    /\ writeQueue' = [writeQueue EXCEPT ![p] = <<>>]
    /\ UNCHANGED <<aborted, callerVars, writing, wire, calleeVars>>

-----------------------------------------------------------------------------
(* The receive loop: it reads one message and handles it synchronously,    *)
(* and it reads no more once the connection is aborted.                    *)

Read(p, kind) ==
    /\ ~aborted[p]
    /\ wire[Other(p)] # <<>>
    /\ Head(wire[Other(p)]).kind = kind
    /\ wire' = [wire EXCEPT ![Other(p)] = Tail(@)]

ReceiveRequest(p) ==
    LET id == Head(wire[Other(p)]).id IN
    /\ Read(p, "request")
    /\ incomingRequests' = [incomingRequests EXCEPT ![p] = @ \cup {id}]
    /\ controller' = [controller EXCEPT ![p][id] = "live"]
    /\ responder'  = [responder EXCEPT ![p][id] = "open"]
    /\ UNCHANGED <<aborted, callerVars, writeQueue, writing>>

(* Faulty: a cancellation aborts whatever is being handled.                *)
EveryRequest(p, id) == incomingRequests[p]

(* Faulty: request id 0 is taken for a missing one.                        *)
TruthyTarget(p, id) == ({id} \cap incomingRequests[p]) \ {0}

(* The request a cancellation is for, if it is still registered.           *)
CancelTarget(p, id) == {id} \cap incomingRequests[p]

(* handleProtocolNotification.  A cancellation for a request that has      *)
(* finished, or was cancelled already, is ignored.                         *)
ReceiveCancel(p) ==
    LET id == Head(wire[Other(p)]).id IN
    /\ Read(p, "cancel")
    /\ controller' = [controller EXCEPT ![p] =
                        [k \in Ids |-> IF k \in CancelTarget(p, id) THEN "aborted" ELSE @[k]]]
    /\ UNCHANGED <<aborted, callerVars, writeQueue, writing, incomingRequests, responder>>

(* The request a response is for, if it is still pending.                  *)
PendingFor(p, id) == {id} \cap pendingResponses[p]

(* handleResponse.  A response that no request waits for is logged.        *)
ReceiveResponse(p) ==
    LET id == Head(wire[Other(p)]).id IN
    /\ Read(p, "response")
    /\ pendingResponses' = [pendingResponses EXCEPT ![p] = @ \ PendingFor(p, id)]
    /\ Cleanup(p, PendingFor(p, id))
    /\ promise' = [promise EXCEPT ![p] =
                     Settle(@, PendingFor(p, id), Head(wire[Other(p)]).result)]
    /\ UNCHANGED <<aborted, nextRequestId, cancellationSent, writeQueue, writing, calleeVars>>

Receive(p) == ReceiveRequest(p) \/ ReceiveCancel(p) \/ ReceiveResponse(p)

(* close(), called by the application, or by the receive loop when its     *)
(* stream ends or fails, with messages still unread perhaps.               *)
Close(p) ==
    /\ ~aborted[p]
    /\ CloseEffects(p)
    /\ UNCHANGED <<nextRequestId, cancellationSent, responder, writeVars>>

-----------------------------------------------------------------------------
Write(p) == StartWrite(p) \/ LandWrite(p) \/ FinishWrite(p) \/ RejectWrites(p)

Next ==
    \E p \in Peers :
        \/ \E signalAborted \in BOOLEAN : SendRequest(p, signalAborted)
        \/ \E id \in Ids : CancelRequest(p, id)
        \/ \E id \in Ids, r \in Results : Respond(p, id, r)
        \/ Write(p)
        \/ FailWrite(p)
        \/ Receive(p)
        \/ Close(p)

Spec == Init /\ [][Next]_vars

(* The event loop runs every continuation that is ready: a write chain     *)
(* whose transport accepts messages moves on, and so does a receive loop   *)
(* with a message to read.  Applications, handlers and failures are under  *)
(* no obligation.                                                          *)
Fairness == \A p \in Peers : WF_vars(Write(p)) /\ WF_vars(Receive(p))

LiveSpec == Spec /\ Fairness

-----------------------------------------------------------------------------
(* Properties.                                                             *)

(* The values the variables take. *)
TypeOK ==
    /\ aborted          \in [Peers -> BOOLEAN]
    /\ nextRequestId    \in [Peers -> 0 .. IdBound]
    /\ pendingResponses \in [Peers -> SUBSET Ids]
    /\ listeners        \in [Peers -> SUBSET Ids]
    /\ cancellationSent \in [Peers -> SUBSET Ids]
    /\ promise          \in [Peers -> [Ids -> {"none", "pending", "closed"} \cup Results]]
    /\ writeQueue       \in [Peers -> Seq(Messages)]
    /\ writing          \in [Peers -> {"idle", "started", "landed"}]
    /\ wire             \in [Peers -> Seq(Messages)]
    /\ incomingRequests \in [Peers -> SUBSET Ids]
    /\ controller       \in [Peers -> [Ids -> {"none", "live", "aborted"}]]
    /\ responder        \in [Peers -> [Ids -> {"none", "open"} \cup Results]]

Entries(s) == {s[i] : i \in 1 .. Len(s)}

(* The messages a peer has sent and the other has not read, oldest first:  *)
(* those on the wire, then those in the write chain.  A landed write is on *)
(* the wire already.                                                       *)
Unwritten(p) == IF writing[p] = "landed" THEN Tail(writeQueue[p]) ELSE writeQueue[p]
InFlight(p)  == wire[p] \o Unwritten(p)

(* No request hangs on a closed connection, and none is lost from the map  *)
(* while it hangs on an open one: the promises that are pending are those  *)
(* in pendingResponses, and close() leaves none (sendRequest racing close, *)
(* responses and failed writes).                                           *)
PendingIsTracked ==
    \A p \in Peers :
        /\ aborted[p] => pendingResponses[p] = {}
        /\ \A id \in Ids : promise[p][id] = "pending" <=> id \in pendingResponses[p]

(* A caller learns exactly what its callee's handler answered: whatever    *)
(* happens to be cancelled, closed or in flight in between, a promise that *)
(* settled by a response carries the result that the responder of that id  *)
(* was used with.                                                          *)
AnswersAreAuthentic ==
    \A p \in Peers, id \in Ids :
        promise[p][id] \in Results => responder[Other(p)][id] = promise[p][id]

(* "Got response to unknown request" is never reached between two SDK      *)
(* peers: a response still under way to an open connection finds its       *)
(* request pending, and no second response to it follows.                  *)
ResponsesAreExpected ==
    \A p \in Peers :
        LET flight == InFlight(Other(p)) IN
        ~aborted[p] =>
            \A i \in 1 .. Len(flight) : flight[i].kind = "response" =>
                /\ flight[i].id \in pendingResponses[p]
                /\ \A j \in 1 .. Len(flight) : j # i => flight[j] # flight[i]

(* The registry the callee cancels through is exact: on an open connection *)
(* a request has its controller there from its receipt until the write of  *)
(* its response has settled, no longer and no shorter.                     *)
RegisteredUntilWritten ==
    \A q \in Peers : ~aborted[q] =>
        incomingRequests[q] =
            {id \in Ids : \/ responder[q][id] = "open"
                          \/ \E r \in Results : Response(id, r) \in Entries(writeQueue[q])}

(* A handler is told to stop only when its caller cancelled that request   *)
(* or its own connection closed.                                           *)
AbortsAreRequested ==
    \A q \in Peers, id \in Ids :
        controller[q][id] = "aborted" =>
            aborted[q] \/ id \in cancellationSent[Other(q)]

(* The two ends agree about each request: what the callee will respond to  *)
(* the caller still waits for, the callee finds what it is asked to cancel *)
(* while that makes a difference, and it stops nothing else.               *)
PeersAgree ==
    /\ ResponsesAreExpected
    /\ RegisteredUntilWritten
    /\ AbortsAreRequested

(* Once a handler has answered, the caller's promise settles, unless one   *)
(* of the connections closes first; and a cancellation that was sent       *)
(* aborts the handler's signal, unless the handler has answered.           *)
AnswersAndCancelsArrive ==
    \A p \in Peers, id \in Ids :
        /\ (responder[Other(p)][id] \in Results /\ promise[p][id] = "pending") ~>
                (promise[p][id] # "pending" \/ aborted[Other(p)])
        /\ id \in cancellationSent[p] ~>
                \/ controller[Other(p)][id] = "aborted"
                \/ responder[Other(p)][id] \in Results
                \/ aborted[p] \/ aborted[Other(p)]

-----------------------------------------------------------------------------
(* Refinement: forgetting messages, write chains and registries, two       *)
(* connections implement RpcCalls.                                         *)
Answers ==
    [p \in Peers |-> [id \in Ids |->
        IF responder[Other(p)][id] \in Results THEN responder[Other(p)][id] ELSE "none"]]

Calls == INSTANCE RpcCalls
            WITH open   <- [p \in Peers |-> ~aborted[p]],
                 call   <- promise,
                 answer <- Answers

(* Every step of the connections is a step of RpcCalls or is invisible to  *)
(* it: calls are issued, answered and returned once, and closing rejects   *)
(* what is pending in one step.                                            *)
ImplementsCalls == Calls!Spec
=============================================================================
