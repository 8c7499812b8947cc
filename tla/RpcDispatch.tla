---------------------------- MODULE RpcDispatch ----------------------------
(***************************************************************************)
(* How one `Connection` of jsonrpc.ts dispatches what it receives: the     *)
(* chain of static and dynamic handlers, the retry queue, the responder    *)
(* of each request and the registry through which `$/cancel_request` finds *)
(* a request.  Handlers are asynchronous, so the dispatches of different   *)
(* messages interleave with each other and with everything else.           *)
(*                                                                         *)
(* The peer is external and follows JSON-RPC: it uses an id for a new      *)
(* request as soon as it has the response to the previous one.  The write  *)
(* chain is that of RpcConnection, seen here one response at a time.       *)
(***************************************************************************)
EXTENDS Integers, Sequences, FiniteSets, Functions

CONSTANTS
    Requests,           \* the requests the peer may send
    Notifications,      \* the notifications the peer may send
    IdOf,               \* [Requests -> ids]: ids may be shared by requests
    StaticHandlers,     \* sequence of handlers the connection is built with
    DynamicHandlers,    \* handlers that are added later, each at most once
    NoRequest           \* an entry of incomingRequests that is absent

Messages == Requests \cup Notifications
RequestIds == {IdOf[m] : m \in Requests}
Handlers == Range(StaticHandlers) \cup DynamicHandlers

ASSUME StaticHandlersAssumption == StaticHandlers \in Seq(Range(StaticHandlers))
ASSUME NoRequestAssumption == NoRequest \notin Requests
ASSUME KindsAreDisjoint    == Requests \cap Notifications = {}

VARIABLES
    aborted,            \* abortController.signal.aborted
    dynamicHandlers,    \* the Set of dynamic handlers, in insertion order
    disposed,           \* dynamic handlers that have been disposed
    retryQueue,         \* messages some handler asked to have retried
    tasks,              \* the runs of processIncomingMessage under way
    attempts,           \* how many runs each message has had
    incomingRequests,   \* [RequestIds -> Requests \cup {NoRequest}]
    controller,         \* the AbortController of each request
    response,           \* the response of each request, and how far it is
    offered,            \* history: the handlers a message was given to
    claimed,            \* history: the messages a handler returned as handled
    owed                \* history: <<m, h>> when h was added after a retry of m was asked for

dispatchVars == <<dynamicHandlers, disposed, retryQueue, tasks, attempts>>
requestVars  == <<incomingRequests, controller, response>>
historyVars  == <<offered, claimed, owed>>
vars == <<aborted, dispatchVars, requestVars, historyVars>>

-----------------------------------------------------------------------------
Init ==
    /\ aborted = FALSE
    /\ dynamicHandlers = <<>>
    /\ disposed = {}
    /\ retryQueue = <<>>
    /\ tasks = {}
    /\ attempts = [m \in Messages |-> 0]
    /\ incomingRequests = [id \in RequestIds |-> NoRequest]
    /\ controller = [m \in Requests |-> "none"]
    /\ response = [m \in Requests |-> [by |-> "nobody", at |-> "none"]]
    /\ offered = [m \in Messages |-> {}]
    /\ claimed = {}
    /\ owed = {}

Responded(m) == response[m].by # "nobody"

(* sendResult: the response goes to the write chain, unless the connection *)
(* is closed: then it is rejected at once.                                 *)
AnswerBy(m, who) ==
    [response EXCEPT ![m] = [by |-> who, at |-> IF aborted THEN "settled" ELSE "sending"]]

-----------------------------------------------------------------------------
(* processIncomingMessage.  A task holds the handlers left of the snapshot *)
(* it took when it began; the first of them is running.                    *)

Task(m, handlers) == [msg |-> m, attempt |-> attempts[m] + 1, rest |-> handlers, retry |-> FALSE]

(* Faulty: method not found although a retry was asked for.                *)
EndOfChainAnswers(m, retry) ==
    /\ retryQueue' = IF retry THEN Append(retryQueue, m) ELSE retryQueue
    /\ response' = IF m \in Requests /\ ~Responded(m)
                   THEN AnswerBy(m, "methodNotFound") ELSE response

(* The end of the handler chain, reached with the request unclaimed.  A    *)
(* response that was sent already makes respondWithError reject, which is  *)
(* logged.                                                                 *)
EndOfChain(m, retry) ==
    /\ retryQueue' = IF retry THEN Append(retryQueue, m) ELSE retryQueue
    /\ response' = IF ~retry /\ m \in Requests /\ ~Responded(m)
                   THEN AnswerBy(m, "methodNotFound") ELSE response

(* A message arrives and its first run begins, up to the first handler.    *)
(* The peer reuses an id once the response to its last use has landed.     *)
Receive(m) ==
    LET handlers == StaticHandlers \o dynamicHandlers IN
    /\ ~aborted
    /\ attempts[m] = 0
    /\ m \in Requests =>
          \A n \in Requests \ {m} : IdOf[n] = IdOf[m] /\ attempts[n] > 0 =>
              response[n].at \in {"landed", "settled"}
    /\ attempts' = [attempts EXCEPT ![m] = 1]
    /\ IF m \in Requests
       THEN /\ incomingRequests' = [incomingRequests EXCEPT ![IdOf[m]] = m]
            /\ controller' = [controller EXCEPT ![m] = "live"]
       ELSE UNCHANGED <<incomingRequests, controller>>
    /\ IF handlers = <<>>
       THEN /\ EndOfChain(m, FALSE)
            /\ UNCHANGED <<tasks, offered>>
       ELSE /\ tasks' = tasks \cup {Task(m, handlers)}
            /\ offered' = [offered EXCEPT ![m] = @ \cup {Head(handlers)}]
            /\ UNCHANGED <<retryQueue, response>>
    /\ UNCHANGED <<aborted, dynamicHandlers, disposed, claimed, owed>>

(* The loop looks at the signal before each handler.                       *)
DispatchStops == aborted

(* Faulty: a run that is to be retried starts over at once.                *)
RestartForRetry(t, retry) ==
    IF retry /\ Len(t.rest) = 1 THEN StaticHandlers \o dynamicHandlers ELSE Tail(t.rest)

(* The handlers that are left when the running one has declined.           *)
NextHandlers(t, retry) == Tail(t.rest)

(* The running handler of a task resolves to `handled`. *)
HandlerClaims(t) ==
    /\ tasks' = tasks \ {t}
    /\ claimed' = claimed \cup {t.msg}
    /\ UNCHANGED <<aborted, dynamicHandlers, disposed, retryQueue, attempts,
                   requestVars, offered, owed>>

(* It resolves to `Handled.no(message, askRetry)`: the next handler runs,  *)
(* unless the connection was closed meanwhile.                             *)
HandlerDeclines(t, askRetry) ==
    LET retry == t.retry \/ askRetry
        rest  == NextHandlers(t, retry)
    IN
    /\ IF rest = <<>>
       THEN /\ tasks' = tasks \ {t}
            /\ EndOfChain(t.msg, retry)
            /\ UNCHANGED offered
       ELSE /\ UNCHANGED <<retryQueue, response>>
            /\ IF DispatchStops
               THEN /\ tasks' = tasks \ {t}
                    /\ UNCHANGED offered
               ELSE /\ tasks' = (tasks \ {t}) \cup {[t EXCEPT !.rest = rest, !.retry = retry]}
                    /\ offered' = [offered EXCEPT ![t.msg] = @ \cup {Head(rest)}]
    /\ owed' = owed \ {<<t.msg, Head(t.rest)>>}
    /\ UNCHANGED <<aborted, dynamicHandlers, disposed, attempts, incomingRequests,
                   controller, claimed>>

(* Faulty: the check for an earlier response is inverted.                  *)
AnsweredRequest(m) == ~aborted /\ m \in Requests /\ Responded(m)

(* A message whose handler threw is owed an answer.                        *)
UnansweredRequest(m) == ~aborted /\ m \in Requests /\ ~Responded(m)

(* It throws: a request without a response gets the error as its response. *)
HandlerThrows(t) ==
    /\ tasks' = tasks \ {t}
    /\ response' = IF UnansweredRequest(t.msg)
                   THEN AnswerBy(t.msg, "error") ELSE response
    /\ UNCHANGED <<aborted, dynamicHandlers, disposed, retryQueue, attempts,
                   incomingRequests, controller, historyVars>>

-----------------------------------------------------------------------------
(* Faulty: slice(0) for splice(0).                                         *)
QueueAfterSlice == retryQueue

(* What is left of the retry queue when its messages are taken.            *)
QueueAfterSplice == <<>>

(* A handler is an object of its own, registered once.                     *)
NeverRegistered(h) == h \notin Range(dynamicHandlers) \cup disposed

(* addDynamicHandler: the retry queue is emptied, and a run is begun for   *)
(* each message of it, with the new handler in its snapshot.  On a closed  *)
(* connection those runs return at once.                                   *)
AddDynamicHandler(h) ==
    LET added    == Append(dynamicHandlers, h)
        handlers == StaticHandlers \o added
        retried  == Range(retryQueue)
    IN
    /\ NeverRegistered(h)
    /\ dynamicHandlers' = added
    /\ retryQueue' = QueueAfterSplice
    /\ IF aborted
       THEN UNCHANGED <<tasks, attempts, offered>>
       ELSE /\ tasks' = tasks \cup {Task(m, handlers) : m \in retried}
            /\ attempts' = [m \in Messages |-> attempts[m] + (IF m \in retried THEN 1 ELSE 0)]
            /\ offered' = [m \in Messages |->
                  IF m \in retried THEN offered[m] \cup {Head(handlers)} ELSE offered[m]]
    /\ owed' = owed \cup {<<m, h>> : m \in retried \cup {t.msg : t \in {u \in tasks : u.retry}}}
    /\ UNCHANGED <<aborted, disposed, requestVars, claimed>>

(* HandlerRegistration.dispose: runs under way keep their snapshot.        *)
DisposeHandler(h) ==
    /\ \E i \in 1 .. Len(dynamicHandlers) :
          /\ dynamicHandlers[i] = h
          /\ dynamicHandlers' = SubSeq(dynamicHandlers, 1, i - 1)
                                    \o SubSeq(dynamicHandlers, i + 1, Len(dynamicHandlers))
    /\ disposed' = disposed \cup {h}
    /\ owed' = {o \in owed : o[2] # h}
    /\ UNCHANGED <<aborted, retryQueue, tasks, attempts, requestVars, offered, claimed>>

-----------------------------------------------------------------------------
(* Requests.                                                               *)

(* A handler uses the responder of a request it was given, while it runs   *)
(* or at any time after.                                                   *)
Respond(m) ==
    /\ offered[m] # {}
    /\ ~Responded(m)
    /\ response' = AnswerBy(m, "handler")
    /\ UNCHANGED <<aborted, dispatchVars, incomingRequests, controller, historyVars>>

(* The transport takes the response, so that the peer may reuse the id.    *)
LandResponse(m) ==
    /\ response[m].at = "sending"
    /\ response' = [response EXCEPT ![m].at = "landed"]
    /\ UNCHANGED <<aborted, dispatchVars, incomingRequests, controller, historyVars>>

(* Faulty: whatever is registered under the id is deleted.                 *)
AnyEntry(m) == incomingRequests[IdOf[m]] # NoRequest

(* The entry under the request's id still is its own.                      *)
OwnEntry(m) == incomingRequests[IdOf[m]] = m

(* The promise of the write settles and finishRequest runs; on a closed    *)
(* connection the write may never have begun.  The entry is deleted only   *)
(* if it still is this request's own.                                      *)
FinishRequest(m) ==
    /\ \/ response[m].at = "landed"
       \/ response[m].at = "sending" /\ aborted
    /\ response' = [response EXCEPT ![m].at = "settled"]
    /\ incomingRequests' = IF OwnEntry(m)
                           THEN [incomingRequests EXCEPT ![IdOf[m]] = NoRequest]
                           ELSE incomingRequests
    /\ UNCHANGED <<aborted, dispatchVars, controller, historyVars>>

(* handleProtocolNotification for `$/cancel_request`. *)
ReceiveCancel(id) ==
    LET m == incomingRequests[id] IN
    /\ ~aborted
    /\ m # NoRequest
    /\ controller[m] = "live"
    /\ controller' = [controller EXCEPT ![m] = "aborted"]
    /\ UNCHANGED <<aborted, dispatchVars, incomingRequests, response, historyVars>>

(* close(), whatever its cause. *)
Close ==
    /\ ~aborted
    /\ aborted' = TRUE
    /\ controller' = [m \in Requests |->
           IF \E id \in RequestIds : incomingRequests[id] = m THEN "aborted" ELSE controller[m]]
    /\ incomingRequests' = [id \in RequestIds |-> NoRequest]
    /\ UNCHANGED <<dispatchVars, response, historyVars>>

-----------------------------------------------------------------------------
HandlerSettles(t) ==
    \/ HandlerClaims(t)
    \/ \E askRetry \in BOOLEAN : HandlerDeclines(t, askRetry)
    \/ HandlerThrows(t)

Next ==
    \/ \E m \in Messages : Receive(m)
    \/ \E t \in tasks : HandlerSettles(t)
    \/ \E h \in DynamicHandlers : AddDynamicHandler(h) \/ DisposeHandler(h)
    \/ \E m \in Requests : Respond(m) \/ LandResponse(m) \/ FinishRequest(m)
    \/ \E id \in RequestIds : ReceiveCancel(id)
    \/ Close

Spec == Init /\ [][Next]_vars

(* The application's part of the bargain: a handler's promise settles.     *)
HandlersSettle ==
    \A m \in Messages : WF_vars(\E t \in tasks : t.msg = m /\ HandlerSettles(t))

LiveSpec == Spec /\ HandlersSettle

-----------------------------------------------------------------------------
(* Properties.                                                             *)

(* A message is dispatched when it arrives and at most once more for each  *)
(* dynamic handler that is added.                                          *)
AttemptBound == 1 + Cardinality(Range(dynamicHandlers) \cup disposed)

(* The values the variables take. *)
TypeOK ==
    /\ aborted \in BOOLEAN
    /\ dynamicHandlers \in Seq(DynamicHandlers)
    /\ disposed \subseteq DynamicHandlers
    /\ retryQueue \in Seq(Messages)
    /\ tasks \subseteq [msg : Messages, attempt : Nat, rest : Seq(Handlers) \ {<<>>}, retry : BOOLEAN]
    /\ attempts \in [Messages -> Nat]
    /\ \A m \in Messages : attempts[m] <= AttemptBound
    /\ incomingRequests \in [RequestIds -> Requests \cup {NoRequest}]
    /\ controller \in [Requests -> {"none", "live", "aborted"}]
    /\ response \in [Requests -> [by : {"nobody", "handler", "methodNotFound", "error"},
                                  at : {"none", "sending", "landed", "settled"}]]
    /\ offered \in [Messages -> SUBSET Handlers]
    /\ claimed \subseteq Messages
    /\ owed \subseteq Messages \X DynamicHandlers

(* "Method not found" is an answer of last resort: every static handler    *)
(* has been offered the request, and none of them, nor any dynamic one,    *)
(* has claimed it or is still looking at it.                               *)
NotFoundIsLastResort ==
    \A m \in Requests : response[m].by = "methodNotFound" =>
        /\ Range(StaticHandlers) \subseteq offered[m]
        /\ m \notin claimed
        /\ m \notin Range(retryQueue) \cup {t.msg : t \in tasks}

(* No request is dropped or doubled by an open connection: one that was    *)
(* received is being dispatched, waits for a retry, was claimed by a       *)
(* handler, or has been answered, by "method not found" only as the last   *)
(* resort; and no two runs of the dispatch loop work on a message at once, *)
(* nor is it queued for a retry meanwhile.                                 *)
NothingDropped ==
    /\ ~aborted => \A m \in Requests : attempts[m] > 0 =>
        \/ \E t \in tasks : t.msg = m
        \/ m \in Range(retryQueue)
        \/ m \in claimed
        \/ Responded(m)
    /\ \A m \in Messages :
        Cardinality({t \in tasks : t.msg = m})
          + Cardinality({i \in 1 .. Len(retryQueue) : retryQueue[i] = m}) <= 1
    /\ NotFoundIsLastResort

(* The registry is exact although a peer may reuse an id while the         *)
(* finishing of the earlier request has not caught up: the request the     *)
(* peer may still want to cancel is found by its id, and no entry is left  *)
(* for one whose response has settled.                                     *)
RegistryIsExact ==
    \A m \in Requests :
        /\ ~aborted /\ attempts[m] > 0 /\ response[m].at \in {"none", "sending"} =>
              incomingRequests[IdOf[m]] = m
        /\ incomingRequests[IdOf[m]] = m => response[m].at # "settled"

(* Every dispatch comes to an end when handlers settle: it is not held up  *)
(* by retries, other messages or changes to the handlers.                  *)
DispatchEnds ==
    \A m \in Messages : (\E t \in tasks : t.msg = m) ~> (\A t \in tasks : t.msg # m)

(* As addDynamicHandler documents it: a message for which a handler has    *)
(* asked for a retry is retried after a handler is added.  It does not     *)
(* stay in the queue, never offered to a handler that was added, and is    *)
(* still registered, after the retry was asked for.                        *)
RetriedAfterHandlerAdded ==
    ~aborted => \A m \in Range(retryQueue) : \A h \in DynamicHandlers : <<m, h>> \notin owed
=============================================================================
