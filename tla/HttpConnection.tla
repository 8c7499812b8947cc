--------------------------- MODULE HttpConnection ---------------------------
(***************************************************************************)
(* One Streamable HTTP connection of the server: ConnectionState of        *)
(* connection.ts with the handlers of server.ts that use it.  A router     *)
(* takes what the agent writes and queues it on the connection's stream or *)
(* on that of a session; GET requests drain those streams; POST requests   *)
(* go to the agent, one at a time.  When too much output is queued the     *)
(* router pauses and POST requests are held back, until a client reads, or *)
(* none does for maxOutputStallMs and the connection closes.               *)
(*                                                                         *)
(* A queue is that of OutboundMailbox, and every message counts as one     *)
(* toward maxBufferedBytes.  The connection was initialized and its router *)
(* started.  A POST that waits, and the router, is "waiting" for a         *)
(* notifyOutboundProgress and "woken" when that has resolved its promise.  *)
(***************************************************************************)
EXTENDS Integers, Sequences, FiniteSets

CONSTANTS
    Sessions,           \* session ids
    Connection,         \* stands for the stream of the connection itself
    TooLong,            \* a session id longer than maxIdLength
    Requests,           \* the client's requests, with ids of their own
    RouteOf,            \* [Requests -> Streams]: what determineRoute finds
    NoRoute,            \* a key that is absent from pendingRoutes
    MaxBuffered,        \* limits.maxBufferedBytes
    MaxSessionStreams,  \* limits.maxBufferedSessionStreams
    MaxOutput           \* bound on the messages the agent writes

Streams == Sessions \cup {Connection}

ASSUME NamesAssumption ==
    Connection \notin Sessions /\ TooLong \notin Streams /\ NoRoute \notin Streams
ASSUME RouteOfAssumption == RouteOf \in [Requests -> Streams]
ASSUME LimitsAssumption  == MaxBuffered \in Nat \ {0} /\ MaxSessionStreams \in Nat \ {0}

VARIABLES
    isClosed,               \* hasStartedShutdown
    hasAgentOutputEnded,
    hasFinishedRouting,
    registered,             \* whether the registry still finds the connection
    agentOpen,              \* whether the agent reads what it is sent
    outbound,               \* what the agent wrote and the router has not taken
    channel,                \* "open", "ended" or "failed": the agent's output
    router,                 \* what runRouter awaits
    sessionStreams,         \* sessions that have a stream
    queue,                  \* [Streams -> Seq(Nat)]: messages waiting, oldest first
    receivers,              \* streams whose lease a GET request holds
    bufferedBytes,
    bufferedSessionStreams,
    post,                   \* [Requests -> ...]: how far each POST request is
    inboundWriteChain,      \* requests to be written to the agent, in order
    pendingRoutes,          \* [Requests -> Streams \cup {NoRoute}]
    written,                \* how many messages the agent has written
    responded,              \* requests the agent has responded to
    routed,                 \* history: [Streams -> Seq(Nat)], what was routed there
    delivered,              \* history: [Streams -> Seq(Nat)], what receivers took
    answeredOn              \* history: [Requests -> stream the response went to]

agentVars  == <<agentOpen, outbound, channel, written, responded>>
streamVars == <<sessionStreams, queue, bufferedBytes, bufferedSessionStreams>>
flagVars   == <<isClosed, hasAgentOutputEnded, hasFinishedRouting, registered>>
inVars     == <<inboundWriteChain, pendingRoutes>>
historyVars == <<routed, delivered, answeredOn>>
vars == <<agentVars, streamVars, flagVars, inVars, historyVars, router, receivers, post>>

Init ==
    /\ isClosed = FALSE
    /\ hasAgentOutputEnded = FALSE
    /\ hasFinishedRouting = FALSE
    /\ registered = TRUE
    /\ agentOpen = TRUE
    /\ outbound = <<>>
    /\ channel = "open"
    /\ router = "reading"
    /\ sessionStreams = {}
    /\ queue = [s \in Streams |-> <<>>]
    /\ receivers = {}
    /\ bufferedBytes = 0
    /\ bufferedSessionStreams = 0
    /\ post = [r \in Requests |-> "none"]
    /\ inboundWriteChain = <<>>
    /\ pendingRoutes = [r \in Requests |-> NoRoute]
    /\ written = 0
    /\ responded = {}
    /\ routed = [s \in Streams |-> <<>>]
    /\ delivered = [s \in Streams |-> <<>>]
    /\ answeredOn = [r \in Requests |-> NoRoute]

-----------------------------------------------------------------------------
(* Waiting for room.                                                       *)

HasOutboundBacklog == bufferedBytes >= MaxBuffered

(* notifyOutboundProgress resolves the promise of everyone who waits.      *)
WakeRouter == IF router = "waiting" THEN "woken" ELSE router
WakePosts  == [r \in Requests |-> IF post[r] = "waiting" THEN "woken" ELSE post[r]]

(* Faulty: POST requests are not told. *)
NotifyRouterOnly == router' = WakeRouter /\ UNCHANGED post

NotifyOutboundProgress == router' = WakeRouter /\ post' = WakePosts

-----------------------------------------------------------------------------
(* Closing.                                                                *)

(* shutdown() up to its first await: streams are aborted with everything   *)
(* on them, which the observer counts, and routes are forgotten.  `next`   *)
(* is what becomes of the router, which is woken or is shutting down.      *)
Shutdown(next) ==
    /\ isClosed' = TRUE
    /\ router' = next
    /\ post' = WakePosts
    /\ queue' = [s \in Streams |-> <<>>]
    /\ bufferedBytes' = 0
    /\ sessionStreams' = {}
    /\ bufferedSessionStreams' = 0
    /\ receivers' = {}
    /\ pendingRoutes' = [r \in Requests |-> NoRoute]

(* handleDelete, or AcpServer.close: the registry finds the connection     *)
(* even as it shuts down.                                                  *)
Delete ==
    /\ registered
    /\ registered' = FALSE
    /\ IF isClosed
       THEN UNCHANGED <<isClosed, streamVars, receivers, pendingRoutes, router, post>>
       ELSE Shutdown(WakeRouter)
    /\ UNCHANGED <<agentVars, hasAgentOutputEnded, hasFinishedRouting,
                   inboundWriteChain, historyVars>>

(* Faulty: only shutdown resolves it. *)
ResolvedByShutdown == isClosed

(* The promise `closed`, which shutdown and the router's end resolve.      *)
ClosedResolved == isClosed \/ hasFinishedRouting

(* trackConnectionClose. *)
Unregister ==
    /\ registered
    /\ ClosedResolved
    /\ registered' = FALSE
    /\ UNCHANGED <<agentVars, streamVars, isClosed, hasAgentOutputEnded, hasFinishedRouting,
                   inVars, historyVars, router, receivers, post>>

(* Faulty: the time-out is for POST requests only. *)
PostWaits == \E r \in Requests : post[r] = "waiting"

SomebodyWaits == router = "waiting" \/ \E r \in Requests : post[r] = "waiting"

(* maxOutputStallMs passes for somebody who waits: closeForLimit.          *)
Stall ==
    /\ SomebodyWaits
    /\ ~isClosed
    /\ Shutdown(WakeRouter)
    /\ UNCHANGED <<agentVars, hasAgentOutputEnded, hasFinishedRouting, registered,
                   inboundWriteChain, historyVars>>

-----------------------------------------------------------------------------
(* The agent, which is external.  It writes messages to sessions or to     *)
(* none, and a response to each request it has read; what it writes waits  *)
(* for the router.                                                         *)

AgentWrites(message) ==
    /\ channel = "open" /\ agentOpen /\ ~isClosed
    /\ written < MaxOutput
    /\ written' = written + 1
    /\ outbound' = Append(outbound, message)
    /\ UNCHANGED <<agentOpen, channel, streamVars, flagVars, inVars, historyVars,
                   router, receivers, post>>

(* A notification or a request to the client; `to` is the session that its *)
(* params name.                                                            *)
AgentSends(to) ==
    /\ AgentWrites([number |-> written + 1, to |-> to, responseTo |-> {}])
    /\ UNCHANGED responded

(* `to` is TooLong if the result names a session with an over-long id.     *)
AgentResponds(r, to) ==
    /\ post[r] = "accepted"
    /\ r \notin responded
    /\ responded' = responded \cup {r}
    /\ AgentWrites([number |-> written + 1, to |-> to, responseTo |-> {r}])

(* The agent's connection closes; it reads no more.                        *)
AgentCloses ==
    /\ agentOpen
    /\ agentOpen' = FALSE
    /\ UNCHANGED <<outbound, channel, written, responded, streamVars, flagVars, inVars,
                   historyVars, router, receivers, post>>

(* The outbound channel finishes: the agent closed its end of the stream,  *)
(* or the connection and `end` did.  What was written stays.               *)
EndOutput ==
    /\ channel = "open" /\ ~isClosed
    /\ channel' = "ended"
    /\ hasAgentOutputEnded' = TRUE
    /\ NotifyOutboundProgress
    /\ UNCHANGED <<agentOpen, outbound, written, responded, streamVars, isClosed,
                   hasFinishedRouting, registered, inVars, historyVars, receivers>>

(* It fails: the agent aborted its end or wrote a batch it may not write.  *)
(* What the router has not taken is gone.                                  *)
FailOutput ==
    /\ channel = "open" /\ ~isClosed
    /\ channel' = "failed"
    /\ outbound' = <<>>
    /\ hasAgentOutputEnded' = TRUE
    /\ NotifyOutboundProgress
    /\ UNCHANGED <<agentOpen, written, responded, streamVars, isClosed,
                   hasFinishedRouting, registered, inVars, historyVars, receivers>>

-----------------------------------------------------------------------------
(* The router.                                                             *)

(* Faulty: the route is looked up when its key has been deleted.           *)
RouteAfterDelete(m) == IF m.to = TooLong THEN TooLong ELSE IF m.responseTo # {} THEN Connection ELSE m.to

(* The stream a message belongs on: for a response the route its request   *)
(* left, or else that of the connection.                                   *)
RouteFor(m) ==
    IF m.to = TooLong THEN TooLong
    ELSE IF m.responseTo = {} THEN m.to
    ELSE LET route == pendingRoutes[CHOOSE r \in m.responseTo : TRUE]
         IN  IF route = NoRoute THEN Connection ELSE route

(* ensureSession throws: the id is too long, or a stream would have to be  *)
(* created and too many wait for a receiver already.                       *)
Refused(s) ==
    \/ s = TooLong
    \/ s \in Sessions \ sessionStreams /\ bufferedSessionStreams >= MaxSessionStreams

(* Faulty: the signal that the connection is closed is not looked at.      *)
StillRouting == TRUE

(* What was read when the connection closed is not routed any more.        *)
MayRoute == ~isClosed

(* One round of runRouter: read a message, route it, see whether there is  *)
(* room for another.                                                       *)
RouterTakes ==
    LET m == Head(outbound)
        s == RouteFor(m)
        created == s \in Sessions \ sessionStreams
    IN
    /\ router = "reading"
    /\ MayRoute
    /\ outbound # <<>>
    /\ ~Refused(s)
    /\ outbound' = Tail(outbound)
    /\ pendingRoutes' = [r \in Requests |-> IF r \in m.responseTo THEN NoRoute ELSE pendingRoutes[r]]
    /\ sessionStreams' = IF created THEN sessionStreams \cup {s} ELSE sessionStreams
    /\ bufferedSessionStreams' = bufferedSessionStreams + (IF created THEN 1 ELSE 0)
    /\ queue' = [queue EXCEPT ![s] = Append(@, m.number)]
    /\ bufferedBytes' = bufferedBytes + 1
    /\ router' = IF ~hasAgentOutputEnded /\ HasOutboundBacklog' THEN "waiting" ELSE "reading"
    /\ routed' = [routed EXCEPT ![s] = Append(@, m.number)]
    /\ answeredOn' = [r \in Requests |-> IF r \in m.responseTo THEN s ELSE answeredOn[r]]
    /\ UNCHANGED <<agentOpen, channel, written, responded, flagVars, inboundWriteChain,
                   delivered, receivers, post>>

(* The wait of waitForRoom is over, for now. *)
RouterResumes ==
    /\ router = "woken"
    /\ router' = IF ~isClosed /\ ~hasAgentOutputEnded /\ HasOutboundBacklog
                 THEN "waiting" ELSE "reading"
    /\ UNCHANGED <<agentVars, streamVars, flagVars, inVars, historyVars, receivers, post>>

(* The loop ends, since the agent's output has, or the connection closed.  *)
(* The streams are finished: what waits on them may still be read.         *)
RouterEnds ==
    /\ router = "reading"
    /\ isClosed \/ (channel = "ended" /\ outbound = <<>>)
    /\ router' = "done"
    /\ post' = WakePosts
    /\ hasFinishedRouting' = TRUE
    /\ UNCHANGED <<agentVars, streamVars, isClosed, hasAgentOutputEnded, registered,
                   inVars, historyVars, receivers>>

(* Output can no longer be routed: the connection closes. *)
RouterFails ==
    /\ router = "reading"
    /\ ~isClosed
    /\ channel = "failed" \/ (outbound # <<>> /\ Refused(RouteFor(Head(outbound))))
    /\ Shutdown("done")
    /\ hasFinishedRouting' = TRUE
    /\ UNCHANGED <<agentVars, hasAgentOutputEnded, registered, inboundWriteChain, historyVars>>

-----------------------------------------------------------------------------
(* GET requests.                                                           *)

(* Faulty: a stream that is created for its receiver was never counted.    *)
CountedAlways(s) == IF s \in Sessions THEN 1 ELSE 0

(* How many streams without a receiver there are less when s has one.      *)
CountedBefore(s) == IF s \in sessionStreams THEN 1 ELSE 0

(* handleGet: attach to the connection's stream, or to a session's, which  *)
(* is created if need be, unless nothing more will be routed to it.        *)
OpenStream(s) ==
    /\ registered /\ ~isClosed
    /\ s \notin receivers
    /\ s \in Sessions \ sessionStreams => ~hasFinishedRouting
    /\ receivers' = receivers \cup {s}
    /\ sessionStreams' = IF s \in Sessions THEN sessionStreams \cup {s} ELSE sessionStreams
    /\ bufferedSessionStreams' = bufferedSessionStreams - CountedBefore(s)
    /\ UNCHANGED <<agentVars, queue, bufferedBytes, flagVars, inVars, historyVars, router, post>>

(* The receiver takes a message. *)
TakeMessage(s) ==
    /\ s \in receivers
    /\ queue[s] # <<>>
    /\ queue' = [queue EXCEPT ![s] = Tail(@)]
    /\ bufferedBytes' = bufferedBytes - 1
    /\ delivered' = [delivered EXCEPT ![s] = Append(@, Head(queue[s]))]
    /\ NotifyOutboundProgress
    /\ UNCHANGED <<agentVars, sessionStreams, bufferedSessionStreams, flagVars, inVars,
                   routed, answeredOn, receivers>>

(* Faulty: the stream is deleted with the messages that wait on it.        *)
DeletedAlways(s) == s \in Sessions

(* A session stream that is left with nothing on it is deleted.            *)
DeletedWhenLeft(s) == s \in Sessions /\ queue[s] = <<>>

(* One that is left with messages is kept, if the limit allows for it.     *)
TooManyWhenLeft(s) ==
    /\ s \in Sessions /\ queue[s] # <<>>
    /\ ~hasFinishedRouting
    /\ bufferedSessionStreams + 1 > MaxSessionStreams

(* The GET request ends and releases its lease. *)
ReleaseStream(s) ==
    /\ s \in receivers
    /\ IF TooManyWhenLeft(s)
       THEN Shutdown(WakeRouter)
       ELSE /\ receivers' = receivers \ {s}
            /\ IF s = Connection
               THEN UNCHANGED <<sessionStreams, bufferedSessionStreams, queue>>
               ELSE IF DeletedWhenLeft(s)
               THEN /\ sessionStreams' = sessionStreams \ {s}
                    /\ queue' = [queue EXCEPT ![s] = <<>>]
                    /\ UNCHANGED bufferedSessionStreams
               ELSE /\ bufferedSessionStreams' = bufferedSessionStreams + 1
                    /\ UNCHANGED <<sessionStreams, queue>>
            /\ UNCHANGED <<isClosed, bufferedBytes, pendingRoutes, router, post>>
    /\ UNCHANGED <<agentVars, hasAgentOutputEnded, hasFinishedRouting, registered,
                   inboundWriteChain, historyVars>>

-----------------------------------------------------------------------------
(* POST requests.                                                          *)

(* The condition of the loop in waitForRoom, for a client's request.       *)
HeldBack == ~isClosed /\ ~hasFinishedRouting /\ HasOutboundBacklog

(* forwardClientMethodMessage, for a request, up to waitForOutboundCapacity. *)
Post(r) ==
    /\ registered /\ ~isClosed
    /\ post[r] = "none"
    /\ post' = [post EXCEPT ![r] = IF HeldBack THEN "waiting" ELSE "forward"]
    /\ UNCHANGED <<agentVars, streamVars, flagVars, inVars, historyVars, router, receivers>>

PostResumes(r) ==
    /\ post[r] = "woken"
    /\ post' = [post EXCEPT ![r] = IF HeldBack THEN "waiting" ELSE "forward"]
    /\ UNCHANGED <<agentVars, streamVars, flagVars, inVars, historyVars, router, receivers>>

(* The client gives up on a request that waits. *)
PostAborts(r) ==
    /\ post[r] = "waiting"
    /\ post' = [post EXCEPT ![r] = "rejected"]
    /\ UNCHANGED <<agentVars, streamVars, flagVars, inVars, historyVars, router, receivers>>

(* The rest of forwardClientMethodMessage, and writeInbound. *)
Forward(r) ==
    /\ post[r] = "forward"
    /\ post' = [post EXCEPT ![r] = "chained"]
    /\ pendingRoutes' = [pendingRoutes EXCEPT ![r] = RouteOf[r]]
    /\ inboundWriteChain' = Append(inboundWriteChain, r)
    /\ UNCHANGED <<agentVars, streamVars, flagVars, historyVars, router, receivers>>

(* No agent is left that could answer. *)
Unwritable == isClosed \/ hasFinishedRouting

WriteStep(from, to) ==
    /\ inboundWriteChain # <<>>
    /\ LET r == Head(inboundWriteChain) IN
       /\ post[r] = from
       /\ post' = [post EXCEPT ![r] = to]
       /\ inboundWriteChain' = IF to = "writing" THEN inboundWriteChain ELSE Tail(inboundWriteChain)
    /\ UNCHANGED <<agentVars, streamVars, flagVars, pendingRoutes, historyVars, router, receivers>>

(* writeInboundMessage, for the first of the chain. *)
StartWrite  == ~Unwritable /\ WriteStep("chained", "writing")
RefuseWrite == Unwritable /\ WriteStep("chained", "rejected")
AgentReads  == agentOpen /\ ~isClosed /\ WriteStep("writing", "accepted")
WriteFails  == (isClosed \/ ~agentOpen) /\ WriteStep("writing", "rejected")

-----------------------------------------------------------------------------
Route == RouterTakes \/ RouterResumes \/ RouterEnds \/ RouterFails
Write == StartWrite \/ RefuseWrite \/ WriteFails

Next ==
    \/ Delete \/ Unregister \/ Stall
    \/ \E to \in Streams \cup {TooLong} : AgentSends(to)
    \/ \E r \in Requests, to \in {Connection, TooLong} : AgentResponds(r, to)
    \/ AgentCloses \/ EndOutput \/ FailOutput
    \/ Route
    \/ \E s \in Streams : OpenStream(s) \/ TakeMessage(s) \/ ReleaseStream(s)
    \/ \E r \in Requests : Post(r) \/ PostResumes(r) \/ PostAborts(r) \/ Forward(r)
    \/ Write \/ AgentReads

Spec == Init /\ [][Next]_vars

(* A receiver that is told that its stream is finished releases it.        *)
StreamEnds(s) == hasFinishedRouting /\ queue[s] = <<>> /\ ReleaseStream(s)

(* The event loop runs the router, the continuations of POST requests and  *)
(* the timers.  Clients need not read, nor the agent write or read; when   *)
(* its connection closes, `end` finishes its output.                       *)
Fairness ==
    /\ WF_vars(Route) /\ WF_vars(Write) /\ WF_vars(Stall) /\ WF_vars(Unregister)
    /\ WF_vars(~agentOpen /\ EndOutput)
    /\ \A r \in Requests : WF_vars(PostResumes(r)) /\ WF_vars(Forward(r))
    /\ \A s \in Streams : WF_vars(StreamEnds(s))

LiveSpec == Spec /\ Fairness

-----------------------------------------------------------------------------
(* Properties.                                                             *)

Messages ==
    [number : Nat, to : Streams \cup {TooLong}, responseTo : SUBSET Requests]

(* The values the variables take. *)
TypeOK ==
    /\ isClosed \in BOOLEAN /\ hasAgentOutputEnded \in BOOLEAN
    /\ hasFinishedRouting \in BOOLEAN /\ registered \in BOOLEAN /\ agentOpen \in BOOLEAN
    /\ outbound \in Seq(Messages)
    /\ channel \in {"open", "ended", "failed"}
    /\ router \in {"reading", "waiting", "woken", "done"}
    /\ sessionStreams \subseteq Sessions
    /\ queue \in [Streams -> Seq(Nat)]
    /\ receivers \subseteq Streams
    /\ bufferedBytes \in Nat /\ bufferedSessionStreams \in Nat
    /\ post \in [Requests -> {"none", "waiting", "woken", "forward", "chained",
                              "writing", "accepted", "rejected"}]
    /\ inboundWriteChain \in Seq(Requests)
    /\ pendingRoutes \in [Requests -> Streams \cup {NoRoute}]
    /\ written \in Nat
    /\ responded \subseteq Requests
    /\ routed \in [Streams -> Seq(Nat)] /\ delivered \in [Streams -> Seq(Nat)]
    /\ answeredOn \in [Requests -> Streams \cup {NoRoute}]

(* The places of the messages that wait for a receiver.                    *)
Waiting == UNION {{s} \X DOMAIN queue[s] : s \in Streams}

(* A connection holds no more output for its client than it may: what      *)
(* waits, and the sessions that nobody receives, stay within their limits, *)
(* except for what an agent that has ended its output left behind.  One    *)
(* that has shut down holds nothing at all.  The two counters that the     *)
(* limits work with say what is there, whatever was attached, left,        *)
(* deleted or aborted.                                                     *)
OutputIsBounded ==
    /\ bufferedBytes = Cardinality(Waiting)
    /\ bufferedSessionStreams = Cardinality(sessionStreams \ receivers)
    /\ bufferedBytes <= MaxBuffered \/ hasAgentOutputEnded
    /\ bufferedSessionStreams <= MaxSessionStreams \/ hasFinishedRouting
    /\ isClosed => bufferedBytes = 0 /\ sessionStreams = {} /\ receivers = {}

(* No progress is missed: the router and POST requests wait only while     *)
(* what they wait for has not happened.                                    *)
NoMissedProgress ==
    /\ router = "waiting" => ~isClosed /\ ~hasAgentOutputEnded /\ HasOutboundBacklog
    /\ \A r \in Requests : post[r] = "waiting" =>
          ~isClosed /\ ~hasFinishedRouting /\ HasOutboundBacklog

(* What is routed to a stream reaches its receivers in the order in which  *)
(* the agent wrote it, nothing missing and nothing twice, although session *)
(* streams are deleted and created again between receivers.  A response    *)
(* is on the stream its request belongs to, however many other requests    *)
(* were held back, rejected or answered in between.                        *)
InOrderPerStream ==
    /\ \A s \in Streams :
        /\ ~isClosed => routed[s] = delivered[s] \o queue[s]
        /\ \A i, j \in 1 .. Len(routed[s]) : i < j => routed[s][i] < routed[s][j]
    /\ \A r \in Requests : answeredOn[r] \in {NoRoute, RouteOf[r]}

(* A client that does not read holds up neither its agent nor its own      *)
(* requests for good.                                                      *)
WaitingEnds ==
    /\ router = "waiting" ~> router \in {"reading", "done"}
    /\ \A r \in Requests : post[r] = "waiting" ~> post[r] \notin {"waiting", "woken", "forward"}

(* When the agent is gone, every request under way ends, every receiver is *)
(* told once it has read what is left, and the connection is forgotten.    *)
AgentGoneIsNoticed ==
    ~agentOpen ~>
        /\ ~registered
        /\ \A r \in Requests : post[r] \in {"none", "accepted", "rejected"}
        /\ \A s \in receivers : queue[s] # <<>>
=============================================================================
