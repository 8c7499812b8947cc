----------------------------- MODULE AcpServer -----------------------------
(***************************************************************************)
(* AcpServer of server.ts with the ConnectionRegistry of connection.ts:    *)
(* how connections come to be, are initialized, found and forgotten.  An   *)
(* HTTP connection is created by its initialize request, which its client  *)
(* may give up on; that of a WebSocket is prepared for an upgrade, which   *)
(* is accepted or rejected.  Meanwhile agents stop, clients leave, DELETE  *)
(* requests come and the server closes, which happens to all connections   *)
(* at once.                                                                *)
(*                                                                         *)
(* A connection is seen through its shutdown, its router and the end of    *)
(* its agent's output: HttpConnection and WsServerSession have the rest.   *)
(***************************************************************************)
EXTENDS Naturals

CONSTANTS
    Http,   \* HTTP connections, named by their initialize request
    Ws      \* WebSocket connections, named by their upgrade

ASSUME KindAssumption == Http \cap Ws = {}

All == Http \cup Ws

VARIABLES
    connections,            \* of the registry
    pendingConnections,     \* of the registry
    tracked,                \* whose `closed` has not resolved
    isClosed,               \* whose shutdown has started
    router,                 \* what the router of each does
    agent,                  \* whether the agent's connection lives
    hasAgentOutputEnded,
    initialize,             \* how far writeAndReceiveInitial is
    signalAborted,          \* the clients that gave up
    status,                 \* of the response to each initialize request
    session                 \* what became of each upgrade

registryVars == <<connections, pendingConnections, tracked>>
agentVars    == <<agent, hasAgentOutputEnded>>
requestVars  == <<signalAborted, status>>
vars == <<registryVars, isClosed, router, agentVars, initialize, requestVars, session>>

Init ==
    /\ connections = {}
    /\ pendingConnections = {}
    /\ tracked = {}
    /\ isClosed = {}
    /\ router = [c \in All |-> "unstarted"]
    /\ agent = [c \in All |-> "none"]
    /\ hasAgentOutputEnded = {}
    /\ initialize = [c \in All |-> "none"]
    /\ signalAborted = {}
    /\ status = [h \in Http |-> "none"]
    /\ session = [w \in Ws |-> "none"]

Created == {c \in All : agent[c] # "none"}
Known   == connections \cup pendingConnections

-----------------------------------------------------------------------------
(* The registry.                                                           *)

(* Whether a session's pump holds a lease: it is told of a shutdown at     *)
(* once.                                                                   *)
Pumping(w) == session[w] = "open" /\ router[w] # "unstarted"

(* shutdown() of some connections, up to its first await. *)
ShutDown(S) ==
    /\ isClosed' = isClosed \cup S
    /\ session' = [w \in Ws |-> IF w \in S /\ Pumping(w) THEN "closed" ELSE session[w]]

Forget(S) ==
    /\ connections' = connections \ S
    /\ pendingConnections' = pendingConnections \ S

(* Faulty: a connection that waits to be registered is not looked for. *)
DiscardRegistered(c) ==
    /\ Forget({c})
    /\ isClosed' = isClosed \cup ({c} \cap connections)

(* discard(), by a session that is closing or one that never was: only a   *)
(* connection that is known shuts down.                                    *)
Discard(c) ==
    /\ Forget({c})
    /\ isClosed' = isClosed \cup ({c} \cap Known)

(* A connection shuts down for a reason of its own.  A session that pumps  *)
(* closes, and discards it.                                                *)
Stop(c) ==
    /\ ShutDown({c})
    /\ IF c \in Ws /\ Pumping(c) THEN Forget({c}) ELSE UNCHANGED <<connections, pendingConnections>>

(* trackConnectionClose, which acts once: `closed` has been resolved by    *)
(* shutdown or by the end of the router.                                   *)
Unregister(c) ==
    /\ c \in tracked
    /\ c \in isClosed \/ router[c] = "done"
    /\ tracked' = tracked \ {c}
    /\ Forget({c})
    /\ UNCHANGED <<isClosed, router, agentVars, initialize, requestVars, session>>

(* handleDelete, with any id that the registry has.                        *)
Delete(c) ==
    /\ c \in connections
    /\ connections' = connections \ {c}
    /\ ShutDown({c})
    /\ UNCHANGED <<pendingConnections, tracked, router, agentVars, initialize, requestVars>>

(* Faulty: connections that wait for initialize are overlooked. *)
RegisteredOnly == connections

(* The connections that closeAll shuts down. *)
ToClose == connections \cup pendingConnections

(* AcpServer.close: every connection, then every session, which has        *)
(* nothing to discard any more.                                            *)
Close ==
    /\ connections' = {}
    /\ pendingConnections' = {}
    /\ isClosed' = isClosed \cup ToClose
    /\ session' = [w \in Ws |-> IF session[w] = "open" THEN "closed" ELSE session[w]]
    /\ UNCHANGED <<tracked, router, agentVars, initialize, requestVars>>

-----------------------------------------------------------------------------
(* Connections and their agents.                                           *)

(* The part that createConnection and createPendingConnection share. *)
Connect(c) ==
    /\ agent[c] = "none"
    /\ agent' = [agent EXCEPT ![c] = "running"]
    /\ tracked' = tracked \cup {c}
    /\ UNCHANGED <<isClosed, router, hasAgentOutputEnded>>

(* The agent reads the initialize request. *)
AgentReads(c) ==
    /\ initialize[c] = "writing"
    /\ c \notin isClosed
    /\ initialize' = [initialize EXCEPT ![c] = "reading"]
    /\ UNCHANGED <<registryVars, isClosed, router, agentVars, requestVars, session>>

(* It refuses to, or its output fails: nothing shuts down.                 *)
AgentRefuses(c) ==
    /\ initialize[c] \in {"writing", "reading"}
    /\ c \notin isClosed
    /\ initialize' = [initialize EXCEPT ![c] = "failed"]
    /\ UNCHANGED <<registryVars, isClosed, router, agentVars, requestVars, session>>

(* It answers, or writes something else first, for which the connection    *)
(* shuts down.                                                             *)
AgentAnswers(c) ==
    /\ initialize[c] = "reading"
    /\ c \notin isClosed
    /\ \/ /\ initialize' = [initialize EXCEPT ![c] = "received"]
          /\ UNCHANGED <<connections, pendingConnections, isClosed, session>>
       \/ /\ initialize' = [initialize EXCEPT ![c] = "failed"]
          /\ Stop(c)
    /\ UNCHANGED <<tracked, router, agentVars, requestVars>>

(* Faulty: the reader is not cancelled.                                    *)
WriteAborted(c) == initialize[c] = "writing" /\ c \in isClosed

(* Whether what initialize waits for will not come: shutdown aborts the    *)
(* write and cancels the reader.                                           *)
NoAnswer(c) ==
    \/ initialize[c] \in {"writing", "reading"} /\ c \in isClosed
    \/ initialize[c] = "reading" /\ c \in hasAgentOutputEnded

(* The catch and finally clauses of the write and of recvInitial. *)
InitialFails(c) ==
    /\ NoAnswer(c)
    /\ initialize' = [initialize EXCEPT ![c] = "failed"]
    /\ Stop(c)
    /\ UNCHANGED <<tracked, router, agentVars, requestVars>>

(* observeAgentConnection: without a router the connection shuts down; or  *)
(* else the output will be ended.                                          *)
AgentCloses(c) ==
    /\ agent[c] = "running"
    /\ agent' = [agent EXCEPT ![c] = "gone"]
    /\ IF router[c] = "unstarted"
       THEN Stop(c)
       ELSE UNCHANGED <<connections, pendingConnections, isClosed, session>>
    /\ UNCHANGED <<tracked, router, hasAgentOutputEnded, initialize, requestVars>>

(* The agent's stream ends, or endAgentOutbound ends it for the agent.     *)
OutputEnds(c) ==
    /\ c \in Created \ (isClosed \cup hasAgentOutputEnded)
    /\ hasAgentOutputEnded' = hasAgentOutputEnded \cup {c}
    /\ UNCHANGED <<registryVars, isClosed, router, agent, initialize, requestVars, session>>

(* runRouter returns. *)
RouterEnds(c) ==
    /\ router[c] = "running"
    /\ c \in isClosed \cup hasAgentOutputEnded
    /\ router' = [router EXCEPT ![c] = "done"]
    /\ UNCHANGED <<registryVars, isClosed, agentVars, initialize, requestVars, session>>

(* A limit is exceeded, a client takes nothing for too long, or the output *)
(* cannot be routed.                                                       *)
ConnectionFails(c) ==
    /\ router[c] = "running"
    /\ c \notin isClosed
    /\ Stop(c)
    /\ UNCHANGED <<tracked, router, agentVars, initialize, requestVars>>

-----------------------------------------------------------------------------
(* HTTP.                                                                   *)

(* Faulty: its connection waits to be registered, as that of a WebSocket.  *)
HandlePendingInitialize(h) ==
    /\ h \notin signalAborted
    /\ Connect(h)
    /\ pendingConnections' = pendingConnections \cup {h}
    /\ initialize' = [initialize EXCEPT ![h] = "writing"]
    /\ status' = [status EXCEPT ![h] = "pending"]
    /\ UNCHANGED <<connections, signalAborted, session>>

(* handleInitialize up to its await, for a client that is still there.     *)
HandleInitialize(h) ==
    /\ h \notin signalAborted
    /\ Connect(h)
    /\ connections' = connections \cup {h}
    /\ initialize' = [initialize EXCEPT ![h] = "writing"]
    /\ status' = [status EXCEPT ![h] = "pending"]
    /\ UNCHANGED <<pendingConnections, signalAborted, session>>

(* The client goes away. *)
Abort(h) ==
    /\ h \notin signalAborted
    /\ signalAborted' = signalAborted \cup {h}
    /\ UNCHANGED <<registryVars, isClosed, router, agentVars, initialize, status, session>>

(* Faulty: an answer that came first is not reconsidered.                  *)
AnswerWins(h) == initialize[h] = "received"

(* Whether the answer is still wanted when it has come.                    *)
Usable(h) == initialize[h] = "received" /\ h \notin signalAborted

(* raceAbort has settled: the router starts, or, in the catch clause, the  *)
(* connection is removed.  A client that gave up when the initialize had   *)
(* failed may be told of either.                                           *)
InitializeResumes(h) ==
    /\ status[h] = "pending"
    /\ initialize[h] \in {"received", "failed"} \/ h \in signalAborted
    /\ IF Usable(h)
       THEN /\ status' = [status EXCEPT ![h] = "200"]
            /\ initialize' = [initialize EXCEPT ![h] = "done"]
            /\ router' = [router EXCEPT ![h] = "running"]
            /\ UNCHANGED <<connections, isClosed>>
       ELSE /\ \E code \in {"499", "500"} :
                  /\ code = "499" => h \in signalAborted
                  /\ code = "500" => initialize[h] = "failed"
                  /\ status' = [status EXCEPT ![h] = code]
            /\ connections' = connections \ {h}
            /\ isClosed' = isClosed \cup ({h} \cap connections)
            /\ UNCHANGED <<initialize, router>>
    /\ UNCHANGED <<pendingConnections, tracked, agentVars, signalAborted, session>>

-----------------------------------------------------------------------------
(* WebSockets.                                                             *)

PrepareWebSocketUpgrade(w) ==
    /\ Connect(w)
    /\ pendingConnections' = pendingConnections \cup {w}
    /\ session' = [session EXCEPT ![w] = "prepared"]
    /\ UNCHANGED <<connections, initialize, requestVars>>

Accept(w) ==
    /\ session[w] = "prepared"
    /\ session' = [session EXCEPT ![w] = "open"]
    /\ UNCHANGED <<registryVars, isClosed, router, agentVars, initialize, requestVars>>

(* The upgrade is rejected, or a session closes, whatever its reason.      *)
SessionCloses(w) ==
    /\ session[w] \in {"prepared", "open"}
    /\ session' = [session EXCEPT ![w] = "closed"]
    /\ Discard(w)
    /\ UNCHANGED <<tracked, router, agentVars, initialize, requestVars>>

(* The first frame is initialize. *)
SessionInitializes(w) ==
    /\ session[w] = "open"
    /\ initialize[w] = "none"
    /\ initialize' = [initialize EXCEPT ![w] = "writing"]
    /\ UNCHANGED <<registryVars, isClosed, router, agentVars, requestVars, session>>

(* Faulty: the session is not looked at after the agent's answer.          *)
StillWanted(w) == TRUE

(* Whether the session is still there for the answer.                      *)
Wanted(w) == session[w] = "open"

(* The session registers the connection and starts its router, unless it   *)
(* has closed.  The answer may not be sent, or the pump gets no lease of a *)
(* connection that shut down: then the session closes, unless it has, and  *)
(* discards the connection.                                                *)
SessionInitialized(w, sendFails) ==
    /\ initialize[w] = "received"
    /\ w \in Ws
    /\ initialize' = [initialize EXCEPT ![w] = "done"]
    /\ IF Wanted(w)
       THEN /\ router' = [router EXCEPT ![w] = "running"]
            /\ IF session[w] = "open" /\ (sendFails \/ w \in isClosed)
               THEN /\ Forget({w})
                    /\ isClosed' = isClosed \cup {w}
                    /\ session' = [session EXCEPT ![w] = "closed"]
               ELSE /\ connections' = connections \cup {w}
                    /\ pendingConnections' = pendingConnections \ {w}
                    /\ UNCHANGED <<isClosed, session>>
       ELSE Discard(w) /\ UNCHANGED <<router, session>>
    /\ UNCHANGED <<tracked, agentVars, requestVars>>

(* Its catch clause: the connection is discarded and the session closes.   *)
SessionNotInitialized(w) ==
    /\ initialize[w] = "failed"
    /\ session[w] \in {"open", "closed"}
    /\ initialize' = [initialize EXCEPT ![w] = "done"]
    /\ session' = [session EXCEPT ![w] = "closed"]
    /\ Discard(w)
    /\ UNCHANGED <<tracked, router, agentVars, requestVars>>

(* The pump has sent all there is.                                         *)
PumpEnds(w) ==
    /\ router[w] = "done"
    /\ SessionCloses(w)

-----------------------------------------------------------------------------
(* What the event loop runs by itself. *)
Loop(c) ==
    \/ Unregister(c) \/ InitialFails(c) \/ RouterEnds(c)
    \/ c \in Http /\ InitializeResumes(c)
    \/ /\ c \in Ws
       /\ \/ \E sendFails \in BOOLEAN : SessionInitialized(c, sendFails)
          \/ SessionNotInitialized(c) \/ PumpEnds(c)

Next ==
    \/ Close
    \/ \E c \in All :
          \/ Loop(c)
          \/ Delete(c) \/ AgentReads(c) \/ AgentRefuses(c) \/ AgentAnswers(c)
          \/ AgentCloses(c) \/ OutputEnds(c) \/ ConnectionFails(c)
    \/ \E h \in Http : HandleInitialize(h) \/ Abort(h)
    \/ \E w \in Ws :
          PrepareWebSocketUpgrade(w) \/ Accept(w) \/ SessionCloses(w) \/ SessionInitializes(w)

Spec == Init /\ [][Next]_vars

(* The event loop runs on, and the end of an agent's connection ends its   *)
(* output.  Agents, clients and those who settle upgrades may stop.        *)
LiveSpec ==
    /\ Spec
    /\ \A c \in All : WF_vars(Loop(c)) /\ WF_vars(agent[c] = "gone" /\ OutputEnds(c))

-----------------------------------------------------------------------------
(* Properties.                                                             *)

(* The values the variables take. *)
TypeOK ==
    /\ connections \subseteq All /\ pendingConnections \subseteq Ws
    /\ tracked \subseteq All /\ isClosed \subseteq All
    /\ router \in [All -> {"unstarted", "running", "done"}]
    /\ agent \in [All -> {"none", "running", "gone"}]
    /\ hasAgentOutputEnded \subseteq All
    /\ initialize \in [All -> {"none", "writing", "reading", "received", "failed", "done"}]
    /\ signalAborted \subseteq Http
    /\ status \in [Http -> {"none", "pending", "200", "499", "500"}]
    /\ session \in [Ws -> {"none", "prepared", "open", "closed"}]

(* close() reaches every connection there is: one that neither shuts down  *)
(* nor is at its end is known to the registry, in one place, whatever part *)
(* of its initialize has been interrupted; and it belongs to a client: a   *)
(* request that is not over or succeeded, or a session that is open.       *)
LiveConnectionsAreHeld ==
    /\ connections \cap pendingConnections = {}
    /\ \A c \in Created \ isClosed :
          router[c] # "done" =>
              /\ c \in Known
              /\ c \in Http => status[c] \in {"pending", "200"}
              /\ c \in Ws => session[c] \in {"prepared", "open"}

(* An initialize request is not left waiting when its agent or its         *)
(* connection is gone; and when its client gives up on it first, the       *)
(* connection, whose id nobody will ever know, goes away as well.          *)
InitializeIsAnswered ==
    \A h \in Http :
        /\ (status[h] = "pending" /\ (agent[h] = "gone" \/ h \in isClosed))
               ~> status[h] # "pending"
        /\ (status[h] = "pending" /\ h \in signalAborted)
               ~> (status[h] # "pending" /\ h \in isClosed)

Over(c) ==
    \/ c \in isClosed
    \/ agent[c] = "gone"
    \/ c \in Ws /\ session[c] = "closed"

(* The end of a connection, its agent or its session is for good: the      *)
(* registry forgets the connection and never learns of it again, also from *)
(* an initialize that was under way.                                       *)
TheEndIsFinal ==
    \A c \in All : Over(c) ~> [](c \notin Known)
=============================================================================
