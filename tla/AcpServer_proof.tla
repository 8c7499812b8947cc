--------------------------- MODULE AcpServer_proof ---------------------------
(***************************************************************************)
(* Proofs of the safety properties of AcpServer, for any number of         *)
(* connections of either kind.                                             *)
(***************************************************************************)
EXTENDS AcpServer, TLAPS

(* What a connection, its request or its session goes through comes after  *)
(* it was created; and its router starts when initialize is done with.     *)
Begun ==
    /\ \A c \in All : agent[c] = "none" => c \notin Known /\ router[c] = "unstarted"
    /\ \A w \in Ws : session[w] # "none" => agent[w] # "none"
    /\ \A h \in Http : status[h] # "none" => agent[h] # "none"
    /\ \A c \in All : initialize[c] # "done" => router[c] = "unstarted"

IInv == TypeOK /\ Begun /\ LiveConnectionsAreHeld

-----------------------------------------------------------------------------
LEMMA InitIInv == Init => IInv
BY KindAssumption DEF Init, IInv, TypeOK, Begun, LiveConnectionsAreHeld, Known, Created, All

(* A connection that shuts down adds nothing, and takes nothing from the   *)
(* others.                                                                 *)
LEMMA StopAddsNothing ==
    ASSUME IInv, NEW c \in All, Stop(c)
    PROVE  /\ Known' \subseteq Known
           /\ \A w \in Ws : session'[w] # "none" => session[w] # "none"
<1>1. Known' \subseteq Known
  BY DEF Stop, Forget, Known
<1>2. session' = [w \in Ws |-> IF w \in {c} /\ Pumping(w) THEN "closed" ELSE session[w]]
  BY DEF Stop, ShutDown
<1>3. ASSUME NEW w \in Ws, session'[w] # "none" PROVE session[w] # "none"
  BY <1>2, <1>3 DEF Pumping
<1> QED BY <1>1, <1>3

LEMMA StopKeepsOthers ==
    ASSUME IInv, NEW c \in All, Stop(c), router' = router, status' = status,
           Created' = Created
    PROVE  LiveConnectionsAreHeld'
<1>1. /\ isClosed' = isClosed \cup {c}
      /\ \A w \in Ws : w # c => session'[w] = session[w]
  BY DEF Stop, ShutDown
<1>2. /\ connections' \subseteq connections /\ pendingConnections' \subseteq pendingConnections
      /\ Known \ {c} \subseteq Known'
  BY DEF Stop, Forget, Known
<1>3. connections' \cap pendingConnections' = {}
  BY <1>2 DEF IInv, LiveConnectionsAreHeld
<1>4. ASSUME NEW d \in Created' \ isClosed', router'[d] # "done"
      PROVE  /\ d \in Known'
             /\ d \in Http => status'[d] \in {"pending", "200"}
             /\ d \in Ws => session'[d] \in {"prepared", "open"}
  BY <1>1, <1>2, <1>4 DEF IInv, LiveConnectionsAreHeld
<1> QED BY <1>3, <1>4 DEF LiveConnectionsAreHeld

(* What connections and their agents do by themselves keeps the invariant. *)
LEMMA ConnectionsKeepIInv ==
    ASSUME IInv, NEW c \in All,
           \/ Unregister(c)
           \/ Delete(c)
           \/ AgentReads(c)
           \/ AgentRefuses(c)
           \/ AgentAnswers(c)
           \/ InitialFails(c)
           \/ AgentCloses(c)
           \/ OutputEnds(c)
           \/ RouterEnds(c)
           \/ ConnectionFails(c)
    PROVE  IInv'
<1> USE KindAssumption DEF IInv, TypeOK, Known, Created, All, registryVars, agentVars, requestVars
<1>1. CASE Unregister(c)
  <2>1. TypeOK'
    BY <1>1 DEF Unregister, Forget
  <2>2. Begun'
    BY <1>1 DEF Unregister, Forget, Begun
  <2>3. LiveConnectionsAreHeld'
    BY <1>1 DEF Unregister, Forget, Begun, LiveConnectionsAreHeld
  <2> QED BY <2>1, <2>2, <2>3
<1>2. CASE Delete(c)
  <2>1. TypeOK'
    BY <1>2 DEF Delete, ShutDown
  <2>2. Begun'
    BY <1>2 DEF Delete, ShutDown, Begun
  <2>3. LiveConnectionsAreHeld'
    BY <1>2 DEF Delete, ShutDown, Begun, LiveConnectionsAreHeld
  <2> QED BY <2>1, <2>2, <2>3
<1>3. CASE AgentReads(c)
  <2>1. TypeOK'
    BY <1>3 DEF AgentReads
  <2>2. Begun'
    BY <1>3 DEF AgentReads, Begun
  <2>3. LiveConnectionsAreHeld'
    BY <1>3 DEF AgentReads, Begun, LiveConnectionsAreHeld
  <2> QED BY <2>1, <2>2, <2>3
<1>4. CASE AgentRefuses(c)
  <2>1. TypeOK'
    BY <1>4 DEF AgentRefuses
  <2>2. Begun'
    BY <1>4 DEF AgentRefuses, Begun
  <2>3. LiveConnectionsAreHeld'
    BY <1>4 DEF AgentRefuses, Begun, LiveConnectionsAreHeld
  <2> QED BY <2>1, <2>2, <2>3
<1>5. CASE AgentAnswers(c)
  <2>1. TypeOK'
    BY <1>5 DEF AgentAnswers, Stop, ShutDown, Forget
  <2>2. Begun'
    BY <1>5, StopAddsNothing DEF AgentAnswers, Begun
  <2>3. LiveConnectionsAreHeld'
    <3>1. CASE Stop(c)
      BY <1>5, <3>1, StopKeepsOthers DEF AgentAnswers
    <3>2. CASE UNCHANGED <<connections, pendingConnections, isClosed, session>>
      BY <1>5, <3>2 DEF AgentAnswers, LiveConnectionsAreHeld
    <3> QED BY <1>5, <3>1, <3>2 DEF AgentAnswers
  <2> QED BY <2>1, <2>2, <2>3
<1>6. CASE InitialFails(c)
  <2>1. TypeOK'
    BY <1>6 DEF InitialFails, Stop, ShutDown, Forget
  <2>2. Begun'
    BY <1>6, StopAddsNothing DEF InitialFails, NoAnswer, Begun
  <2>3. LiveConnectionsAreHeld'
    BY <1>6, StopKeepsOthers DEF InitialFails
  <2> QED BY <2>1, <2>2, <2>3
<1>7. CASE AgentCloses(c)
  <2>1. TypeOK'
    BY <1>7 DEF AgentCloses, Stop, ShutDown, Forget
  <2>2. Begun'
    BY <1>7, StopAddsNothing DEF AgentCloses, Begun
  <2>3. LiveConnectionsAreHeld'
    BY <1>7 DEF AgentCloses, Stop, ShutDown, Forget, Begun, LiveConnectionsAreHeld
  <2> QED BY <2>1, <2>2, <2>3
<1>8. CASE OutputEnds(c)
  <2>1. TypeOK'
    BY <1>8 DEF OutputEnds
  <2>2. Begun'
    BY <1>8 DEF OutputEnds, Begun
  <2>3. LiveConnectionsAreHeld'
    BY <1>8 DEF OutputEnds, Begun, LiveConnectionsAreHeld
  <2> QED BY <2>1, <2>2, <2>3
<1>9. CASE RouterEnds(c)
  <2>1. TypeOK'
    BY <1>9 DEF RouterEnds
  <2>2. Begun'
    BY <1>9 DEF RouterEnds, Begun
  <2>3. LiveConnectionsAreHeld'
    BY <1>9 DEF RouterEnds, Begun, LiveConnectionsAreHeld
  <2> QED BY <2>1, <2>2, <2>3
<1>10. CASE ConnectionFails(c)
  <2>1. TypeOK'
    BY <1>10 DEF ConnectionFails, Stop, ShutDown, Forget
  <2>2. Begun'
    BY <1>10, StopAddsNothing DEF ConnectionFails, Begun
  <2>3. LiveConnectionsAreHeld'
    BY <1>10, StopKeepsOthers DEF ConnectionFails
  <2> QED BY <2>1, <2>2, <2>3
<1> QED BY <1>1, <1>2, <1>3, <1>4, <1>5, <1>6, <1>7, <1>8, <1>9, <1>10

(* So do initialize requests and their clients.                            *)
LEMMA RequestsKeepIInv ==
    ASSUME IInv, NEW h \in Http,
           \/ HandleInitialize(h)
           \/ Abort(h)
           \/ InitializeResumes(h)
    PROVE  IInv'
<1> USE KindAssumption DEF IInv, TypeOK, Known, Created, All, registryVars, agentVars, requestVars
<1>1. CASE HandleInitialize(h)
  <2>1. TypeOK'
    BY <1>1 DEF HandleInitialize, Connect
  <2>2. Begun'
    BY <1>1 DEF HandleInitialize, Connect, Begun
  <2>3. LiveConnectionsAreHeld'
    BY <1>1 DEF HandleInitialize, Connect, Begun, LiveConnectionsAreHeld
  <2> QED BY <2>1, <2>2, <2>3
<1>2. CASE Abort(h)
  <2>1. TypeOK'
    BY <1>2 DEF Abort
  <2>2. Begun'
    BY <1>2 DEF Abort, Begun
  <2>3. LiveConnectionsAreHeld'
    BY <1>2 DEF Abort, Begun, LiveConnectionsAreHeld
  <2> QED BY <2>1, <2>2, <2>3
<1>3. CASE InitializeResumes(h)
  <2>1. TypeOK'
    BY <1>3 DEF InitializeResumes
  <2>2. Begun'
    BY <1>3 DEF InitializeResumes, Begun
  <2>3. LiveConnectionsAreHeld'
    <3>1. CASE Usable(h)
      <4>1. /\ status' = [status EXCEPT ![h] = "200"]
            /\ router' = [router EXCEPT ![h] = "running"]
            /\ UNCHANGED <<connections, pendingConnections, isClosed, agent, session>>
        BY <1>3, <3>1 DEF InitializeResumes
      <4>2. router[h] = "unstarted"
        BY <1>3, <3>1 DEF Usable, Begun
      <4>3. UNCHANGED <<Created, Known>>
        BY <4>1
      <4>4. ASSUME NEW d \in Created \ isClosed, router'[d] # "done"
            PROVE  /\ d \in Known
                   /\ d \in Http => status'[d] \in {"pending", "200"}
                   /\ d \in Ws => session[d] \in {"prepared", "open"}
        BY <4>1, <4>2, <4>4 DEF LiveConnectionsAreHeld
      <4> QED BY <4>1, <4>3, <4>4 DEF LiveConnectionsAreHeld
    <3>2. CASE ~Usable(h)
      <4>1. /\ connections' = connections \ {h}
            /\ isClosed' = isClosed \cup ({h} \cap connections)
            /\ \A g \in Http : g # h => status'[g] = status[g]
            /\ UNCHANGED <<pendingConnections, router, agent, session>>
        <5>1. \E code \in {"499", "500"} : status' = [status EXCEPT ![h] = code]
          BY <1>3, <3>2 DEF InitializeResumes
        <5> QED BY <1>3, <3>2, <5>1 DEF InitializeResumes
      <4>2. h \in isClosed' \/ router[h] = "done" \/ h \notin Created
        BY <4>1 DEF LiveConnectionsAreHeld
      <4> QED BY <4>1, <4>2 DEF LiveConnectionsAreHeld
    <3> QED BY <3>1, <3>2
  <2> QED BY <2>1, <2>2, <2>3
<1> QED BY <1>1, <1>2, <1>3

(* So do upgrades and sessions.                                            *)
LEMMA SessionsKeepIInv ==
    ASSUME IInv, NEW w \in Ws,
           \/ PrepareWebSocketUpgrade(w)
           \/ Accept(w)
           \/ SessionCloses(w)
           \/ SessionInitializes(w)
           \/ SessionNotInitialized(w)
           \/ PumpEnds(w)
           \/ (\E sendFails \in BOOLEAN : SessionInitialized(w, sendFails))
    PROVE  IInv'
<1> USE KindAssumption DEF IInv, TypeOK, Known, Created, All, registryVars, agentVars, requestVars
<1>1. CASE PrepareWebSocketUpgrade(w)
  <2>1. TypeOK'
    BY <1>1 DEF PrepareWebSocketUpgrade, Connect
  <2>2. Begun'
    BY <1>1 DEF PrepareWebSocketUpgrade, Connect, Begun
  <2>3. LiveConnectionsAreHeld'
    BY <1>1 DEF PrepareWebSocketUpgrade, Connect, Begun, LiveConnectionsAreHeld
  <2> QED BY <2>1, <2>2, <2>3
<1>2. CASE Accept(w)
  <2>1. TypeOK'
    BY <1>2 DEF Accept
  <2>2. Begun'
    BY <1>2 DEF Accept, Begun
  <2>3. LiveConnectionsAreHeld'
    BY <1>2 DEF Accept, Begun, LiveConnectionsAreHeld
  <2> QED BY <2>1, <2>2, <2>3
<1>3. CASE SessionCloses(w)
  <2>1. TypeOK'
    BY <1>3 DEF SessionCloses, Discard, Forget
  <2>2. Begun'
    BY <1>3 DEF SessionCloses, Discard, Forget, Begun
  <2>3. LiveConnectionsAreHeld'
    BY <1>3 DEF SessionCloses, Discard, Forget, Begun, LiveConnectionsAreHeld
  <2> QED BY <2>1, <2>2, <2>3
<1>4. CASE SessionInitializes(w)
  <2>1. TypeOK'
    BY <1>4 DEF SessionInitializes
  <2>2. Begun'
    BY <1>4 DEF SessionInitializes, Begun
  <2>3. LiveConnectionsAreHeld'
    BY <1>4 DEF SessionInitializes, Begun, LiveConnectionsAreHeld
  <2> QED BY <2>1, <2>2, <2>3
<1>5. CASE SessionNotInitialized(w)
  <2>1. TypeOK'
    BY <1>5 DEF SessionNotInitialized, Discard, Forget
  <2>2. Begun'
    BY <1>5 DEF SessionNotInitialized, Discard, Forget, Begun
  <2>3. LiveConnectionsAreHeld'
    BY <1>5 DEF SessionNotInitialized, Discard, Forget, Begun, LiveConnectionsAreHeld
  <2> QED BY <2>1, <2>2, <2>3
<1>6. CASE PumpEnds(w)
  <2>1. TypeOK'
    BY <1>6 DEF PumpEnds, SessionCloses, Discard, Forget
  <2>2. Begun'
    BY <1>6 DEF PumpEnds, SessionCloses, Discard, Forget, Begun
  <2>3. LiveConnectionsAreHeld'
    BY <1>6 DEF PumpEnds, SessionCloses, Discard, Forget, Begun, LiveConnectionsAreHeld
  <2> QED BY <2>1, <2>2, <2>3
<1>7. CASE (\E sendFails \in BOOLEAN : SessionInitialized(w, sendFails))
  <2>1. TypeOK'
    BY <1>7 DEF SessionInitialized, Wanted, Discard, Forget
  <2>2. Begun'
    BY <1>7 DEF SessionInitialized, Wanted, Discard, Forget, Begun
  <2>3. LiveConnectionsAreHeld'
    BY <1>7 DEF SessionInitialized, Wanted, Discard, Forget, Begun, LiveConnectionsAreHeld
  <2> QED BY <2>1, <2>2, <2>3
<1> QED BY <1>1, <1>2, <1>3, <1>4, <1>5, <1>6, <1>7

(* So does the server when it closes. *)
LEMMA CloseKeepsIInv ==
    ASSUME IInv, Close
    PROVE  IInv'
<1> USE KindAssumption DEF Close, ToClose, IInv, TypeOK, Known, Created, All, registryVars,
                           agentVars, requestVars
<1>1. TypeOK'
  OBVIOUS
<1>2. Begun'
  BY DEF Begun
<1>3. LiveConnectionsAreHeld'
  BY DEF Begun, LiveConnectionsAreHeld
<1> QED BY <1>1, <1>2, <1>3

(* IInv holds in every reachable state: each action keeps it. *)
THEOREM Invariance == Spec => []IInv
<1>1. Init => IInv
  BY InitIInv
<1>2. IInv /\ Next => IInv'
  <2> SUFFICES ASSUME IInv, Next PROVE IInv'
    OBVIOUS
  <2>1. CASE Close
    BY <2>1, CloseKeepsIInv
  <2>2. ASSUME NEW c \in All,
               \/ Loop(c)
               \/ Delete(c) \/ AgentReads(c) \/ AgentRefuses(c) \/ AgentAnswers(c)
               \/ AgentCloses(c) \/ OutputEnds(c) \/ ConnectionFails(c)
        PROVE  IInv'
    BY <2>2, ConnectionsKeepIInv, RequestsKeepIInv, SessionsKeepIInv DEF Loop
  <2>3. ASSUME NEW h \in Http, HandleInitialize(h) \/ Abort(h)
        PROVE  IInv'
    BY <2>3, RequestsKeepIInv
  <2>4. ASSUME NEW w \in Ws,
               \/ PrepareWebSocketUpgrade(w) \/ Accept(w) \/ SessionCloses(w)
               \/ SessionInitializes(w)
        PROVE  IInv'
    BY <2>4, SessionsKeepIInv
  <2> QED BY <2>1, <2>2, <2>3, <2>4 DEF Next
<1>3. IInv /\ UNCHANGED vars => IInv'
  BY DEF vars, registryVars, agentVars, requestVars, IInv, TypeOK, Begun,
         LiveConnectionsAreHeld, Known, Created
<1> QED BY <1>1, <1>2, <1>3, PTL DEF Spec

(* The registry and the server keep their types. *)
THEOREM TypeCorrect == Spec => []TypeOK
<1>1. IInv => TypeOK
  BY DEF IInv
<1> QED BY <1>1, Invariance, PTL

(* However many connections there are, close() reaches all that live, and  *)
(* none lives for a request that failed or a session that closed.          *)
THEOREM NoConnectionLeaks == Spec => []LiveConnectionsAreHeld
<1>1. IInv => LiveConnectionsAreHeld
  BY DEF IInv
<1> QED BY <1>1, Invariance, PTL

-----------------------------------------------------------------------------
(* What the registry knows it watches, so that the end of a connection     *)
(* does reach it; and it does not know the connection of a session that    *)
(* has closed.                                                             *)
Watched ==
    /\ Known \subseteq tracked
    /\ \A w \in Ws : session[w] = "closed" => w \notin Known

(* A connection that was created and that the registry does not know, or   *)
(* not any more, stays unknown to it.                                      *)
StaysUnknown == \A c \in Created \ Known : c \in Created' \ Known'

LEMMA InitWatched == Init => Watched
BY DEF Init, Watched, Known

(* A session that pumps closes with its connection, which is forgotten.    *)
LEMMA StopKeepsWatched ==
    ASSUME IInv, Watched, NEW c \in All, Stop(c), tracked' = tracked,
           \A d \in All : agent[d] # "none" => agent'[d] # "none"
    PROVE  Watched' /\ StaysUnknown
<1>1. connections' \subseteq connections /\ pendingConnections' \subseteq pendingConnections
  BY DEF Stop, Forget
<1>2. \A w \in Ws : session'[w] = "closed" => session[w] = "closed" \/ (w = c /\ Pumping(w))
  BY DEF Stop, ShutDown
<1>3. ASSUME c \in Ws, Pumping(c) PROVE c \notin Known'
  BY <1>3 DEF Stop, Forget, Known
<1>4. Watched'
  BY <1>1, <1>2, <1>3 DEF Watched, Known
<1>5. StaysUnknown
  BY <1>1 DEF StaysUnknown, Known, Created
<1> QED BY <1>4, <1>5

LEMMA ConnectionsKeepWatched ==
    ASSUME IInv, Watched, NEW c \in All,
           \/ Unregister(c)
           \/ Delete(c)
           \/ AgentReads(c)
           \/ AgentRefuses(c)
           \/ AgentAnswers(c)
           \/ InitialFails(c)
           \/ AgentCloses(c)
           \/ OutputEnds(c)
           \/ RouterEnds(c)
           \/ ConnectionFails(c)
    PROVE  Watched' /\ StaysUnknown
<1> USE KindAssumption DEF Watched, StaysUnknown, Known, Created, All, registryVars, agentVars,
                           requestVars
<1>1. CASE Unregister(c)
  BY <1>1 DEF Unregister, Forget
<1>2. CASE Delete(c)
  BY <1>2 DEF IInv, LiveConnectionsAreHeld, Delete, ShutDown, Pumping
<1>3. CASE AgentReads(c)
  BY <1>3 DEF AgentReads
<1>4. CASE AgentRefuses(c)
  BY <1>4 DEF AgentRefuses
<1>5. CASE AgentAnswers(c)
  <2>1. \/ Stop(c)
        \/ UNCHANGED <<connections, pendingConnections, session>>
    BY <1>5 DEF AgentAnswers
  <2>2. tracked' = tracked /\ \A e \in All : agent[e] # "none" => agent'[e] # "none"
    BY <1>5 DEF IInv, TypeOK, AgentAnswers
  <2> QED BY <2>1, <2>2, StopKeepsWatched
<1>6. CASE InitialFails(c)
  <2>1. \/ Stop(c)
        \/ UNCHANGED <<connections, pendingConnections, session>>
    BY <1>6 DEF InitialFails
  <2>2. tracked' = tracked /\ \A e \in All : agent[e] # "none" => agent'[e] # "none"
    BY <1>6 DEF IInv, TypeOK, InitialFails
  <2> QED BY <2>1, <2>2, StopKeepsWatched
<1>7. CASE AgentCloses(c)
  <2>1. \/ Stop(c)
        \/ UNCHANGED <<connections, pendingConnections, session>>
    BY <1>7 DEF AgentCloses
  <2>2. tracked' = tracked /\ \A e \in All : agent[e] # "none" => agent'[e] # "none"
    BY <1>7 DEF IInv, TypeOK, AgentCloses
  <2> QED BY <2>1, <2>2, StopKeepsWatched
<1>8. CASE OutputEnds(c)
  BY <1>8 DEF OutputEnds
<1>9. CASE RouterEnds(c)
  BY <1>9 DEF RouterEnds
<1>10. CASE ConnectionFails(c)
  <2>1. \/ Stop(c)
        \/ UNCHANGED <<connections, pendingConnections, session>>
    BY <1>10 DEF ConnectionFails
  <2>2. tracked' = tracked /\ \A e \in All : agent[e] # "none" => agent'[e] # "none"
    BY <1>10 DEF IInv, TypeOK, ConnectionFails
  <2> QED BY <2>1, <2>2, StopKeepsWatched
<1> QED BY <1>1, <1>2, <1>3, <1>4, <1>5, <1>6, <1>7, <1>8, <1>9, <1>10

LEMMA RequestsKeepWatched ==
    ASSUME IInv, Watched, NEW h \in Http,
           \/ HandleInitialize(h)
           \/ Abort(h)
           \/ InitializeResumes(h)
    PROVE  Watched' /\ StaysUnknown
<1> USE KindAssumption DEF Watched, StaysUnknown, Known, Created, All, registryVars, agentVars,
                           requestVars
<1>1. CASE HandleInitialize(h)
  BY <1>1 DEF IInv, TypeOK, HandleInitialize, Connect
<1>2. CASE Abort(h)
  BY <1>2 DEF Abort
<1>3. CASE InitializeResumes(h)
  <2>1. /\ connections' \subseteq connections
        /\ UNCHANGED <<pendingConnections, tracked, agent, session>>
    BY <1>3 DEF InitializeResumes
  <2> QED BY <2>1
<1> QED BY <1>1, <1>2, <1>3

(* The answer to initialize registers only what waits for it: a session    *)
(* that is open belongs to a connection that has not been forgotten, or    *)
(* shuts down.                                                             *)
LEMMA SessionsKeepWatched ==
    ASSUME IInv, Watched, NEW w \in Ws,
           \/ PrepareWebSocketUpgrade(w)
           \/ Accept(w)
           \/ SessionCloses(w)
           \/ SessionInitializes(w)
           \/ SessionNotInitialized(w)
           \/ PumpEnds(w)
           \/ (\E sendFails \in BOOLEAN : SessionInitialized(w, sendFails))
    PROVE  Watched' /\ StaysUnknown
<1> USE KindAssumption DEF Watched, StaysUnknown, Known, Created, All, registryVars, agentVars,
                           requestVars
<1>1. CASE PrepareWebSocketUpgrade(w)
  BY <1>1 DEF IInv, TypeOK, PrepareWebSocketUpgrade, Connect
<1>2. CASE Accept(w)
  BY <1>2 DEF IInv, TypeOK, Accept
<1>3. CASE SessionCloses(w) \/ PumpEnds(w)
  BY <1>3 DEF IInv, TypeOK, PumpEnds, SessionCloses, Discard, Forget
<1>4. CASE SessionInitializes(w)
  BY <1>4 DEF SessionInitializes
<1>5. CASE SessionNotInitialized(w)
  BY <1>5 DEF IInv, TypeOK, SessionNotInitialized, Discard, Forget
<1>6. CASE (\E sendFails \in BOOLEAN : SessionInitialized(w, sendFails))
  <2>1. PICK sendFails \in BOOLEAN : SessionInitialized(w, sendFails)
    BY <1>6
  <2>2. initialize[w] = "received" /\ UNCHANGED <<tracked, agent>>
    BY <2>1 DEF SessionInitialized
  <2>3. CASE session[w] = "open" /\ (sendFails \/ w \in isClosed)
    BY <2>1, <2>2, <2>3 DEF IInv, TypeOK, SessionInitialized, Wanted, Forget
  <2>4. CASE session[w] = "open" /\ w \notin isClosed /\ ~sendFails
    <3>1. w \in Known
      <4>1. agent[w] # "none" /\ router[w] # "done"
        BY <2>2, <2>4 DEF IInv, Begun
      <4> QED BY <2>4, <4>1 DEF IInv, LiveConnectionsAreHeld
    <3>2. /\ connections' = connections \cup {w}
          /\ pendingConnections' = pendingConnections \ {w}
          /\ session' = session
      BY <2>1, <2>4 DEF SessionInitialized, Wanted
    <3> QED BY <2>2, <3>1, <3>2
  <2>5. CASE session[w] # "open"
    BY <2>1, <2>2, <2>5 DEF SessionInitialized, Wanted, Discard, Forget
  <2> QED BY <2>3, <2>4, <2>5
<1> QED BY <1>1, <1>2, <1>3, <1>4, <1>5, <1>6

LEMMA NextKeepsWatched == IInv /\ Watched /\ [Next]_vars => Watched' /\ StaysUnknown
<1> SUFFICES ASSUME IInv, Watched, [Next]_vars PROVE Watched' /\ StaysUnknown
  OBVIOUS
<1>1. CASE Close
  <2>1. Known' = {} /\ tracked' = tracked /\ agent' = agent
    BY <1>1 DEF Close, Known, agentVars
  <2> QED BY <2>1 DEF Watched, StaysUnknown, Created
<1>2. ASSUME NEW c \in All,
             \/ Loop(c)
             \/ Delete(c) \/ AgentReads(c) \/ AgentRefuses(c) \/ AgentAnswers(c)
             \/ AgentCloses(c) \/ OutputEnds(c) \/ ConnectionFails(c)
      PROVE  Watched' /\ StaysUnknown
  BY <1>2, ConnectionsKeepWatched, RequestsKeepWatched, SessionsKeepWatched DEF Loop
<1>3. ASSUME NEW h \in Http, HandleInitialize(h) \/ Abort(h)
      PROVE  Watched' /\ StaysUnknown
  BY <1>3, RequestsKeepWatched
<1>4. ASSUME NEW w \in Ws,
             \/ PrepareWebSocketUpgrade(w) \/ Accept(w) \/ SessionCloses(w)
             \/ SessionInitializes(w)
      PROVE  Watched' /\ StaysUnknown
  BY <1>4, SessionsKeepWatched
<1>5. CASE UNCHANGED vars
  BY <1>5 DEF vars, registryVars, agentVars, requestVars, Watched, StaysUnknown, Known, Created
<1> QED BY <1>1, <1>2, <1>3, <1>4, <1>5 DEF Next

(* Whatever the registry knows it watches until it ends, and the end of a  *)
(* session has it forgotten at once.                                       *)
THEOREM WhatIsKnownIsWatched == Spec => []Watched
<1>1. IInv /\ Watched /\ [Next]_vars => Watched'
  BY NextKeepsWatched
<1> QED BY <1>1, InitWatched, Invariance, PTL DEF Spec

(* A connection that the registry has forgotten, for whatever reason, it   *)
(* never learns of again, also from an initialize that was under way: the  *)
(* safety part of TheEndIsFinal, for any number of connections.            *)
THEOREM ForgottenForGood ==
    Spec => \A c \in All : [](c \in Created \ Known => [](c \notin Known))
<1> SUFFICES ASSUME NEW c \in All
             PROVE  Spec => [](c \in Created \ Known => [](c \notin Known))
  OBVIOUS
<1> DEFINE Forgotten == c \in Created \ Known
<1>1. IInv /\ Watched /\ [Next]_vars => (Forgotten => Forgotten')
  BY NextKeepsWatched DEF StaysUnknown
<1>2. Forgotten => c \notin Known
  OBVIOUS
<1> HIDE DEF Forgotten
<1>3. Spec => [](Forgotten => [](c \notin Known))
  BY <1>1, <1>2, Invariance, WhatIsKnownIsWatched, PTL DEF Spec
<1> QED BY <1>3 DEF Forgotten

(* So the end of a session is for good at once. *)
THEOREM SessionsEndForGood ==
    Spec => \A w \in Ws : [](session[w] = "closed" => [](w \notin Known))
<1> SUFFICES ASSUME NEW w \in Ws
             PROVE  Spec => [](session[w] = "closed" => [](w \notin Known))
  OBVIOUS
<1>1. w \in All
  BY DEF All
<1> DEFINE Forgotten == w \in Created \ Known
           Unknown == w \notin Known
<1>2. IInv /\ Watched /\ session[w] = "closed" => Forgotten
  BY <1>1 DEF IInv, Begun, Watched, Created
<1>3. IInv /\ Watched /\ [Next]_vars => (Forgotten => Forgotten')
  BY <1>1, NextKeepsWatched DEF StaysUnknown
<1>4. Forgotten => Unknown
  OBVIOUS
<1> HIDE DEF Forgotten, Unknown
<1>5. Spec => [](session[w] = "closed" => []Unknown)
  BY <1>2, <1>3, <1>4, Invariance, WhatIsKnownIsWatched, PTL DEF Spec
<1> QED BY <1>5 DEF Unknown

-----------------------------------------------------------------------------
(* Nobody is left waiting: the safety parts of InitializeIsAnswered and    *)
(* TheEndIsFinal.                                                          *)

(* A request that is not answered has an initialize that can still end,    *)
(* and the connection of an agent that is gone has a router which will     *)
(* end, or it has shut down.                                               *)
CanEnd ==
    /\ \A h \in Http : status[h] = "pending" =>
          initialize[h] \in {"writing", "reading", "received", "failed"}
    /\ \A c \in All : agent[c] = "gone" => router[c] # "unstarted" \/ c \in isClosed

LEMMA ConnectionsGoOn ==
    ASSUME IInv, CanEnd, NEW c \in All,
           \/ Unregister(c)
           \/ Delete(c)
           \/ AgentReads(c)
           \/ AgentRefuses(c)
           \/ AgentAnswers(c)
           \/ InitialFails(c)
           \/ AgentCloses(c)
           \/ OutputEnds(c)
           \/ RouterEnds(c)
           \/ ConnectionFails(c)
    PROVE  CanEnd'
<1> USE DEF IInv, TypeOK, registryVars, agentVars, requestVars, Stop, ShutDown
<1>1. CASE Unregister(c) \/ Delete(c) \/ OutputEnds(c) \/ ConnectionFails(c)
  <2>1. UNCHANGED <<agent, initialize, status, router>> /\ isClosed \subseteq isClosed'
    BY <1>1 DEF Unregister, Delete, OutputEnds, ConnectionFails
  <2> QED BY <2>1 DEF CanEnd
<1>2. CASE AgentReads(c) \/ AgentRefuses(c) \/ AgentAnswers(c) \/ InitialFails(c)
  <2>1. /\ UNCHANGED <<agent, status, router>> /\ isClosed \subseteq isClosed'
        /\ \E how \in {"reading", "failed", "received"} :
              initialize' = [initialize EXCEPT ![c] = how]
    BY <1>2 DEF AgentReads, AgentRefuses, AgentAnswers, InitialFails
  <2> QED BY <2>1 DEF CanEnd, All
<1>3. CASE AgentCloses(c)
  <2>1. /\ UNCHANGED <<initialize, status, router>> /\ isClosed \subseteq isClosed'
        /\ agent' = [agent EXCEPT ![c] = "gone"]
        /\ router[c] = "unstarted" => c \in isClosed'
    BY <1>3 DEF AgentCloses
  <2> QED BY <2>1 DEF CanEnd
<1>4. CASE RouterEnds(c)
  BY <1>4 DEF RouterEnds, CanEnd
<1> QED BY <1>1, <1>2, <1>3, <1>4

LEMMA RequestsGoOn ==
    ASSUME IInv, CanEnd, NEW h \in Http, HandleInitialize(h) \/ Abort(h) \/ InitializeResumes(h)
    PROVE  CanEnd'
<1> USE DEF IInv, TypeOK, registryVars, agentVars, requestVars, All
<1>1. CASE HandleInitialize(h)
  <2>1. /\ UNCHANGED <<isClosed, router>>
        /\ agent' = [agent EXCEPT ![h] = "running"]
        /\ initialize' = [initialize EXCEPT ![h] = "writing"]
        /\ status' = [status EXCEPT ![h] = "pending"]
    BY <1>1 DEF HandleInitialize, Connect
  <2> QED BY <2>1 DEF CanEnd
<1>2. CASE Abort(h)
  BY <1>2 DEF Abort, CanEnd
<1>3. CASE InitializeResumes(h)
  <2>1. /\ agent' = agent /\ isClosed \subseteq isClosed'
        /\ \A k \in Http \ {h} : initialize'[k] = initialize[k] /\ status'[k] = status[k]
        /\ status'[h] # "pending"
        /\ \A c \in All : router'[c] = "unstarted" => router[c] = "unstarted"
    BY <1>3 DEF InitializeResumes
  <2> QED BY <2>1 DEF CanEnd
<1> QED BY <1>1, <1>2, <1>3

LEMMA SessionsGoOn ==
    ASSUME IInv, CanEnd, NEW w \in Ws,
           \/ PrepareWebSocketUpgrade(w) \/ Accept(w) \/ SessionCloses(w) \/ SessionInitializes(w)
           \/ \E sendFails \in BOOLEAN : SessionInitialized(w, sendFails)
           \/ SessionNotInitialized(w) \/ PumpEnds(w)
    PROVE  CanEnd'
<1> USE DEF IInv, TypeOK, registryVars, agentVars, requestVars, All
<1>1. status' = status /\ isClosed \subseteq isClosed'
  BY DEF PrepareWebSocketUpgrade, Connect, Accept, SessionCloses, Discard, SessionInitializes,
         SessionInitialized, SessionNotInitialized, PumpEnds
<1>2. \A h \in Http : initialize'[h] = initialize[h]
  BY KindAssumption
     DEF PrepareWebSocketUpgrade, Connect, Accept, SessionCloses, SessionInitializes,
         SessionInitialized, SessionNotInitialized, PumpEnds
<1>3. \A c \in All : agent'[c] = "gone" => agent[c] = "gone"
  BY DEF PrepareWebSocketUpgrade, Connect, Accept, SessionCloses, SessionInitializes,
         SessionInitialized, SessionNotInitialized, PumpEnds
<1>4. \A c \in All : router'[c] = "unstarted" => router[c] = "unstarted"
  BY DEF PrepareWebSocketUpgrade, Connect, Accept, SessionCloses, SessionInitializes,
         SessionInitialized, SessionNotInitialized, PumpEnds
<1> QED BY <1>1, <1>2, <1>3, <1>4 DEF CanEnd

LEMMA NextGoesOn == IInv /\ CanEnd /\ [Next]_vars => CanEnd'
<1> SUFFICES ASSUME IInv, CanEnd, [Next]_vars PROVE CanEnd'
  OBVIOUS
<1>1. CASE Close
  BY <1>1 DEF Close, CanEnd, agentVars, requestVars
<1>2. ASSUME NEW c \in All,
             \/ Loop(c)
             \/ Delete(c) \/ AgentReads(c) \/ AgentRefuses(c) \/ AgentAnswers(c)
             \/ AgentCloses(c) \/ OutputEnds(c) \/ ConnectionFails(c)
      PROVE  CanEnd'
  BY <1>2, ConnectionsGoOn, RequestsGoOn, SessionsGoOn DEF Loop
<1>3. ASSUME NEW h \in Http, HandleInitialize(h) \/ Abort(h) PROVE CanEnd'
  BY <1>3, RequestsGoOn
<1>4. ASSUME NEW w \in Ws,
             \/ PrepareWebSocketUpgrade(w) \/ Accept(w) \/ SessionCloses(w)
             \/ SessionInitializes(w)
      PROVE  CanEnd'
  BY <1>4, SessionsGoOn
<1>5. CASE UNCHANGED vars
  BY <1>5 DEF vars, CanEnd, agentVars, requestVars
<1> QED BY <1>1, <1>2, <1>3, <1>4, <1>5 DEF Next

(* An initialize whose agent or connection is gone has its answer, or what *)
(* it waits for is known not to come; and a connection that is over but    *)
(* still known is watched, and shuts down or has a router that ends.       *)
NobodyIsLeftWaiting ==
    /\ \A h \in Http : status[h] = "pending" /\ (agent[h] = "gone" \/ h \in isClosed) =>
          NoAnswer(h) \/ initialize[h] \in {"received", "failed"}
    /\ \A c \in Known : Over(c) =>
          c \in tracked /\ (c \in isClosed \/ router[c] \in {"running", "done"})

(* So whoever waits at the server for an end that has come can be told of  *)
(* it: the safety part of InitializeIsAnswered and of TheEndIsFinal, for   *)
(* any number of connections.                                              *)
THEOREM TheEndReachesAll == Spec => []NobodyIsLeftWaiting
<1>1. Init => CanEnd
  BY DEF Init, CanEnd
<1>2. IInv /\ CanEnd /\ [Next]_vars => CanEnd'
  BY NextGoesOn
<1>3. IInv /\ Watched /\ CanEnd => NobodyIsLeftWaiting
  <2> SUFFICES ASSUME IInv, Watched, CanEnd PROVE NobodyIsLeftWaiting
    OBVIOUS
  <2>1. ASSUME NEW h \in Http, status[h] = "pending", agent[h] = "gone" \/ h \in isClosed
        PROVE  NoAnswer(h) \/ initialize[h] \in {"received", "failed"}
    <3>1. h \in All /\ initialize[h] \in {"writing", "reading", "received", "failed"}
      BY <2>1 DEF CanEnd, All
    <3>2. router[h] = "unstarted"
      BY <3>1 DEF IInv, Begun
    <3>3. h \in isClosed
      BY <2>1, <3>1, <3>2 DEF CanEnd
    <3> QED BY <3>1, <3>3 DEF NoAnswer
  <2>2. ASSUME NEW c \in Known, Over(c)
        PROVE  c \in tracked /\ (c \in isClosed \/ router[c] \in {"running", "done"})
    <3>1. c \in All /\ c \in tracked
      BY DEF IInv, TypeOK, Known, Watched, All
    <3>2. c \notin Ws \/ session[c] # "closed"
      BY DEF Watched
    <3> QED BY <2>2, <3>1, <3>2 DEF Over, CanEnd, IInv, TypeOK
  <2> QED BY <2>1, <2>2 DEF NobodyIsLeftWaiting
<1> QED BY <1>1, <1>2, <1>3, Invariance, WhatIsKnownIsWatched, PTL DEF Spec
=============================================================================
