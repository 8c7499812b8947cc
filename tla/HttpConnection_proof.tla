------------------------ MODULE HttpConnection_proof ------------------------
(***************************************************************************)
(* Proofs of the safety properties of HttpConnection, for any number of    *)
(* sessions and requests and any limits.                                   *)
(*                                                                         *)
(* They are proved part by part: what is buffered, who waits, the order    *)
(* within a stream, and the routes that responses take.                    *)
(***************************************************************************)
EXTENDS HttpConnection, FiniteSetTheorems, SequenceTheorems, TLAPS

Unreceived == sessionStreams \ receivers

(* The counters are those of finite sets; a message waits, and a request   *)
(* receives, only on a stream there is; and the router does not read while *)
(* there is no room.                                                       *)
Counted ==
    /\ IsFiniteSet(Waiting) /\ IsFiniteSet(Unreceived)
    /\ bufferedBytes = Cardinality(Waiting)
    /\ bufferedSessionStreams = Cardinality(Unreceived)
    /\ \A s \in Sessions : queue[s] # <<>> \/ s \in receivers => s \in sessionStreams
    /\ router = "reading" /\ ~hasAgentOutputEnded => bufferedBytes < MaxBuffered

(* What waits for the router was written after all that was routed, and    *)
(* nothing is taken out of the middle of a stream.                         *)
Ordered ==
    /\ \A i \in DOMAIN outbound : outbound[i].number <= written
    /\ \A i, j \in DOMAIN outbound : i < j => outbound[i].number < outbound[j].number
    /\ \A s \in Streams :
          /\ \A i \in DOMAIN routed[s] :
                /\ routed[s][i] <= written
                /\ \A j \in DOMAIN outbound : routed[s][i] < outbound[j].number
          /\ ~isClosed => routed[s] = delivered[s] \o queue[s]
          /\ \A i, j \in DOMAIN routed[s] : i < j => routed[s][i] < routed[s][j]

(* A request that was forwarded and has no response on its way to a stream *)
(* is routed as it was when it was posted; no request is answered twice.   *)
Unanswered(r) == r \notin responded \/ \E i \in DOMAIN outbound : r \in outbound[i].responseTo

RoutesKept ==
    /\ \A r \in responded : post[r] = "accepted"
    /\ \A i \in DOMAIN outbound :
          /\ outbound[i].responseTo \subseteq responded
          /\ \A q, r \in outbound[i].responseTo : q = r
    /\ \A i, j \in DOMAIN outbound :
          i # j => outbound[i].responseTo \cap outbound[j].responseTo = {}
    /\ \A r \in Requests :
          /\ ~isClosed /\ post[r] \in {"chained", "writing", "accepted"} /\ Unanswered(r)
                => pendingRoutes[r] = RouteOf[r]
          /\ answeredOn[r] \in {NoRoute, RouteOf[r]}

IInv == TypeOK /\ Counted /\ OutputIsBounded /\ NoMissedProgress /\ Ordered /\ RoutesKept

-----------------------------------------------------------------------------
(* What is counted.                                                        *)

(* One message more waits when one is appended to a queue, and one less    *)
(* when one is taken.                                                      *)
LEMMA OneMoreWaits ==
    ASSUME TypeOK, NEW s \in Streams, NEW n \in Nat,
           queue' = [queue EXCEPT ![s] = Append(@, n)]
    PROVE  LET place == <<s, Len(queue[s]) + 1>>
           IN  place \notin Waiting /\ Waiting' = Waiting \cup {place}
<1>1. queue \in [Streams -> Seq(Nat)]
  BY DEF TypeOK
<1>2. /\ queue'[s] = Append(queue[s], n)
      /\ \A q \in Streams \ {s} : queue'[q] = queue[q]
  BY <1>1
<1>3. Len(queue[s]) \in Nat /\ DOMAIN queue[s] = 1 .. Len(queue[s])
  BY <1>1, LenProperties
<1>4. DOMAIN queue'[s] = DOMAIN queue[s] \cup {Len(queue[s]) + 1}
  <2>1. Len(Append(queue[s], n)) = Len(queue[s]) + 1
        /\ Append(queue[s], n) \in Seq(Nat)
    BY <1>1, AppendProperties
  <2>2. DOMAIN queue'[s] = 1 .. Len(queue[s]) + 1
    BY <1>2, <2>1, LenProperties
  <2> QED BY <1>3, <2>2
<1>5. {s} \X DOMAIN queue'[s] = ({s} \X DOMAIN queue[s]) \cup {<<s, Len(queue[s]) + 1>>}
  BY <1>4
<1>6. Waiting' = Waiting \cup {<<s, Len(queue[s]) + 1>>}
  BY <1>2, <1>5 DEF Waiting
<1>7. <<s, Len(queue[s]) + 1>> \notin Waiting
  BY <1>3 DEF Waiting
<1> QED BY <1>6, <1>7

LEMMA OneLessWaits ==
    ASSUME TypeOK, NEW s \in Streams, queue[s] # <<>>,
           queue' = [queue EXCEPT ![s] = Tail(@)]
    PROVE  LET place == <<s, Len(queue[s])>>
           IN  place \in Waiting /\ Waiting' = Waiting \ {place}
<1>1. queue \in [Streams -> Seq(Nat)]
  BY DEF TypeOK
<1>2. /\ queue'[s] = Tail(queue[s])
      /\ \A q \in Streams \ {s} : queue'[q] = queue[q]
  BY <1>1
<1>3. Len(queue[s]) \in Nat \ {0} /\ DOMAIN queue[s] = 1 .. Len(queue[s])
  BY <1>1, LenProperties, EmptySeq
<1>4. DOMAIN queue'[s] = DOMAIN queue[s] \ {Len(queue[s])}
  <2>1. Len(Tail(queue[s])) = Len(queue[s]) - 1 /\ Tail(queue[s]) \in Seq(Nat)
    BY <1>1, HeadTailProperties
  <2>2. DOMAIN queue'[s] = 1 .. Len(queue[s]) - 1
    BY <1>2, <2>1, LenProperties
  <2> QED BY <1>3, <2>2
<1>5. {s} \X DOMAIN queue'[s] = ({s} \X DOMAIN queue[s]) \ {<<s, Len(queue[s])>>}
  BY <1>4
<1>6. Waiting' = Waiting \ {<<s, Len(queue[s])>>}
  BY <1>2, <1>5 DEF Waiting
<1>7. <<s, Len(queue[s])>> \in Waiting
  BY <1>3 DEF Waiting
<1> QED BY <1>6, <1>7

(* What is counted is not negative after it is counted down.               *)
LEMMA CountsDown ==
    ASSUME TypeOK, Counted, NEW s \in Streams
    PROVE  /\ queue[s] # <<>> => bufferedBytes > 0
           /\ s \in Unreceived => bufferedSessionStreams > 0
<1>1. ASSUME queue[s] # <<>> PROVE bufferedBytes > 0
  <2>1. queue[s] \in Seq(Nat)
    BY DEF TypeOK
  <2>2. <<s, 1>> \in Waiting
    BY <1>1, <2>1, EmptySeq, LenProperties DEF Waiting
  <2> QED BY <2>2, FS_EmptySet DEF Counted, TypeOK
<1>2. ASSUME s \in Unreceived PROVE bufferedSessionStreams > 0
  BY <1>2, FS_EmptySet DEF Counted, TypeOK
<1> QED BY <1>1, <1>2

-----------------------------------------------------------------------------
(* Types.                                                                  *)

LEMMA StreamsFacts == Connection \in Streams /\ Sessions \subseteq Streams
                      /\ TooLong \notin Streams /\ NoRoute \notin Streams
BY NamesAssumption DEF Streams

LEMMA ShutdownTypes ==
    ASSUME TypeOK, NEW next, next \in {"reading", "waiting", "woken", "done"}, Shutdown(next),
           UNCHANGED <<agentVars, hasAgentOutputEnded, inboundWriteChain, historyVars>>,
           hasFinishedRouting' \in BOOLEAN, registered' \in BOOLEAN
    PROVE  TypeOK'
<1>1. queue' \in [Streams -> Seq(Nat)]
  BY EmptySeq DEF Shutdown
<1> QED
  BY <1>1 DEF Shutdown, TypeOK, agentVars, historyVars, WakePosts

LEMMA WakeTypes ==
    ASSUME TypeOK
    PROVE  /\ WakeRouter \in {"reading", "waiting", "woken", "done"}
           /\ WakePosts \in [Requests -> {"none", "waiting", "woken", "forward", "chained",
                                          "writing", "accepted", "rejected"}]
BY DEF TypeOK, WakeRouter, WakePosts

(* What the router routes is a message, and it has a stream to go to. *)
LEMMA RouterTakesFacts ==
    ASSUME TypeOK, RouterTakes
    PROVE  /\ Head(outbound) \in Messages
           /\ outbound' = Tail(outbound) /\ outbound' \in Seq(Messages)
           /\ RouteFor(Head(outbound)) \in Streams
<1>1. outbound \in Seq(Messages) /\ outbound # <<>>
  BY DEF TypeOK, RouterTakes
<1>2. Head(outbound) \in Messages /\ Tail(outbound) \in Seq(Messages)
  BY <1>1, HeadTailProperties
<1>3. RouteFor(Head(outbound)) \in Streams \cup {TooLong}
  <2>1. ASSUME NEW m \in Messages PROVE RouteFor(m) \in Streams \cup {TooLong}
    <3>1. CASE m.to = TooLong \/ m.responseTo = {}
      BY <3>1 DEF RouteFor, Messages
    <3>2. CASE m.to # TooLong /\ m.responseTo # {}
      <4>1. PICK r \in Requests : r = CHOOSE q \in m.responseTo : TRUE
        BY <3>2 DEF Messages
      <4>2. pendingRoutes[r] \in Streams \cup {NoRoute}
        BY DEF TypeOK
      <4> QED BY <3>2, <4>1, <4>2, StreamsFacts DEF RouteFor
    <3> QED BY <3>1, <3>2
  <2> QED BY <1>2, <2>1
<1>4. RouteFor(Head(outbound)) # TooLong
  BY DEF RouterTakes, Refused
<1> QED BY <1>2, <1>3, <1>4 DEF RouterTakes

LEMMA TypeStep ==
    ASSUME TypeOK, Counted, [Next]_vars
    PROVE  TypeOK'
<1> USE DEF agentVars, streamVars, flagVars, inVars, historyVars
<1>1. CASE Delete
  <2>1. CASE isClosed
    BY <1>1, <2>1 DEF Delete, TypeOK
  <2>2. CASE ~isClosed
    BY <1>1, <2>2, ShutdownTypes, WakeTypes DEF Delete, TypeOK, Shutdown
  <2> QED BY <2>1, <2>2
<1>2. CASE Unregister
  BY <1>2 DEF Unregister, TypeOK
<1>3. CASE Stall
  BY <1>3, ShutdownTypes, WakeTypes DEF Stall, TypeOK
<1>4. ASSUME NEW m \in Messages, AgentWrites(m), responded' \subseteq Requests
      PROVE  TypeOK'
  <2>1. outbound' \in Seq(Messages)
    BY <1>4, AppendProperties DEF AgentWrites, TypeOK
  <2> QED BY <1>4, <2>1 DEF AgentWrites, TypeOK
<1>5. ASSUME NEW to \in Streams \cup {TooLong}, AgentSends(to) PROVE TypeOK'
  <2>1. [number |-> written + 1, to |-> to, responseTo |-> {}] \in Messages
    BY DEF Messages, TypeOK
  <2> QED BY <1>4, <1>5, <2>1 DEF AgentSends, TypeOK
<1>6. ASSUME NEW r \in Requests, NEW to \in {Connection, TooLong}, AgentResponds(r, to)
      PROVE  TypeOK'
  <2>1. [number |-> written + 1, to |-> to, responseTo |-> {r}] \in Messages
    BY StreamsFacts DEF Messages, TypeOK
  <2>2. responded' \subseteq Requests
    BY <1>6 DEF AgentResponds, TypeOK
  <2> QED BY <1>4, <1>6, <2>1, <2>2 DEF AgentResponds
<1>7. CASE AgentCloses
  BY <1>7 DEF AgentCloses, TypeOK
<1>8. CASE EndOutput
  BY <1>8, WakeTypes DEF EndOutput, NotifyOutboundProgress, TypeOK
<1>9. CASE FailOutput
  <2>1. outbound' \in Seq(Messages)
    BY <1>9, EmptySeq DEF FailOutput
  <2> QED BY <1>9, <2>1, WakeTypes DEF FailOutput, NotifyOutboundProgress, TypeOK
<1>10. CASE RouterTakes
  <2> DEFINE s == RouteFor(Head(outbound))
             n == Head(outbound).number
  <2>1. s \in Streams /\ n \in Nat /\ outbound' \in Seq(Messages)
    BY <1>10, RouterTakesFacts DEF Messages
  <2>2. /\ queue' = [queue EXCEPT ![s] = Append(@, n)]
        /\ routed' = [routed EXCEPT ![s] = Append(@, n)]
    BY <1>10 DEF RouterTakes
  <2>3. queue' \in [Streams -> Seq(Nat)] /\ routed' \in [Streams -> Seq(Nat)]
    <3>1. Append(queue[s], n) \in Seq(Nat) /\ Append(routed[s], n) \in Seq(Nat)
      BY <2>1, AppendProperties DEF TypeOK
    <3> QED BY <2>1, <2>2, <3>1 DEF TypeOK
  <2>4. answeredOn' \in [Requests -> Streams \cup {NoRoute}]
    BY <1>10, <2>1 DEF RouterTakes, TypeOK
  <2>5. pendingRoutes' \in [Requests -> Streams \cup {NoRoute}]
    BY <1>10, <2>1 DEF RouterTakes, TypeOK
  <2>6. sessionStreams' \subseteq Sessions
    BY <1>10 DEF RouterTakes, TypeOK
  <2>7. router' \in {"reading", "waiting"} /\ bufferedBytes' \in Nat
        /\ bufferedSessionStreams' \in Nat
    BY <1>10 DEF RouterTakes, TypeOK
  <2>8. UNCHANGED <<agentOpen, channel, written, responded, flagVars, inboundWriteChain,
                   delivered, receivers, post>>
    BY <1>10 DEF RouterTakes
  <2> HIDE DEF s, n
  <2> QED BY <2>1, <2>3, <2>4, <2>5, <2>6, <2>7, <2>8 DEF TypeOK
<1>11. CASE RouterResumes
  BY <1>11 DEF RouterResumes, TypeOK
<1>12. CASE RouterEnds
  BY <1>12, WakeTypes DEF RouterEnds, TypeOK
<1>13. CASE RouterFails
  BY <1>13, ShutdownTypes DEF RouterFails, TypeOK
<1>14. ASSUME NEW s \in Streams, OpenStream(s) PROVE TypeOK'
  <2>1. bufferedSessionStreams' \in Nat
    BY <1>14, CountsDown DEF OpenStream, CountedBefore, TypeOK, Unreceived
  <2> QED BY <1>14, <2>1 DEF OpenStream, TypeOK
<1>15. ASSUME NEW s \in Streams, TakeMessage(s) PROVE TypeOK'
  <2>1. /\ Tail(queue[s]) \in Seq(Nat) /\ Head(queue[s]) \in Nat
    BY <1>15, HeadTailProperties DEF TakeMessage, TypeOK
  <2>2. queue' \in [Streams -> Seq(Nat)]
    BY <1>15, <2>1 DEF TakeMessage, TypeOK
  <2>3. delivered' \in [Streams -> Seq(Nat)]
    <3>1. Append(delivered[s], Head(queue[s])) \in Seq(Nat)
      BY <2>1, AppendProperties DEF TypeOK
    <3> QED BY <1>15, <3>1 DEF TakeMessage, TypeOK
  <2>4. bufferedBytes' \in Nat
    BY <1>15, CountsDown DEF TakeMessage, TypeOK
  <2> QED BY <1>15, <2>2, <2>3, <2>4, WakeTypes DEF TakeMessage, NotifyOutboundProgress, TypeOK
<1>16. ASSUME NEW s \in Streams, ReleaseStream(s) PROVE TypeOK'
  <2>1. CASE TooManyWhenLeft(s)
    BY <1>16, <2>1, ShutdownTypes, WakeTypes DEF ReleaseStream, TypeOK
  <2>2. CASE ~TooManyWhenLeft(s)
    <3>1. \/ queue' = queue
          \/ queue' = [queue EXCEPT ![s] = <<>>]
      BY <1>16, <2>2 DEF ReleaseStream
    <3>2. queue' \in [Streams -> Seq(Nat)]
      BY <3>1, EmptySeq DEF TypeOK
    <3>3. sessionStreams' \subseteq Sessions /\ receivers' \subseteq Streams
      BY <1>16, <2>2 DEF ReleaseStream, TypeOK
    <3>4. bufferedSessionStreams' \in Nat
      <4>1. bufferedSessionStreams \in Nat
        BY DEF TypeOK
      <4> QED BY <1>16, <2>2, <4>1 DEF ReleaseStream
    <3>5. UNCHANGED <<isClosed, bufferedBytes, pendingRoutes, router, post, agentVars,
                     hasAgentOutputEnded, hasFinishedRouting, registered, inboundWriteChain,
                     historyVars>>
      BY <1>16, <2>2 DEF ReleaseStream
    <3> QED BY <3>2, <3>3, <3>4, <3>5 DEF TypeOK
  <2> QED BY <2>1, <2>2
<1>17. ASSUME NEW r \in Requests, Post(r) \/ PostResumes(r) \/ PostAborts(r) PROVE TypeOK'
  <2>1. UNCHANGED <<agentVars, streamVars, flagVars, inVars, historyVars, router, receivers>>
    BY <1>17 DEF Post, PostResumes, PostAborts
  <2>2. \E to \in {"waiting", "forward", "rejected"} : post' = [post EXCEPT ![r] = to]
    BY <1>17 DEF Post, PostResumes, PostAborts
  <2> QED BY <2>1, <2>2 DEF TypeOK
<1>18. ASSUME NEW r \in Requests, Forward(r) PROVE TypeOK'
  <2>1. inboundWriteChain' \in Seq(Requests)
    BY <1>18, AppendProperties DEF Forward, TypeOK
  <2>2. RouteOf[r] \in Streams
    BY RouteOfAssumption
  <2> QED BY <1>18, <2>1, <2>2 DEF Forward, TypeOK
<1>19. ASSUME NEW from, NEW to \in {"writing", "accepted", "rejected"}, WriteStep(from, to)
       PROVE  TypeOK'
  <2>1. inboundWriteChain' \in Seq(Requests)
    BY <1>19, HeadTailProperties DEF WriteStep, TypeOK
  <2> QED BY <1>19, <2>1 DEF WriteStep, TypeOK
<1>20. CASE Write \/ AgentReads
  BY <1>19, <1>20 DEF Write, StartWrite, RefuseWrite, WriteFails, AgentReads
<1>21. CASE UNCHANGED vars
  BY <1>21 DEF vars, TypeOK
<1> QED
  BY <1>1, <1>2, <1>3, <1>5, <1>6, <1>7, <1>8, <1>9, <1>10, <1>11, <1>12, <1>13, <1>14, <1>15,
     <1>16, <1>17, <1>18, <1>20, <1>21 DEF Next, Route

-----------------------------------------------------------------------------
(* What is buffered.                                                       *)

(* What neither routes nor receives changes nothing that is counted.       *)
Elsewhere ==
    \/ Unregister \/ AgentCloses \/ Write \/ AgentReads \/ UNCHANGED vars
    \/ \E to \in Streams \cup {TooLong} : AgentSends(to)
    \/ \E r \in Requests, to \in {Connection, TooLong} : AgentResponds(r, to)
    \/ \E r \in Requests : Post(r) \/ PostResumes(r) \/ PostAborts(r) \/ Forward(r)

LEMMA ElsewhereFrame ==
    ASSUME Elsewhere
    PROVE  UNCHANGED <<streamVars, receivers, router, isClosed, hasAgentOutputEnded,
                       hasFinishedRouting, routed, delivered, answeredOn>>
<1> USE DEF agentVars, streamVars, flagVars, inVars, historyVars
<1>1. CASE Unregister \/ AgentCloses
  BY <1>1 DEF Unregister, AgentCloses
<1>2. CASE Write \/ AgentReads
  BY <1>2 DEF Write, AgentReads, StartWrite, RefuseWrite, WriteFails, WriteStep
<1>3. CASE \E to \in Streams \cup {TooLong} : AgentSends(to)
  BY <1>3 DEF AgentSends, AgentWrites
<1>4. CASE \E r \in Requests, to \in {Connection, TooLong} : AgentResponds(r, to)
  BY <1>4 DEF AgentResponds, AgentWrites
<1>5. CASE \E r \in Requests : Post(r) \/ PostResumes(r) \/ PostAborts(r) \/ Forward(r)
  BY <1>5 DEF Post, PostResumes, PostAborts, Forward
<1>6. CASE UNCHANGED vars
  BY <1>6 DEF vars
<1> QED BY <1>1, <1>2, <1>3, <1>4, <1>5, <1>6 DEF Elsewhere

(* The other actions. *)
LEMMA NextCases ==
    ASSUME [Next]_vars, ~Elsewhere
    PROVE  \/ Delete \/ Stall \/ EndOutput \/ FailOutput \/ Route
           \/ \E s \in Streams : OpenStream(s) \/ TakeMessage(s) \/ ReleaseStream(s)
BY DEF Next, Elsewhere

Buffered == Counted /\ OutputIsBounded

LEMMA ShutdownBuffered ==
    ASSUME TypeOK, NEW next, Shutdown(next)
    PROVE  Buffered'
<1>1. Waiting' = {} /\ Unreceived' = {}
  BY DEF Shutdown, Waiting, Unreceived
<1>2. bufferedBytes' = 0 /\ bufferedSessionStreams' = 0
  BY DEF Shutdown
<1>3. \A s \in Sessions : queue'[s] = <<>> /\ s \notin receivers'
  BY StreamsFacts DEF Shutdown
<1>4. sessionStreams' = {} /\ receivers' = {}
  BY DEF Shutdown
<1> QED
  BY <1>1, <1>2, <1>3, <1>4, FS_EmptySet, LimitsAssumption DEF Buffered, Counted, OutputIsBounded,
     Unreceived

LEMMA RouterTakesBuffered ==
    ASSUME TypeOK, Buffered, RouterTakes
    PROVE  Buffered'
<1> DEFINE s == RouteFor(Head(outbound))
           n == Head(outbound).number
           created == s \in Sessions \ sessionStreams
<1>1. s \in Streams /\ n \in Nat
  BY RouterTakesFacts DEF Messages
<1>2. /\ queue' = [queue EXCEPT ![s] = Append(@, n)]
      /\ bufferedBytes' = bufferedBytes + 1
      /\ sessionStreams' = IF created THEN sessionStreams \cup {s} ELSE sessionStreams
      /\ bufferedSessionStreams' = bufferedSessionStreams + (IF created THEN 1 ELSE 0)
      /\ router' = IF ~hasAgentOutputEnded /\ HasOutboundBacklog' THEN "waiting" ELSE "reading"
      /\ UNCHANGED <<receivers, hasAgentOutputEnded, hasFinishedRouting, isClosed>>
      /\ ~isClosed /\ router = "reading" /\ ~Refused(s)
  BY DEF RouterTakes, MayRoute, flagVars
<1> HIDE DEF s, n
<1>3. IsFiniteSet(Waiting') /\ bufferedBytes' = Cardinality(Waiting')
  <2>1. IsFiniteSet(Waiting) /\ bufferedBytes = Cardinality(Waiting)
    BY DEF Buffered, Counted
  <2>2. PICK place : place \notin Waiting /\ Waiting' = Waiting \cup {place}
    BY <1>1, <1>2, OneMoreWaits
  <2> QED BY <1>2, <2>1, <2>2, FS_AddElement
<1>4. IsFiniteSet(Unreceived') /\ bufferedSessionStreams' = Cardinality(Unreceived')
  <2>1. IsFiniteSet(Unreceived) /\ bufferedSessionStreams = Cardinality(Unreceived)
    BY DEF Buffered, Counted
  <2>2. CASE created
    <3>1. s \notin receivers /\ s \notin Unreceived
      BY <2>2 DEF Buffered, Counted, Unreceived
    <3>2. Unreceived' = Unreceived \cup {s}
      BY <1>2, <2>2, <3>1 DEF Unreceived
    <3> QED BY <1>2, <2>1, <2>2, <3>1, <3>2, FS_AddElement
  <2>3. CASE ~created
    <3>1. Unreceived' = Unreceived
      BY <1>2, <2>3 DEF Unreceived
    <3>2. bufferedSessionStreams' = bufferedSessionStreams
      BY <1>2, <2>3 DEF TypeOK
    <3> QED BY <2>1, <3>1, <3>2
  <2> QED BY <2>2, <2>3
<1>5. \A q \in Sessions : queue'[q] # <<>> \/ q \in receivers' => q \in sessionStreams'
  <2>1. ASSUME NEW q \in Sessions, queue'[q] # <<>> \/ q \in receivers'
        PROVE  q \in sessionStreams'
    <3>1. CASE q = s
      BY <1>2, <3>1
    <3>2. CASE q # s
      <4>1. queue'[q] = queue[q]
        BY <1>1, <1>2, <3>2, StreamsFacts DEF TypeOK
      <4> QED BY <1>2, <2>1, <4>1 DEF Buffered, Counted
    <3> QED BY <3>1, <3>2
  <2> QED BY <2>1
<1>6. router' = "reading" /\ ~hasAgentOutputEnded' => bufferedBytes' < MaxBuffered
  BY <1>2, LimitsAssumption DEF HasOutboundBacklog, TypeOK
<1>7. bufferedBytes' <= MaxBuffered \/ hasAgentOutputEnded'
  BY <1>2, LimitsAssumption DEF Buffered, Counted, TypeOK
<1>8. bufferedSessionStreams' <= MaxSessionStreams \/ hasFinishedRouting'
  BY <1>2, LimitsAssumption DEF Buffered, OutputIsBounded, Refused, TypeOK
<1> QED
  BY <1>2, <1>3, <1>4, <1>5, <1>6, <1>7, <1>8 DEF Buffered, Counted, OutputIsBounded, Unreceived

LEMMA OpenStreamBuffered ==
    ASSUME TypeOK, Buffered, NEW s \in Streams, OpenStream(s)
    PROVE  Buffered'
<1>1. UNCHANGED <<queue, bufferedBytes, router, isClosed, hasAgentOutputEnded, hasFinishedRouting>>
      /\ ~isClosed
  BY DEF OpenStream, flagVars
<1>2. Waiting' = Waiting
  BY <1>1 DEF Waiting
<1>3. IsFiniteSet(Unreceived') /\ bufferedSessionStreams' = Cardinality(Unreceived')
      /\ bufferedSessionStreams' <= bufferedSessionStreams
  <2>1. IsFiniteSet(Unreceived) /\ bufferedSessionStreams = Cardinality(Unreceived)
    BY DEF Buffered, Counted
  <2>2. Unreceived' = Unreceived \ {s}
    BY DEF OpenStream, Unreceived, Streams
  <2>3. s \in Unreceived <=> s \in sessionStreams
    BY DEF OpenStream, Unreceived
  <2>4. bufferedSessionStreams' = bufferedSessionStreams - (IF s \in Unreceived THEN 1 ELSE 0)
    BY <2>3 DEF OpenStream, CountedBefore
  <2> QED BY <2>1, <2>2, <2>4, FS_RemoveElement DEF TypeOK
<1>4. \A q \in Sessions : queue'[q] # <<>> \/ q \in receivers' => q \in sessionStreams'
  BY <1>1 DEF OpenStream, Buffered, Counted
<1>5. bufferedSessionStreams' <= MaxSessionStreams \/ hasFinishedRouting'
  <2>1. bufferedSessionStreams \in Nat /\ bufferedSessionStreams' \in Int
    BY DEF TypeOK, OpenStream, CountedBefore
  <2> QED BY <1>1, <1>3, <2>1, LimitsAssumption DEF Buffered, OutputIsBounded
<1> QED
  BY <1>1, <1>2, <1>3, <1>4, <1>5 DEF Buffered, Counted, OutputIsBounded, Unreceived

LEMMA TakeMessageBuffered ==
    ASSUME TypeOK, Buffered, NEW s \in Streams, TakeMessage(s)
    PROVE  Buffered'
<1>1. /\ UNCHANGED <<sessionStreams, bufferedSessionStreams, isClosed, hasAgentOutputEnded,
                     hasFinishedRouting, receivers>>
      /\ queue[s] # <<>> /\ queue' = [queue EXCEPT ![s] = Tail(@)]
      /\ bufferedBytes' = bufferedBytes - 1
      /\ router' = "reading" => router = "reading"
  BY DEF TakeMessage, NotifyOutboundProgress, WakeRouter, flagVars
<1>2. IsFiniteSet(Waiting') /\ bufferedBytes' = Cardinality(Waiting')
  <2>1. IsFiniteSet(Waiting) /\ bufferedBytes = Cardinality(Waiting)
    BY DEF Buffered, Counted
  <2>2. PICK place : place \in Waiting /\ Waiting' = Waiting \ {place}
    BY <1>1, OneLessWaits
  <2> QED BY <1>1, <2>1, <2>2, FS_RemoveElement
<1>3. \A q \in Sessions : queue'[q] # <<>> => queue[q] # <<>>
  BY <1>1, StreamsFacts DEF TypeOK
<1>4. bufferedBytes' < bufferedBytes /\ bufferedBytes' \in Int
  BY <1>1 DEF TypeOK
<1>5. ~isClosed
  BY <1>1, CountsDown DEF Buffered, OutputIsBounded
<1>6. router' = "reading" /\ ~hasAgentOutputEnded' => bufferedBytes' < MaxBuffered
  BY <1>1, <1>4, LimitsAssumption DEF Buffered, Counted, TypeOK
<1>7. bufferedBytes' <= MaxBuffered \/ hasAgentOutputEnded'
  BY <1>1, <1>4, LimitsAssumption DEF Buffered, OutputIsBounded, TypeOK
<1>8. Unreceived' = Unreceived
  BY <1>1 DEF Unreceived
<1> QED
  BY <1>1, <1>2, <1>3, <1>5, <1>6, <1>7, <1>8 DEF Buffered, Counted, OutputIsBounded, Unreceived

LEMMA ReleaseStreamBuffered ==
    ASSUME TypeOK, Buffered, NEW s \in Streams, ReleaseStream(s)
    PROVE  Buffered'
<1>1. CASE TooManyWhenLeft(s)
  BY <1>1, ShutdownBuffered DEF ReleaseStream
<1>2. CASE ~TooManyWhenLeft(s)
  <2>1. /\ UNCHANGED <<bufferedBytes, isClosed, hasAgentOutputEnded, hasFinishedRouting, router>>
        /\ s \in receivers /\ receivers' = receivers \ {s}
    BY <1>2 DEF ReleaseStream
  <2>2. queue' = queue
    BY <1>2 DEF ReleaseStream, DeletedWhenLeft, TypeOK
  <2>3. Waiting' = Waiting
    BY <2>2 DEF Waiting
  <2>4. ~isClosed
    BY <2>1 DEF Buffered, OutputIsBounded
  <2>5. IsFiniteSet(Unreceived) /\ bufferedSessionStreams = Cardinality(Unreceived)
        /\ s \notin Unreceived
    BY <2>1 DEF Buffered, Counted, Unreceived
  <2>6. CASE s = Connection \/ DeletedWhenLeft(s)
    <3>1. sessionStreams' \subseteq sessionStreams /\ bufferedSessionStreams' = bufferedSessionStreams
          /\ \A q \in sessionStreams : q # s => q \in sessionStreams'
      BY <1>2, <2>6 DEF ReleaseStream
    <3>2. Unreceived' = Unreceived
      <4>1. s \notin sessionStreams'
        BY <1>2, <2>6, NamesAssumption DEF ReleaseStream, DeletedWhenLeft, TypeOK
      <4> QED BY <2>1, <3>1, <4>1 DEF Unreceived
    <3>3. \A q \in Sessions : queue'[q] # <<>> \/ q \in receivers' => q \in sessionStreams'
      BY <2>1, <2>2, <2>6, <3>1, NamesAssumption DEF Buffered, Counted, DeletedWhenLeft
    <3> QED
      BY <2>1, <2>3, <2>4, <2>5, <3>1, <3>2, <3>3 DEF Buffered, Counted, OutputIsBounded, Unreceived
  <2>7. CASE s # Connection /\ ~DeletedWhenLeft(s)
    <3>1. sessionStreams' = sessionStreams /\ bufferedSessionStreams' = bufferedSessionStreams + 1
      BY <1>2, <2>7 DEF ReleaseStream
    <3>2. s \in Sessions /\ queue[s] # <<>>
      BY <2>7 DEF DeletedWhenLeft, Streams
    <3>3. Unreceived' = Unreceived \cup {s}
      BY <2>1, <3>1, <3>2 DEF Unreceived, Buffered, Counted
    <3>4. IsFiniteSet(Unreceived') /\ bufferedSessionStreams' = Cardinality(Unreceived')
      BY <2>5, <3>1, <3>3, FS_AddElement
    <3>5. bufferedSessionStreams' <= MaxSessionStreams \/ hasFinishedRouting'
      BY <1>2, <2>1, <3>1, <3>2, LimitsAssumption DEF TooManyWhenLeft, TypeOK
    <3> QED
      BY <2>1, <2>2, <2>3, <2>4, <3>1, <3>4, <3>5 DEF Buffered, Counted, OutputIsBounded, Unreceived
  <2> QED BY <2>6, <2>7
<1> QED BY <1>1, <1>2

(* The counters stay exact and within their limits.                        *)
LEMMA BufferedStep ==
    ASSUME TypeOK, Buffered, [Next]_vars
    PROVE  Buffered'
<1> USE DEF agentVars, streamVars, flagVars, inVars, historyVars
<1>1. ASSUME UNCHANGED <<streamVars, receivers, isClosed>>,
             router' = "reading" /\ ~hasAgentOutputEnded' => bufferedBytes' < MaxBuffered,
             hasAgentOutputEnded => hasAgentOutputEnded',
             hasFinishedRouting => hasFinishedRouting'
      PROVE  Buffered'
  <2>1. Waiting' = Waiting /\ Unreceived' = Unreceived
    BY <1>1 DEF Waiting, Unreceived
  <2> QED BY <1>1, <2>1 DEF Buffered, Counted, OutputIsBounded, Unreceived
<1>2. CASE Elsewhere
  BY <1>1, <1>2, ElsewhereFrame DEF Buffered, Counted
<1>3. CASE Delete
  <2>1. CASE isClosed
    BY <1>1, <1>3, <2>1 DEF Delete, Buffered, Counted
  <2>2. CASE ~isClosed
    BY <1>3, <2>2, ShutdownBuffered DEF Delete
  <2> QED BY <2>1, <2>2
<1>4. CASE Stall
  BY <1>4, ShutdownBuffered DEF Stall
<1>5. CASE EndOutput \/ FailOutput
  BY <1>1, <1>5 DEF EndOutput, FailOutput
<1>6. CASE RouterResumes
  <2>1. router' = "reading" /\ ~hasAgentOutputEnded' => bufferedBytes' < MaxBuffered
    BY <1>6, LimitsAssumption DEF RouterResumes, HasOutboundBacklog, TypeOK, Buffered,
       OutputIsBounded
  <2> QED BY <1>1, <1>6, <2>1 DEF RouterResumes
<1>7. CASE RouterEnds
  BY <1>1, <1>7 DEF RouterEnds
<1>8. CASE RouterFails
  BY <1>8, ShutdownBuffered DEF RouterFails
<1> QED
  BY <1>2, <1>3, <1>4, <1>5, <1>6, <1>7, <1>8, NextCases, RouterTakesBuffered,
     OpenStreamBuffered, TakeMessageBuffered, ReleaseStreamBuffered DEF Route

-----------------------------------------------------------------------------
(* Who waits.                                                              *)

LEMMA WokenWaitNoMore ==
    /\ WakeRouter # "waiting"
    /\ \A r \in Requests : WakePosts[r] # "waiting"
BY DEF WakeRouter, WakePosts

(* Nobody waits for what has happened: whoever waits is woken when it      *)
(* does, and looks again.                                                  *)
LEMMA ProgressStep ==
    ASSUME TypeOK, NoMissedProgress, [Next]_vars
    PROVE  NoMissedProgress'
<1> USE DEF agentVars, streamVars, flagVars, inVars, historyVars
<1>1. ASSUME router' # "waiting", \A r \in Requests : post'[r] # "waiting"
      PROVE  NoMissedProgress'
  BY <1>1 DEF NoMissedProgress
<1>2. ASSUME NEW next, next # "waiting", Shutdown(next)
      PROVE  NoMissedProgress'
  BY <1>1, <1>2, WokenWaitNoMore DEF Shutdown
<1>3. ASSUME UNCHANGED <<bufferedBytes, isClosed, hasAgentOutputEnded, hasFinishedRouting, router>>,
             \A r \in Requests : post'[r] = "waiting" => post[r] = "waiting" \/ HeldBack
      PROVE  NoMissedProgress'
  BY <1>3 DEF NoMissedProgress, HasOutboundBacklog, HeldBack
<1>4. CASE Delete
  BY <1>2, <1>3, <1>4, WokenWaitNoMore DEF Delete
<1>5. CASE Stall
  BY <1>2, <1>5, WokenWaitNoMore DEF Stall
<1>6. CASE EndOutput \/ FailOutput
  BY <1>1, <1>6, WokenWaitNoMore DEF EndOutput, FailOutput, NotifyOutboundProgress
<1>7. CASE RouterTakes
  <2>1. /\ bufferedBytes' = bufferedBytes + 1 /\ bufferedBytes \in Nat
        /\ UNCHANGED <<isClosed, hasAgentOutputEnded, hasFinishedRouting, post>>
        /\ router' = "waiting" => ~hasAgentOutputEnded /\ HasOutboundBacklog'
        /\ ~isClosed
    BY <1>7 DEF RouterTakes, MayRoute, TypeOK
  <2>2. HasOutboundBacklog => HasOutboundBacklog'
    BY <2>1, LimitsAssumption DEF HasOutboundBacklog
  <2> QED BY <2>1, <2>2 DEF NoMissedProgress
<1>8. CASE RouterResumes
  BY <1>8 DEF RouterResumes, NoMissedProgress, HasOutboundBacklog
<1>9. CASE RouterEnds
  BY <1>1, <1>9, WokenWaitNoMore DEF RouterEnds
<1>10. CASE RouterFails
  BY <1>2, <1>10 DEF RouterFails
<1>11. ASSUME NEW s \in Streams, OpenStream(s) PROVE NoMissedProgress'
  BY <1>3, <1>11 DEF OpenStream
<1>12. ASSUME NEW s \in Streams, TakeMessage(s) PROVE NoMissedProgress'
  BY <1>1, <1>12, WokenWaitNoMore DEF TakeMessage, NotifyOutboundProgress
<1>13. ASSUME NEW s \in Streams, ReleaseStream(s) PROVE NoMissedProgress'
  <2>1. CASE TooManyWhenLeft(s)
    BY <1>2, <1>13, <2>1, WokenWaitNoMore DEF ReleaseStream
  <2>2. CASE ~TooManyWhenLeft(s)
    BY <1>3, <1>13, <2>2 DEF ReleaseStream
  <2> QED BY <2>1, <2>2
<1>14. CASE Elsewhere
  <2>1. UNCHANGED <<bufferedBytes, isClosed, hasAgentOutputEnded, hasFinishedRouting, router>>
    BY <1>14, ElsewhereFrame
  <2>2. ASSUME NEW r \in Requests, post'[r] = "waiting" PROVE post[r] = "waiting" \/ HeldBack
    <3>1. CASE UNCHANGED post
      BY <2>2, <3>1
    <3>2. ASSUME NEW q \in Requests, NEW to,
                 post' = [post EXCEPT ![q] = to], to # "waiting" \/ HeldBack
          PROVE  post[r] = "waiting" \/ HeldBack
      BY <2>2, <3>2 DEF TypeOK
    <3>3. ASSUME NEW from, NEW to \in {"writing", "accepted", "rejected"}, WriteStep(from, to)
          PROVE  post[r] = "waiting" \/ HeldBack
      <4>1. inboundWriteChain \in Seq(Requests) /\ inboundWriteChain # <<>>
        BY <3>3 DEF WriteStep, TypeOK
      <4>2. Head(inboundWriteChain) \in Requests
        BY <4>1, HeadTailProperties
      <4> QED BY <3>2, <3>3, <4>2 DEF WriteStep
    <3>4. CASE Unregister \/ AgentCloses \/ UNCHANGED vars
      BY <3>1, <3>4 DEF Unregister, AgentCloses, vars
    <3>5. CASE Write \/ AgentReads
      BY <3>3, <3>5 DEF Write, AgentReads, StartWrite, RefuseWrite, WriteFails
    <3>6. CASE \E to \in Streams \cup {TooLong} : AgentSends(to)
      BY <3>1, <3>6 DEF AgentSends, AgentWrites
    <3>7. CASE \E q \in Requests, to \in {Connection, TooLong} : AgentResponds(q, to)
      BY <3>1, <3>7 DEF AgentResponds, AgentWrites
    <3>8. ASSUME NEW q \in Requests, Post(q) \/ PostResumes(q)
          PROVE  post[r] = "waiting" \/ HeldBack
      BY <3>2, <3>8 DEF Post, PostResumes
    <3>9. ASSUME NEW q \in Requests, PostAborts(q) \/ Forward(q)
          PROVE  post[r] = "waiting" \/ HeldBack
      BY <3>2, <3>9 DEF PostAborts, Forward
    <3> QED BY <1>14, <3>4, <3>5, <3>6, <3>7, <3>8, <3>9 DEF Elsewhere
  <2> QED BY <1>3, <2>1, <2>2
<1> QED
  BY <1>4, <1>5, <1>6, <1>7, <1>8, <1>9, <1>10, <1>11, <1>12, <1>13, <1>14, NextCases DEF Route

-----------------------------------------------------------------------------
(* The order within a stream.                                              *)

(* A stream stays as it is unless something is routed to it or taken.      *)
LEMMA SameStreams ==
    ASSUME Ordered, UNCHANGED <<outbound, written, routed>>,
           isClosed' \/ UNCHANGED <<delivered, queue, isClosed>>
    PROVE  Ordered'
<1>1. ASSUME NEW s \in Streams, ~isClosed'
      PROVE  routed'[s] = delivered'[s] \o queue'[s]
  <2>1. UNCHANGED <<delivered, queue, isClosed>>
    BY <1>1
  <2>2. routed[s] = delivered[s] \o queue[s]
    BY <1>1, <2>1 DEF Ordered
  <2> QED BY <2>1, <2>2
<1>2. ASSUME NEW s \in Streams
      PROVE  /\ \A i \in DOMAIN routed'[s] :
                  /\ routed'[s][i] <= written'
                  /\ \A j \in DOMAIN outbound' : routed'[s][i] < outbound'[j].number
             /\ \A i, j \in DOMAIN routed'[s] : i < j => routed'[s][i] < routed'[s][j]
  BY DEF Ordered
<1>3. /\ \A i \in DOMAIN outbound' : outbound'[i].number <= written'
      /\ \A i, j \in DOMAIN outbound' : i < j => outbound'[i].number < outbound'[j].number
  BY DEF Ordered
<1> QED BY <1>1, <1>2, <1>3 DEF Ordered

LEMMA AgentWritesOrdered ==
    ASSUME TypeOK, Ordered, NEW m \in Messages, m.number = written + 1, AgentWrites(m)
    PROVE  Ordered'
<1>1. outbound \in Seq(Messages) /\ written \in Nat
  BY DEF TypeOK
<1>2. /\ outbound' = Append(outbound, m) /\ written' = written + 1
      /\ UNCHANGED <<routed, delivered, queue, isClosed>>
  BY DEF AgentWrites, historyVars, streamVars, flagVars
<1>3. /\ Len(outbound) \in Nat
      /\ DOMAIN outbound = 1 .. Len(outbound) /\ DOMAIN outbound' = 1 .. Len(outbound) + 1
      /\ \A i \in DOMAIN outbound : outbound'[i] = outbound[i]
      /\ outbound'[Len(outbound) + 1] = m
  BY <1>1, <1>2, AppendProperties, LenProperties
<1>4. ASSUME NEW i \in DOMAIN outbound
      PROVE  outbound[i].number \in Nat /\ outbound[i].number <= written
  <2>1. outbound[i] \in Messages
    BY <1>1, <1>3, ElementOfSeq
  <2> QED BY <2>1 DEF Messages, Ordered
<1>5. \A i \in DOMAIN outbound' : outbound'[i].number <= written'
  BY <1>1, <1>2, <1>3, <1>4
<1>6. \A i, j \in DOMAIN outbound' : i < j => outbound'[i].number < outbound'[j].number
  <2>1. ASSUME NEW i \in DOMAIN outbound', NEW j \in DOMAIN outbound', i < j
        PROVE  outbound'[i].number < outbound'[j].number
    <3>1. i \in DOMAIN outbound
      BY <1>3, <2>1
    <3>2. CASE j \in DOMAIN outbound
      BY <1>3, <2>1, <3>1, <3>2 DEF Ordered
    <3>3. CASE j = Len(outbound) + 1
      BY <1>1, <1>3, <1>4, <3>1, <3>3
    <3> QED BY <1>3, <3>2, <3>3
  <2> QED BY <2>1
<1>7. ASSUME NEW s \in Streams, NEW i \in DOMAIN routed'[s]
      PROVE  /\ routed'[s][i] <= written'
             /\ \A j \in DOMAIN outbound' : routed'[s][i] < outbound'[j].number
  <2>1. routed[s][i] \in Nat
    BY <1>2, <1>7, ElementOfSeq, LenProperties DEF TypeOK
  <2>2. routed[s][i] <= written /\ \A j \in DOMAIN outbound : routed[s][i] < outbound[j].number
    BY <1>2, <1>7 DEF Ordered
  <2> QED BY <1>1, <1>2, <1>3, <2>1, <2>2
<1>8. \A s \in Streams :
          /\ ~isClosed' => routed'[s] = delivered'[s] \o queue'[s]
          /\ \A i, j \in DOMAIN routed'[s] : i < j => routed'[s][i] < routed'[s][j]
  BY <1>2 DEF Ordered
<1>9. ASSUME NEW s \in Streams
      PROVE  /\ \A i \in DOMAIN routed'[s] :
                  /\ routed'[s][i] <= written'
                  /\ \A j \in DOMAIN outbound' : routed'[s][i] < outbound'[j].number
             /\ ~isClosed' => routed'[s] = delivered'[s] \o queue'[s]
             /\ \A i, j \in DOMAIN routed'[s] : i < j => routed'[s][i] < routed'[s][j]
  BY <1>7, <1>8
<1> QED BY <1>5, <1>6, <1>9, Zenon DEF Ordered

LEMMA Concatenations ==
    ASSUME NEW a \in Seq(Nat), NEW b \in Seq(Nat), NEW c \in Seq(Nat)
    PROVE  (a \o b) \o c = a \o (b \o c)
BY ConcatAssociative, SMTT(30)

LEMMA RouterTakesOrdered ==
    ASSUME TypeOK, Ordered, RouterTakes
    PROVE  Ordered'
<1> DEFINE s == RouteFor(Head(outbound))
           n == Head(outbound).number
<1>1. s \in Streams /\ n \in Nat /\ outbound \in Seq(Messages) /\ outbound # <<>>
  BY RouterTakesFacts DEF Messages, TypeOK, RouterTakes
<1>2. /\ outbound' = Tail(outbound) /\ ~isClosed
      /\ queue' = [queue EXCEPT ![s] = Append(@, n)]
      /\ routed' = [routed EXCEPT ![s] = Append(@, n)]
      /\ UNCHANGED <<written, delivered, isClosed>>
  BY DEF RouterTakes, MayRoute, flagVars
<1>3. /\ n = outbound[1].number
      /\ Len(outbound) \in Nat \ {0} /\ DOMAIN outbound = 1 .. Len(outbound)
      /\ DOMAIN outbound' = 1 .. Len(outbound) - 1
      /\ \A i \in DOMAIN outbound' : outbound'[i] = outbound[i + 1]
  BY <1>1, <1>2, HeadTailProperties, LenProperties, EmptySeq
<1>4. /\ queue'[s] = Append(queue[s], n) /\ routed'[s] = Append(routed[s], n)
      /\ \A q \in Streams \ {s} : queue'[q] = queue[q] /\ routed'[q] = routed[q]
  BY <1>1, <1>2 DEF TypeOK
<1> HIDE DEF s, n
<1>5. /\ \A i \in DOMAIN outbound' : outbound'[i].number <= written'
      /\ \A i, j \in DOMAIN outbound' : i < j => outbound'[i].number < outbound'[j].number
  <2>1. \A i \in DOMAIN outbound' : i \in Nat /\ i + 1 \in DOMAIN outbound
    BY <1>3
  <2>2. ASSUME NEW i \in DOMAIN outbound' PROVE outbound'[i].number <= written'
    BY <1>2, <1>3, <2>1 DEF Ordered
  <2>3. ASSUME NEW i \in DOMAIN outbound', NEW j \in DOMAIN outbound', i < j
        PROVE  outbound'[i].number < outbound'[j].number
    <3>1. i + 1 < j + 1
      BY <2>1, <2>3
    <3> QED BY <1>3, <2>1, <3>1 DEF Ordered
  <2> QED BY <2>2, <2>3
<1>6. /\ n <= written
      /\ \A j \in DOMAIN outbound' : n < outbound'[j].number
  BY <1>3 DEF Ordered
<1>7. ASSUME NEW q \in Streams, NEW i \in DOMAIN routed[q]
      PROVE  /\ routed[q][i] <= written /\ routed[q][i] < n
             /\ \A j \in DOMAIN outbound' : routed[q][i] < outbound'[j].number
  <2>1. routed[q][i] <= written /\ \A j \in DOMAIN outbound : routed[q][i] < outbound[j].number
    BY <1>7 DEF Ordered
  <2>2. 1 \in DOMAIN outbound /\ \A j \in DOMAIN outbound' : j + 1 \in DOMAIN outbound
    BY <1>3
  <2> QED BY <1>3, <2>1, <2>2
<1>8. /\ Len(routed[s]) \in Nat /\ DOMAIN routed[s] = 1 .. Len(routed[s])
      /\ DOMAIN routed'[s] = 1 .. Len(routed[s]) + 1
      /\ \A i \in DOMAIN routed[s] : routed'[s][i] = routed[s][i]
      /\ routed'[s][Len(routed[s]) + 1] = n
  <2>1. routed[s] \in Seq(Nat)
    BY <1>1 DEF TypeOK
  <2> QED BY <1>1, <1>4, <2>1, AppendProperties, LenProperties
<1>9. ASSUME NEW q \in Streams
      PROVE  /\ \A i \in DOMAIN routed'[q] :
                  /\ routed'[q][i] <= written'
                  /\ \A j \in DOMAIN outbound' : routed'[q][i] < outbound'[j].number
             /\ \A i, j \in DOMAIN routed'[q] : i < j => routed'[q][i] < routed'[q][j]
  <2>1. CASE q = s
    <3>1. ASSUME NEW i \in DOMAIN routed'[s]
          PROVE  /\ routed'[s][i] <= written'
                 /\ \A j \in DOMAIN outbound' : routed'[s][i] < outbound'[j].number
      BY <1>1, <1>2, <1>6, <1>7, <1>8
    <3>2. ASSUME NEW i \in DOMAIN routed'[s], NEW j \in DOMAIN routed'[s], i < j
          PROVE  routed'[s][i] < routed'[s][j]
      <4>1. i \in DOMAIN routed[s]
        BY <1>8, <3>2
      <4>2. CASE j \in DOMAIN routed[s]
        BY <1>1, <1>8, <3>2, <4>1, <4>2 DEF Ordered
      <4>3. CASE j = Len(routed[s]) + 1
        BY <1>1, <1>7, <1>8, <4>1, <4>3
      <4> QED BY <1>8, <4>2, <4>3
    <3> QED BY <2>1, <3>1, <3>2
  <2>2. CASE q # s
    BY <1>2, <1>4, <1>7, <2>2 DEF Ordered
  <2> QED BY <2>1, <2>2
<1>10. ASSUME NEW q \in Streams PROVE routed'[q] = delivered'[q] \o queue'[q]
  <2>1. routed[q] = delivered[q] \o queue[q]
    BY <1>2 DEF Ordered
  <2>2. delivered[s] \in Seq(Nat) /\ queue[s] \in Seq(Nat)
    BY <1>1 DEF TypeOK
  <2>3. Append(delivered[s] \o queue[s], n) = delivered[s] \o Append(queue[s], n)
    <3>1. <<n>> \in Seq(Nat)
      BY <1>1
    <3>2. (delivered[s] \o queue[s]) \o <<n>> = delivered[s] \o (queue[s] \o <<n>>)
      BY <2>2, <3>1, Concatenations
    <3>3. delivered[s] \o queue[s] \in Seq(Nat)
      BY <2>2, ConcatProperties
    <3> QED BY <1>1, <2>2, <3>2, <3>3, AppendIsConcat
  <2> QED BY <1>2, <1>4, <2>1, <2>3
<1> QED BY <1>5, <1>9, <1>10 DEF Ordered

LEMMA TakeMessageOrdered ==
    ASSUME TypeOK, Ordered, NEW s \in Streams, TakeMessage(s)
    PROVE  Ordered'
<1>1. /\ queue[s] # <<>>
      /\ queue' = [queue EXCEPT ![s] = Tail(@)]
      /\ delivered' = [delivered EXCEPT ![s] = Append(@, Head(queue[s]))]
      /\ UNCHANGED <<outbound, written, routed, isClosed>>
  BY DEF TakeMessage, agentVars, flagVars
<1>2. queue[s] \in Seq(Nat) /\ delivered[s] \in Seq(Nat)
  BY DEF TypeOK
<1>3. Append(delivered[s], Head(queue[s])) \o Tail(queue[s]) = delivered[s] \o queue[s]
  <2>1. queue[s] = <<Head(queue[s])>> \o Tail(queue[s])
        /\ Head(queue[s]) \in Nat /\ Tail(queue[s]) \in Seq(Nat)
    BY <1>1, <1>2, HeadTailProperties
  <2>2. Append(delivered[s], Head(queue[s])) = delivered[s] \o <<Head(queue[s])>>
    BY <1>2, <2>1, AppendIsConcat
  <2>3. <<Head(queue[s])>> \in Seq(Nat)
    BY <2>1
  <2>4. (delivered[s] \o <<Head(queue[s])>>) \o Tail(queue[s])
            = delivered[s] \o (<<Head(queue[s])>> \o Tail(queue[s]))
    BY <1>2, <2>1, <2>3, Concatenations
  <2> QED BY <2>1, <2>2, <2>4
<1>4. ASSUME NEW q \in Streams, ~isClosed' PROVE routed'[q] = delivered'[q] \o queue'[q]
  <2>1. routed[q] = delivered[q] \o queue[q]
    BY <1>1, <1>4 DEF Ordered
  <2>2. CASE q = s
    BY <1>1, <1>3, <2>1, <2>2 DEF TypeOK
  <2>3. CASE q # s
    BY <1>1, <2>1, <2>3 DEF TypeOK
  <2> QED BY <2>2, <2>3
<1>5. ASSUME NEW q \in Streams
      PROVE  /\ \A i \in DOMAIN routed'[q] :
                  /\ routed'[q][i] <= written'
                  /\ \A j \in DOMAIN outbound' : routed'[q][i] < outbound'[j].number
             /\ \A i, j \in DOMAIN routed'[q] : i < j => routed'[q][i] < routed'[q][j]
  BY <1>1 DEF Ordered
<1>6. /\ \A i \in DOMAIN outbound' : outbound'[i].number <= written'
      /\ \A i, j \in DOMAIN outbound' : i < j => outbound'[i].number < outbound'[j].number
  BY <1>1 DEF Ordered
<1> QED BY <1>4, <1>5, <1>6 DEF Ordered

LEMMA OrderedStep ==
    ASSUME TypeOK, Ordered, [Next]_vars
    PROVE  Ordered'
<1> USE DEF agentVars, streamVars, flagVars, inVars, historyVars
<1>1. ASSUME NEW next, Shutdown(next), UNCHANGED <<agentVars, historyVars>> PROVE Ordered'
  BY <1>1, SameStreams DEF Shutdown
<1>2. CASE Delete
  BY <1>1, <1>2, SameStreams DEF Delete
<1>3. CASE Stall \/ RouterFails
  BY <1>1, <1>3 DEF Stall, RouterFails
<1>4. CASE EndOutput
  BY <1>4, SameStreams DEF EndOutput
<1>5. CASE FailOutput
  <2>1. DOMAIN outbound' = {}
    BY <1>5 DEF FailOutput
  <2>2. UNCHANGED <<written, routed, delivered, queue, isClosed>>
    BY <1>5 DEF FailOutput
  <2> QED BY <2>1, <2>2 DEF Ordered
<1>6. CASE RouterResumes \/ RouterEnds
  BY <1>6, SameStreams DEF RouterResumes, RouterEnds
<1>7. ASSUME NEW s \in Streams, OpenStream(s) PROVE Ordered'
  BY <1>7, SameStreams DEF OpenStream
<1>8. ASSUME NEW s \in Streams, ReleaseStream(s) PROVE Ordered'
  <2>1. CASE TooManyWhenLeft(s)
    BY <1>1, <1>8, <2>1 DEF ReleaseStream
  <2>2. CASE ~TooManyWhenLeft(s)
    <3>1. queue' = queue
      BY <1>8, <2>2 DEF ReleaseStream, DeletedWhenLeft, TypeOK
    <3> QED BY <1>8, <2>2, <3>1, SameStreams DEF ReleaseStream
  <2> QED BY <2>1, <2>2
<1>9. ASSUME NEW to \in Streams \cup {TooLong}, AgentSends(to) PROVE Ordered'
  <2>1. [number |-> written + 1, to |-> to, responseTo |-> {}] \in Messages
    BY DEF Messages, TypeOK
  <2> QED BY <1>9, <2>1, AgentWritesOrdered DEF AgentSends
<1>10. ASSUME NEW r \in Requests, NEW to \in {Connection, TooLong}, AgentResponds(r, to)
       PROVE  Ordered'
  <2>1. [number |-> written + 1, to |-> to, responseTo |-> {r}] \in Messages
    BY StreamsFacts DEF Messages, TypeOK
  <2> QED BY <1>10, <2>1, AgentWritesOrdered DEF AgentResponds
<1>11. CASE Unregister \/ AgentCloses \/ UNCHANGED vars
  BY <1>11, SameStreams DEF Unregister, AgentCloses, vars
<1>12. CASE Write \/ AgentReads
  BY <1>12, SameStreams DEF Write, AgentReads, StartWrite, RefuseWrite, WriteFails, WriteStep
<1>13. ASSUME NEW r \in Requests, Post(r) \/ PostResumes(r) \/ PostAborts(r) \/ Forward(r)
       PROVE  Ordered'
  BY <1>13, SameStreams DEF Post, PostResumes, PostAborts, Forward
<1> QED
  BY <1>2, <1>3, <1>4, <1>5, <1>6, <1>7, <1>8, <1>9, <1>10, <1>11, <1>12, <1>13,
     RouterTakesOrdered, TakeMessageOrdered DEF Next, Route

-----------------------------------------------------------------------------
(* The routes of responses.                                                *)

(* Nothing changes for a request whose progress, responses and route stay. *)
LEMMA SameRoutes ==
    ASSUME RoutesKept, UNCHANGED <<outbound, responded, answeredOn>>,
           isClosed' \/ UNCHANGED <<pendingRoutes, isClosed>>,
           \A r \in Requests :
              /\ post'[r] \in {"chained", "writing", "accepted"} =>
                    post[r] \in {"chained", "writing", "accepted"}
              /\ post[r] = "accepted" => post'[r] = "accepted",
           responded \subseteq Requests
    PROVE  RoutesKept'
<1>1. \A r \in responded' : post'[r] = "accepted"
  BY DEF RoutesKept
<1>2. /\ \A i \in DOMAIN outbound' :
            /\ outbound'[i].responseTo \subseteq responded'
            /\ \A q, r \in outbound'[i].responseTo : q = r
      /\ \A i, j \in DOMAIN outbound' :
            i # j => outbound'[i].responseTo \cap outbound'[j].responseTo = {}
  BY DEF RoutesKept
<1>3. ASSUME NEW r \in Requests, ~isClosed', post'[r] \in {"chained", "writing", "accepted"},
             Unanswered(r)'
      PROVE  pendingRoutes'[r] = RouteOf[r]
  <2>1. UNCHANGED <<pendingRoutes, isClosed>>
    BY <1>3
  <2>2. Unanswered(r)
    BY <1>3 DEF Unanswered
  <2> QED BY <1>3, <2>1, <2>2 DEF RoutesKept
<1>4. \A r \in Requests : answeredOn'[r] \in {NoRoute, RouteOf[r]}
  BY DEF RoutesKept
<1> QED BY <1>1, <1>2, <1>3, <1>4 DEF RoutesKept

LEMMA AgentSendsRoutes ==
    ASSUME TypeOK, RoutesKept, NEW to \in Streams \cup {TooLong}, AgentSends(to)
    PROVE  RoutesKept'
<1> DEFINE m == [number |-> written + 1, to |-> to, responseTo |-> {}]
<1>1. outbound \in Seq(Messages) /\ m \in Messages
  BY DEF TypeOK, Messages
<1>2. /\ outbound' = Append(outbound, m) /\ m.responseTo = {}
      /\ UNCHANGED <<responded, post, pendingRoutes, answeredOn, isClosed>>
  BY DEF AgentSends, AgentWrites, flagVars, inVars, historyVars
<1> HIDE DEF m
<1>3. /\ Len(outbound) \in Nat
      /\ DOMAIN outbound = 1 .. Len(outbound) /\ DOMAIN outbound' = 1 .. Len(outbound) + 1
      /\ \A i \in DOMAIN outbound : outbound'[i] = outbound[i]
      /\ outbound'[Len(outbound) + 1] = m
  BY <1>1, <1>2, AppendProperties, LenProperties
<1>4. \A i \in DOMAIN outbound' : \/ (i \in DOMAIN outbound /\ outbound'[i] = outbound[i])
                                 \/ outbound'[i].responseTo = {}
  BY <1>2, <1>3
<1>5. ASSUME NEW i \in DOMAIN outbound'
      PROVE  /\ outbound'[i].responseTo \subseteq responded'
             /\ \A q, r \in outbound'[i].responseTo : q = r
             /\ \A j \in DOMAIN outbound' :
                   i # j => outbound'[i].responseTo \cap outbound'[j].responseTo = {}
  BY <1>2, <1>4 DEF RoutesKept
<1>6. ASSUME NEW r \in Requests PROVE Unanswered(r)' => Unanswered(r)
  BY <1>2, <1>4 DEF Unanswered
<1>7. \A r \in Requests :
          /\ ~isClosed' /\ post'[r] \in {"chained", "writing", "accepted"} /\ Unanswered(r)'
                => pendingRoutes'[r] = RouteOf[r]
          /\ answeredOn'[r] \in {NoRoute, RouteOf[r]}
  BY <1>2, <1>6 DEF RoutesKept
<1>8. \A r \in responded' : post'[r] = "accepted"
  BY <1>2 DEF RoutesKept
<1> QED BY <1>5, <1>7, <1>8 DEF RoutesKept

LEMMA AgentRespondsRoutes ==
    ASSUME TypeOK, RoutesKept, NEW r \in Requests, NEW to \in {Connection, TooLong},
           AgentResponds(r, to)
    PROVE  RoutesKept'
<1> DEFINE m == [number |-> written + 1, to |-> to, responseTo |-> {r}]
<1>1. outbound \in Seq(Messages) /\ m \in Messages
  BY StreamsFacts DEF TypeOK, Messages
<1>2. /\ outbound' = Append(outbound, m) /\ m.responseTo = {r}
      /\ responded' = responded \cup {r} /\ r \notin responded /\ post[r] = "accepted"
      /\ UNCHANGED <<post, pendingRoutes, answeredOn, isClosed>>
  BY DEF AgentResponds, AgentWrites, flagVars, inVars, historyVars
<1> HIDE DEF m
<1>3. /\ Len(outbound) \in Nat
      /\ DOMAIN outbound = 1 .. Len(outbound) /\ DOMAIN outbound' = 1 .. Len(outbound) + 1
      /\ \A i \in DOMAIN outbound : outbound'[i] = outbound[i]
      /\ outbound'[Len(outbound) + 1] = m
  BY <1>1, <1>2, AppendProperties, LenProperties
<1>4. \A i \in DOMAIN outbound' : \/ (i \in DOMAIN outbound /\ outbound'[i] = outbound[i])
                                 \/ (i = Len(outbound) + 1 /\ outbound'[i].responseTo = {r})
  BY <1>2, <1>3
<1>5. \A i \in DOMAIN outbound : r \notin outbound[i].responseTo
  BY <1>2 DEF RoutesKept
<1>6. ASSUME NEW i \in DOMAIN outbound'
      PROVE  /\ outbound'[i].responseTo \subseteq responded'
             /\ \A q, p \in outbound'[i].responseTo : q = p
  BY <1>2, <1>4 DEF RoutesKept
<1>7. ASSUME NEW i \in DOMAIN outbound', NEW j \in DOMAIN outbound', i # j
      PROVE  outbound'[i].responseTo \cap outbound'[j].responseTo = {}
  <2>1. CASE i \in DOMAIN outbound /\ j \in DOMAIN outbound
    BY <1>3, <1>7, <2>1 DEF RoutesKept
  <2>2. CASE i \in DOMAIN outbound /\ j \notin DOMAIN outbound
    BY <1>3, <1>4, <1>5, <2>2
  <2>3. CASE i \notin DOMAIN outbound /\ j \in DOMAIN outbound
    BY <1>3, <1>4, <1>5, <2>3
  <2>4. CASE i \notin DOMAIN outbound /\ j \notin DOMAIN outbound
    BY <1>4, <1>7, <2>4
  <2> QED BY <2>1, <2>2, <2>3, <2>4
<1>8. ASSUME NEW q \in Requests, ~isClosed', post'[q] \in {"chained", "writing", "accepted"},
             Unanswered(q)'
      PROVE  pendingRoutes'[q] = RouteOf[q]
  <2>1. Unanswered(q)
    BY <1>2, <1>4, <1>8 DEF Unanswered
  <2> QED BY <1>2, <1>8, <2>1 DEF RoutesKept
<1>9. \A q \in Requests : answeredOn'[q] \in {NoRoute, RouteOf[q]}
  BY <1>2 DEF RoutesKept
<1>10. \A q \in responded' : post'[q] = "accepted"
  BY <1>2 DEF RoutesKept
<1> QED BY <1>6, <1>7, <1>8, <1>9, <1>10 DEF RoutesKept

LEMMA RouterTakesRoutes ==
    ASSUME TypeOK, RoutesKept, RouterTakes
    PROVE  RoutesKept'
<1> DEFINE m == Head(outbound)
           s == RouteFor(m)
<1>1. outbound \in Seq(Messages) /\ outbound # <<>> /\ m \in Messages /\ s \in Streams
  BY RouterTakesFacts DEF TypeOK, RouterTakes
<1>2. /\ outbound' = Tail(outbound) /\ ~isClosed /\ s # TooLong
      /\ pendingRoutes' = [r \in Requests |-> IF r \in m.responseTo THEN NoRoute ELSE pendingRoutes[r]]
      /\ answeredOn' = [r \in Requests |-> IF r \in m.responseTo THEN s ELSE answeredOn[r]]
      /\ UNCHANGED <<responded, post, isClosed>>
  BY DEF RouterTakes, MayRoute, Refused, flagVars
<1>3. /\ m = outbound[1]
      /\ Len(outbound) \in Nat \ {0} /\ DOMAIN outbound = 1 .. Len(outbound)
      /\ DOMAIN outbound' = 1 .. Len(outbound) - 1
      /\ \A i \in DOMAIN outbound' : outbound'[i] = outbound[i + 1]
  BY <1>1, <1>2, HeadTailProperties, LenProperties, EmptySeq
<1>4. /\ 1 \in DOMAIN outbound
      /\ \A i \in DOMAIN outbound' : i + 1 \in DOMAIN outbound /\ i + 1 # 1
      /\ \A i, j \in DOMAIN outbound' : i # j => i + 1 # j + 1
  BY <1>3
<1>5. ASSUME NEW r \in m.responseTo PROVE s = RouteOf[r]
  <2>1. r \in Requests /\ r \in responded /\ m.responseTo = {r}
    BY <1>1, <1>3, <1>4 DEF Messages, RoutesKept
  <2>2. pendingRoutes[r] = RouteOf[r]
    BY <1>2, <1>3, <1>4, <2>1 DEF RoutesKept, Unanswered
  <2>3. RouteOf[r] # NoRoute
    BY <2>1, RouteOfAssumption, StreamsFacts
  <2>4. m.to # TooLong
    BY <1>2 DEF RouteFor
  <2>5. (CHOOSE q \in m.responseTo : TRUE) = r
    BY <2>1
  <2> QED BY <2>1, <2>2, <2>3, <2>4, <2>5 DEF RouteFor
<1> HIDE DEF m, s
<1>6. /\ \A i \in DOMAIN outbound' :
            /\ outbound'[i].responseTo \subseteq responded'
            /\ \A q, r \in outbound'[i].responseTo : q = r
      /\ \A i, j \in DOMAIN outbound' :
            i # j => outbound'[i].responseTo \cap outbound'[j].responseTo = {}
  BY <1>2, <1>3, <1>4 DEF RoutesKept
<1>7. ASSUME NEW r \in Requests, post'[r] \in {"chained", "writing", "accepted"}, Unanswered(r)'
      PROVE  pendingRoutes'[r] = RouteOf[r]
  <2>1. r \notin m.responseTo /\ Unanswered(r)
    <3>1. CASE r \notin responded
      BY <1>2, <1>3, <1>4, <3>1 DEF RoutesKept, Unanswered
    <3>2. CASE r \in responded
      <4>1. PICK i \in DOMAIN outbound' : r \in outbound'[i].responseTo
        BY <1>2, <1>7, <3>2 DEF Unanswered
      <4>2. /\ i + 1 \in DOMAIN outbound /\ i + 1 # 1 /\ 1 \in DOMAIN outbound
            /\ r \in outbound[i + 1].responseTo
        BY <1>3, <1>4, <4>1
      <4> QED BY <1>3, <4>2 DEF RoutesKept, Unanswered
    <3> QED BY <3>1, <3>2
  <2> QED BY <1>2, <1>7, <2>1 DEF RoutesKept
<1>8. \A r \in Requests : answeredOn'[r] \in {NoRoute, RouteOf[r]}
  BY <1>2, <1>5 DEF RoutesKept
<1>9. \A r \in responded' : post'[r] = "accepted"
  BY <1>2 DEF RoutesKept
<1> QED BY <1>6, <1>7, <1>8, <1>9 DEF RoutesKept

LEMMA ForwardRoutes ==
    ASSUME TypeOK, RoutesKept, NEW r \in Requests, Forward(r)
    PROVE  RoutesKept'
<1>1. /\ post[r] = "forward" /\ post' = [post EXCEPT ![r] = "chained"]
      /\ pendingRoutes' = [pendingRoutes EXCEPT ![r] = RouteOf[r]]
      /\ UNCHANGED <<outbound, responded, answeredOn, isClosed>>
  BY DEF Forward, agentVars, flagVars, historyVars
<1>2. ASSUME NEW q \in Requests, ~isClosed', post'[q] \in {"chained", "writing", "accepted"},
             Unanswered(q)'
      PROVE  pendingRoutes'[q] = RouteOf[q]
  <2>1. Unanswered(q)
    BY <1>1, <1>2 DEF Unanswered
  <2>2. CASE q = r
    BY <1>1, <2>2 DEF TypeOK
  <2>3. CASE q # r
    BY <1>1, <1>2, <2>1, <2>3 DEF TypeOK, RoutesKept
  <2> QED BY <2>2, <2>3
<1>3. \A q \in responded' : post'[q] = "accepted"
  BY <1>1 DEF TypeOK, RoutesKept
<1>4. /\ \A i \in DOMAIN outbound' :
            /\ outbound'[i].responseTo \subseteq responded'
            /\ \A q, p \in outbound'[i].responseTo : q = p
      /\ \A i, j \in DOMAIN outbound' :
            i # j => outbound'[i].responseTo \cap outbound'[j].responseTo = {}
      /\ \A q \in Requests : answeredOn'[q] \in {NoRoute, RouteOf[q]}
  BY <1>1 DEF RoutesKept
<1> QED BY <1>2, <1>3, <1>4 DEF RoutesKept

LEMMA RoutesStep ==
    ASSUME TypeOK, RoutesKept, [Next]_vars
    PROVE  RoutesKept'
<1> USE DEF agentVars, streamVars, flagVars, inVars, historyVars
<1>1. responded \subseteq Requests
  BY DEF TypeOK
<1>2. ASSUME UNCHANGED <<outbound, responded, answeredOn>>, post' \in {post, WakePosts},
             isClosed' \/ UNCHANGED <<pendingRoutes, isClosed>>
      PROVE  RoutesKept'
  BY <1>1, <1>2, SameRoutes DEF WakePosts
<1>3. ASSUME NEW r \in Requests, NEW to, UNCHANGED <<outbound, responded, answeredOn>>,
             UNCHANGED <<pendingRoutes, isClosed>>, post' = [post EXCEPT ![r] = to],
             post[r] # "accepted",
             to \in {"chained", "writing", "accepted"} =>
                post[r] \in {"chained", "writing", "accepted"}
      PROVE  RoutesKept'
  <2>1. \A q \in Requests :
          /\ post'[q] \in {"chained", "writing", "accepted"} =>
                post[q] \in {"chained", "writing", "accepted"}
          /\ post[q] = "accepted" => post'[q] = "accepted"
    BY <1>3 DEF TypeOK
  <2> QED BY <1>1, <1>3, <2>1, SameRoutes
<1>4. ASSUME NEW next, Shutdown(next), UNCHANGED <<agentVars, historyVars>> PROVE RoutesKept'
  BY <1>2, <1>4 DEF Shutdown
<1>5. CASE Delete
  BY <1>2, <1>4, <1>5 DEF Delete
<1>6. CASE Stall \/ RouterFails
  BY <1>4, <1>6 DEF Stall, RouterFails
<1>7. CASE EndOutput
  BY <1>2, <1>7 DEF EndOutput, NotifyOutboundProgress
<1>8. CASE FailOutput
  <2>1. /\ DOMAIN outbound' = {} /\ post' = WakePosts
        /\ UNCHANGED <<responded, pendingRoutes, answeredOn, isClosed>>
    BY <1>8 DEF FailOutput, NotifyOutboundProgress
  <2>2. \A r \in Requests : post'[r] \in {"chained", "writing", "accepted"} =>
                               post'[r] = post[r]
    BY <2>1 DEF WakePosts
  <2>3. \A r \in responded' : post'[r] = "accepted"
    BY <1>1, <2>1 DEF WakePosts, RoutesKept
  <2>4. \A r \in Requests :
          /\ ~isClosed' /\ post'[r] \in {"chained", "writing", "accepted"} /\ Unanswered(r)'
                => pendingRoutes'[r] = RouteOf[r]
          /\ answeredOn'[r] \in {NoRoute, RouteOf[r]}
    BY <2>1, <2>2 DEF RoutesKept, Unanswered
  <2> QED BY <2>1, <2>3, <2>4 DEF RoutesKept
<1>9. CASE RouterResumes
  BY <1>2, <1>9 DEF RouterResumes
<1>10. CASE RouterEnds
  BY <1>2, <1>10 DEF RouterEnds
<1>11. ASSUME NEW s \in Streams, OpenStream(s) PROVE RoutesKept'
  BY <1>2, <1>11 DEF OpenStream
<1>12. ASSUME NEW s \in Streams, TakeMessage(s) PROVE RoutesKept'
  BY <1>2, <1>12 DEF TakeMessage, NotifyOutboundProgress
<1>13. ASSUME NEW s \in Streams, ReleaseStream(s) PROVE RoutesKept'
  <2>1. CASE TooManyWhenLeft(s)
    BY <1>4, <1>13, <2>1 DEF ReleaseStream
  <2>2. CASE ~TooManyWhenLeft(s)
    BY <1>2, <1>13, <2>2 DEF ReleaseStream
  <2> QED BY <2>1, <2>2
<1>14. CASE Unregister \/ AgentCloses \/ UNCHANGED vars
  BY <1>2, <1>14 DEF Unregister, AgentCloses, vars
<1>15. ASSUME NEW r \in Requests, Post(r) \/ PostResumes(r) \/ PostAborts(r) PROVE RoutesKept'
  BY <1>3, <1>15 DEF Post, PostResumes, PostAborts
<1>16. ASSUME NEW from \in {"chained", "writing"}, NEW to \in {"writing", "accepted", "rejected"},
              WriteStep(from, to)
       PROVE  RoutesKept'
  <2>1. inboundWriteChain \in Seq(Requests) /\ inboundWriteChain # <<>>
    BY <1>16 DEF WriteStep, TypeOK
  <2>2. Head(inboundWriteChain) \in Requests
    BY <2>1, HeadTailProperties
  <2> QED BY <1>3, <1>16, <2>2 DEF WriteStep
<1>17. CASE Write \/ AgentReads
  BY <1>16, <1>17 DEF Write, AgentReads, StartWrite, RefuseWrite, WriteFails
<1> QED
  BY <1>5, <1>6, <1>7, <1>8, <1>9, <1>10, <1>11, <1>12, <1>13, <1>14, <1>15, <1>17,
     RouterTakesRoutes, ForwardRoutes, AgentSendsRoutes, AgentRespondsRoutes DEF Next, Route

-----------------------------------------------------------------------------
LEMMA InitIInv == Init => IInv
<1> SUFFICES ASSUME Init PROVE IInv
  OBVIOUS
<1>1. /\ [s \in Streams |-> <<>>] \in [Streams -> Seq(Nat)] /\ <<>> \in Seq(Messages)
      /\ <<>> \in Seq(Requests)
  BY EmptySeq
<1>2. TypeOK
  BY <1>1 DEF Init, TypeOK
<1>3. Waiting = {} /\ Unreceived = {}
  BY DEF Init, Waiting, Unreceived
<1>4. Counted /\ OutputIsBounded
  BY <1>3, FS_EmptySet, LimitsAssumption, StreamsFacts DEF Init, Counted, OutputIsBounded,
     Unreceived
<1>5. NoMissedProgress
  BY DEF Init, NoMissedProgress
<1>6. Ordered
  <2>1. <<>> \o <<>> = <<>> /\ DOMAIN <<>> = {}
    OBVIOUS
  <2> QED BY <2>1 DEF Init, Ordered
<1>7. RoutesKept
  BY DEF Init, RoutesKept, Unanswered
<1> QED BY <1>2, <1>4, <1>5, <1>6, <1>7 DEF IInv

(* Each part of the invariant is kept by every action. *)
THEOREM Invariance == Spec => []IInv
<1>1. IInv /\ [Next]_vars => IInv'
  <2> SUFFICES ASSUME IInv, [Next]_vars PROVE IInv'
    OBVIOUS
  <2>1. TypeOK' /\ Buffered'
    BY TypeStep, BufferedStep DEF IInv, Buffered
  <2>2. NoMissedProgress' /\ Ordered' /\ RoutesKept'
    BY ProgressStep, OrderedStep, RoutesStep DEF IInv
  <2> QED BY <2>1, <2>2 DEF IInv, Buffered
<1> QED BY InitIInv, <1>1, PTL DEF Spec

(* A connection keeps its types: the counters are never negative.          *)
THEOREM TypeCorrect == Spec => []TypeOK
<1>1. IInv => TypeOK
  BY DEF IInv
<1> QED BY <1>1, Invariance, PTL

(* Whatever the limits and however many sessions there are, the counters   *)
(* say what is buffered and are within the limits.                         *)
THEOREM BufferedWithinLimits == Spec => []OutputIsBounded
<1>1. IInv => OutputIsBounded
  BY DEF IInv
<1> QED BY <1>1, Invariance, PTL

(* Neither the router nor a request waits for what has happened already.   *)
THEOREM ProgressIsNoticed == Spec => []NoMissedProgress
<1>1. IInv => NoMissedProgress
  BY DEF IInv
<1> QED BY <1>1, Invariance, PTL

(* Each stream carries what was routed to it in the order of writing, and  *)
(* each response goes where its request belongs.                           *)
THEOREM StreamsKeepOrder == Spec => []InOrderPerStream
<1>1. IInv => InOrderPerStream
  <2> SUFFICES ASSUME IInv PROVE InOrderPerStream
    OBVIOUS
  <2>1. \A s \in Streams : DOMAIN routed[s] = 1 .. Len(routed[s])
    BY LenProperties DEF IInv, TypeOK
  <2> QED BY <2>1 DEF IInv, Ordered, RoutesKept, InOrderPerStream
<1> QED BY <1>1, Invariance, PTL

-----------------------------------------------------------------------------
(* What is under way.                                                      *)

UnderWay == {"chained", "writing"}

(* The requests under way to the agent are those of the write chain, once  *)
(* each, of which the first may be being written; and a router that is     *)
(* done has finished the streams.                                          *)
ChainFits ==
    /\ \A i \in DOMAIN inboundWriteChain :
          /\ post[inboundWriteChain[i]] \in UnderWay
          /\ i > 1 => post[inboundWriteChain[i]] = "chained"
          /\ \A j \in DOMAIN inboundWriteChain :
                inboundWriteChain[i] = inboundWriteChain[j] => i = j
    /\ \A r \in Requests : post[r] \in UnderWay =>
          \E i \in DOMAIN inboundWriteChain : inboundWriteChain[i] = r
    /\ router = "done" => hasFinishedRouting

(* What the event loop does of itself, once the agent has gone: `end`      *)
(* finishes its output, the router goes on or, if it waits for a client    *)
(* to read, the time-out passes.                                           *)
RouterIsServed ==
    \/ ~isClosed /\ channel = "open"
    \/ router = "woken"
    \/ router = "reading" /\ (isClosed \/ channel # "open" \/ outbound # <<>>)
    \/ SomebodyWaits /\ ~isClosed

(* When the agent has gone, whoever is not done yet has something to       *)
(* happen that takes nobody else: the registry is told or the router goes  *)
(* on; a POST request that waits is stalled out, and the write chain can   *)
(* refuse its first request, or fail to write it; and a receiver with      *)
(* nothing left to read is told, or the router goes on.                    *)
NoticeIsUnderWay ==
    ~agentOpen =>
        /\ registered => ClosedResolved \/ RouterIsServed
        /\ \A r \in Requests :
              /\ post[r] = "waiting" => ~isClosed
              /\ post[r] \in UnderWay =>
                    inboundWriteChain # <<>> /\ post[Head(inboundWriteChain)] \in UnderWay
        /\ \A s \in receivers : queue[s] = <<>> => hasFinishedRouting \/ RouterIsServed

(* The chain is as it was, and those it is of too.                         *)
LEMMA SameChain ==
    ASSUME TypeOK, ChainFits, UNCHANGED inboundWriteChain,
           \A r \in Requests : post'[r] = post[r] \/ {post[r], post'[r]} \cap UnderWay = {},
           hasFinishedRouting => hasFinishedRouting',
           router' = "done" => router = "done" \/ hasFinishedRouting'
    PROVE  ChainFits'
<1>1. inboundWriteChain \in Seq(Requests)
  BY DEF TypeOK
<1>2. \A i \in DOMAIN inboundWriteChain : inboundWriteChain[i] \in Requests
  BY <1>1, ElementOfSeq, LenProperties
<1>3. \A i \in DOMAIN inboundWriteChain :
         post'[inboundWriteChain[i]] = post[inboundWriteChain[i]]
  BY <1>2 DEF ChainFits
<1>4. \A r \in Requests : post'[r] \in UnderWay => post[r] \in UnderWay
  OBVIOUS
<1> QED BY <1>3, <1>4 DEF ChainFits

LEMMA ForwardChains ==
    ASSUME TypeOK, ChainFits, NEW r \in Requests, Forward(r)
    PROVE  ChainFits'
<1>1. /\ post[r] = "forward" /\ post' = [post EXCEPT ![r] = "chained"]
      /\ inboundWriteChain' = Append(inboundWriteChain, r)
      /\ UNCHANGED <<router, hasFinishedRouting>>
  BY DEF Forward, flagVars
<1>2. /\ post'[r] = "chained" /\ \A q \in Requests \ {r} : post'[q] = post[q]
      /\ inboundWriteChain \in Seq(Requests)
  BY <1>1 DEF TypeOK
<1>3. /\ Len(inboundWriteChain) \in Nat
      /\ DOMAIN inboundWriteChain = 1 .. Len(inboundWriteChain)
      /\ \A i \in 1 .. Len(inboundWriteChain) : inboundWriteChain[i] \in Requests
  BY <1>2, LenProperties, ElementOfSeq
<1>4. \A i \in 1 .. Len(inboundWriteChain) : inboundWriteChain[i] # r
  BY <1>1, <1>3 DEF ChainFits, UnderWay
<1>5. /\ DOMAIN inboundWriteChain' = 1 .. Len(inboundWriteChain) + 1
      /\ inboundWriteChain'[Len(inboundWriteChain) + 1] = r
      /\ \A i \in 1 .. Len(inboundWriteChain) : inboundWriteChain'[i] = inboundWriteChain[i]
  BY <1>1, <1>2, <1>3, AppendProperties, LenProperties
<1>6. ASSUME NEW i \in DOMAIN inboundWriteChain'
      PROVE  /\ post'[inboundWriteChain'[i]] \in UnderWay
             /\ i > 1 => post'[inboundWriteChain'[i]] = "chained"
  <2>1. CASE i \in 1 .. Len(inboundWriteChain)
    BY <1>2, <1>3, <1>4, <1>5, <2>1 DEF ChainFits
  <2>2. CASE i = Len(inboundWriteChain) + 1
    BY <1>2, <1>5, <2>2 DEF UnderWay
  <2> QED BY <1>3, <1>5, <2>1, <2>2
<1>7. ASSUME NEW i \in DOMAIN inboundWriteChain', NEW j \in DOMAIN inboundWriteChain',
             inboundWriteChain'[i] = inboundWriteChain'[j]
      PROVE  i = j
  <2>1. CASE i \in 1 .. Len(inboundWriteChain) /\ j \in 1 .. Len(inboundWriteChain)
    BY <1>3, <1>5, <1>7, <2>1 DEF ChainFits
  <2>2. CASE ~(i \in 1 .. Len(inboundWriteChain) /\ j \in 1 .. Len(inboundWriteChain))
    BY <1>3, <1>4, <1>5, <1>7, <2>2
  <2> QED BY <2>1, <2>2
<1>8. ASSUME NEW q \in Requests, post'[q] \in UnderWay
      PROVE  \E i \in DOMAIN inboundWriteChain' : inboundWriteChain'[i] = q
  <2>1. CASE q = r
    BY <1>3, <1>5, <2>1
  <2>2. CASE q # r
    <3>1. PICK i \in 1 .. Len(inboundWriteChain) : inboundWriteChain[i] = q
      BY <1>2, <1>3, <1>8, <2>2 DEF ChainFits
    <3> QED BY <1>3, <1>5, <3>1
  <2> QED BY <2>1, <2>2
<1> QED BY <1>1, <1>6, <1>7, <1>8 DEF ChainFits

(* The first of the chain is begun, or is done with and leaves the chain.  *)
LEMMA WriteStepChains ==
    ASSUME TypeOK, ChainFits, NEW from \in UnderWay,
           NEW to \in {"writing", "accepted", "rejected"}, WriteStep(from, to)
    PROVE  ChainFits'
<1>1. /\ inboundWriteChain # <<>> /\ inboundWriteChain \in Seq(Requests)
      /\ UNCHANGED <<router, hasFinishedRouting>>
  BY DEF WriteStep, TypeOK, flagVars
<1> DEFINE r == Head(inboundWriteChain)
           n == Len(inboundWriteChain)
<1>2. /\ n \in Nat \ {0} /\ DOMAIN inboundWriteChain = 1 .. n
      /\ r = inboundWriteChain[1] /\ r \in Requests
      /\ \A i \in 1 .. n : inboundWriteChain[i] \in Requests
  BY <1>1, LenProperties, EmptySeq, HeadTailProperties, ElementOfSeq
<1>3. /\ post' = [post EXCEPT ![r] = to]
      /\ inboundWriteChain' = IF to = "writing" THEN inboundWriteChain
                                                ELSE Tail(inboundWriteChain)
  BY DEF WriteStep
<1>4. post'[r] = to /\ \A q \in Requests \ {r} : post'[q] = post[q]
  BY <1>2, <1>3 DEF TypeOK
<1>5. \A i \in 2 .. n : inboundWriteChain[i] # r /\ post'[inboundWriteChain[i]] = "chained"
  <2> SUFFICES ASSUME NEW i \in 2 .. n
               PROVE  inboundWriteChain[i] # r /\ post'[inboundWriteChain[i]] = "chained"
    OBVIOUS
  <2>1. i \in 1 .. n /\ 1 \in 1 .. n /\ i > 1 /\ i # 1
    BY <1>2
  <2>2. inboundWriteChain[i] # r /\ post[inboundWriteChain[i]] = "chained"
    BY <1>2, <2>1 DEF ChainFits
  <2> QED BY <1>2, <1>4, <2>1, <2>2
<1> HIDE DEF r, n
<1>6. CASE to = "writing"
  <2>1. inboundWriteChain' = inboundWriteChain
    BY <1>3, <1>6
  <2>2. ASSUME NEW i \in 1 .. n
        PROVE  /\ post'[inboundWriteChain[i]] \in UnderWay
               /\ i > 1 => post'[inboundWriteChain[i]] = "chained"
    <3>1. i = 1 \/ i \in 2 .. n
      BY <1>2
    <3> QED BY <1>2, <1>4, <1>5, <1>6, <3>1 DEF UnderWay
  <2>3. ASSUME NEW q \in Requests, post'[q] \in UnderWay
        PROVE  \E i \in 1 .. n : inboundWriteChain[i] = q
    <3>1. CASE q = r
      BY <1>2, <3>1
    <3>2. CASE q # r
      BY <1>2, <1>4, <2>3, <3>2 DEF ChainFits
    <3> QED BY <3>1, <3>2
  <2> QED BY <1>1, <1>2, <2>1, <2>2, <2>3 DEF ChainFits
<1>7. CASE to # "writing"
  <2>1. /\ inboundWriteChain' = Tail(inboundWriteChain)
        /\ DOMAIN inboundWriteChain' = 1 .. n - 1
        /\ \A i \in 1 .. n - 1 : inboundWriteChain'[i] = inboundWriteChain[i + 1]
    BY <1>1, <1>2, <1>3, <1>7, HeadTailProperties, LenProperties DEF n
  <2>2. \A i \in 1 .. n - 1 : i + 1 \in 2 .. n /\ i + 1 \in 1 .. n
    BY <1>2
  <2>3. \A i \in 1 .. n - 1 : post'[inboundWriteChain'[i]] = "chained"
    BY <1>5, <2>1, <2>2
  <2>4. ASSUME NEW i \in 1 .. n - 1, NEW j \in 1 .. n - 1,
               inboundWriteChain'[i] = inboundWriteChain'[j]
        PROVE  i = j
    <3>1. inboundWriteChain[i + 1] = inboundWriteChain[j + 1]
      BY <2>1, <2>4
    <3>2. i + 1 = j + 1
      BY <1>2, <2>2, <3>1 DEF ChainFits
    <3> QED BY <1>2, <3>2
  <2>5. ASSUME NEW q \in Requests, post'[q] \in UnderWay
        PROVE  \E i \in 1 .. n - 1 : inboundWriteChain'[i] = q
    <3>1. q # r
      BY <1>4, <1>7, <2>5 DEF UnderWay
    <3>2. PICK i \in 1 .. n : inboundWriteChain[i] = q
      BY <1>2, <1>4, <2>5, <3>1 DEF ChainFits
    <3>3. i # 1
      BY <1>2, <3>1, <3>2
    <3>4. i - 1 \in 1 .. n - 1 /\ (i - 1) + 1 = i
      BY <1>2, <3>3
    <3> QED BY <2>1, <3>2, <3>4
  <2>6. \A i \in DOMAIN inboundWriteChain' :
            /\ post'[inboundWriteChain'[i]] \in UnderWay
            /\ i > 1 => post'[inboundWriteChain'[i]] = "chained"
            /\ \A j \in DOMAIN inboundWriteChain' :
                  inboundWriteChain'[i] = inboundWriteChain'[j] => i = j
    <3>1. \A i \in 1 .. n - 1 : post'[inboundWriteChain'[i]] \in UnderWay
      BY <2>3 DEF UnderWay
    <3>2. DOMAIN inboundWriteChain' = 1 .. n - 1
      BY <2>1
    <3> HIDE DEF n
    <3> QED BY <2>3, <2>4, <3>1, <3>2, Zenon
  <2>7. \A q \in Requests : post'[q] \in UnderWay =>
            \E i \in DOMAIN inboundWriteChain' : inboundWriteChain'[i] = q
    BY <2>1, <2>5, Zenon
  <2>8. router' = "done" => hasFinishedRouting'
    BY <1>1 DEF ChainFits
  <2> QED BY <2>6, <2>7, <2>8, Zenon DEF ChainFits, UnderWay
<1> QED BY <1>6, <1>7

LEMMA ChainStep ==
    ASSUME TypeOK, ChainFits, [Next]_vars
    PROVE  ChainFits'
<1> USE DEF agentVars, streamVars, flagVars, inVars, historyVars
<1>1. ASSUME NEW p, p \in {post, WakePosts}, post' = p, UNCHANGED inboundWriteChain,
             hasFinishedRouting => hasFinishedRouting',
             router' = "done" => router = "done" \/ hasFinishedRouting'
      PROVE  ChainFits'
  <2>1. \A r \in Requests : post'[r] = post[r] \/ {post[r], post'[r]} \cap UnderWay = {}
    BY <1>1 DEF WakePosts, UnderWay
  <2> QED BY <1>1, <2>1, SameChain
<1>2. ASSUME NEW r \in Requests, NEW to, to \notin UnderWay, post[r] \notin UnderWay,
             post' = [post EXCEPT ![r] = to],
             UNCHANGED <<inboundWriteChain, router, hasFinishedRouting>>
      PROVE  ChainFits'
  <2>1. \A q \in Requests : post'[q] = post[q] \/ {post[q], post'[q]} \cap UnderWay = {}
    BY <1>2 DEF TypeOK
  <2> QED BY <1>2, <2>1, SameChain
<1>3. WakeRouter = "done" => router = "done"
  BY DEF WakeRouter
<1>4. ASSUME NEW next, Shutdown(next), next = "done" => router = "done" \/ hasFinishedRouting',
             hasFinishedRouting => hasFinishedRouting', UNCHANGED inboundWriteChain
      PROVE  ChainFits'
  BY <1>1, <1>4 DEF Shutdown
<1>5. CASE Delete
  BY <1>1, <1>3, <1>4, <1>5 DEF Delete
<1>6. CASE Stall
  BY <1>3, <1>4, <1>6 DEF Stall
<1>7. CASE RouterFails
  BY <1>4, <1>7 DEF RouterFails
<1>8. CASE EndOutput \/ FailOutput
  BY <1>1, <1>3, <1>8 DEF EndOutput, FailOutput, NotifyOutboundProgress
<1>9. CASE RouterTakes
  BY <1>1, <1>9 DEF RouterTakes
<1>10. CASE RouterResumes
  BY <1>1, <1>10 DEF RouterResumes
<1>11. CASE RouterEnds
  BY <1>1, <1>11 DEF RouterEnds
<1>12. ASSUME NEW s \in Streams, OpenStream(s) PROVE ChainFits'
  BY <1>1, <1>12 DEF OpenStream
<1>13. ASSUME NEW s \in Streams, TakeMessage(s) PROVE ChainFits'
  BY <1>1, <1>3, <1>13 DEF TakeMessage, NotifyOutboundProgress
<1>14. ASSUME NEW s \in Streams, ReleaseStream(s) PROVE ChainFits'
  <2>1. CASE TooManyWhenLeft(s)
    BY <1>3, <1>4, <1>14, <2>1 DEF ReleaseStream
  <2>2. CASE ~TooManyWhenLeft(s)
    BY <1>1, <1>14, <2>2 DEF ReleaseStream
  <2> QED BY <2>1, <2>2
<1>15. CASE Unregister \/ AgentCloses \/ UNCHANGED vars
  BY <1>1, <1>15 DEF Unregister, AgentCloses, vars
<1>16. ASSUME NEW r \in Requests, Post(r) \/ PostResumes(r) \/ PostAborts(r) PROVE ChainFits'
  BY <1>2, <1>16 DEF Post, PostResumes, PostAborts, UnderWay
<1>17. CASE Write \/ AgentReads
  BY <1>17, WriteStepChains
     DEF Write, AgentReads, StartWrite, RefuseWrite, WriteFails, UnderWay
<1>18. CASE \E to \in Streams \cup {TooLong} : AgentSends(to)
  BY <1>1, <1>18 DEF AgentSends, AgentWrites
<1>19. CASE \E r \in Requests, to \in {Connection, TooLong} : AgentResponds(r, to)
  BY <1>1, <1>19 DEF AgentResponds, AgentWrites
<1> QED
  BY <1>5, <1>6, <1>7, <1>8, <1>9, <1>10, <1>11, <1>12, <1>13, <1>14, <1>15, <1>16, <1>17,
     <1>18, <1>19, ForwardChains DEF Next, Route

(* However the agent's end meets requests under way, a full buffer,        *)
(* streams that come and go and a router that waits: nothing of the        *)
(* connection is left that only a client or the agent could set going      *)
(* again.  The safety part of AgentGoneIsNoticed, for any sessions,        *)
(* requests and limits.                                                    *)
THEOREM NothingIsHeldUp == Spec => []NoticeIsUnderWay
<1>1. Init => ChainFits
  BY DEF Init, ChainFits, UnderWay
<1>2. IInv /\ ChainFits /\ [Next]_vars => ChainFits'
  BY ChainStep DEF IInv
<1>3. IInv /\ ChainFits => NoticeIsUnderWay
  <2> SUFFICES ASSUME IInv, ChainFits PROVE NoticeIsUnderWay
    OBVIOUS
  <2>1. hasFinishedRouting \/ isClosed \/ RouterIsServed
    BY DEF IInv, TypeOK, ChainFits, RouterIsServed, SomebodyWaits
  <2>2. registered => ClosedResolved \/ RouterIsServed
    BY <2>1 DEF ClosedResolved
  <2>3. \A s \in receivers : queue[s] = <<>> => hasFinishedRouting \/ RouterIsServed
    BY <2>1 DEF IInv, OutputIsBounded
  <2>4. \A r \in Requests : post[r] = "waiting" => ~isClosed
    BY DEF IInv, NoMissedProgress
  <2>5. ASSUME NEW r \in Requests, post[r] \in UnderWay
        PROVE  inboundWriteChain # <<>> /\ post[Head(inboundWriteChain)] \in UnderWay
    <3>1. inboundWriteChain \in Seq(Requests)
      BY DEF IInv, TypeOK
    <3>2. PICK i \in DOMAIN inboundWriteChain : inboundWriteChain[i] = r
      BY <2>5 DEF ChainFits
    <3>3. inboundWriteChain # <<>>
      BY <3>2
    <3>4. 1 \in DOMAIN inboundWriteChain /\ Head(inboundWriteChain) = inboundWriteChain[1]
      BY <3>1, <3>3, LenProperties, EmptySeq, HeadTailProperties
    <3> QED BY <3>3, <3>4 DEF ChainFits
  <2> QED BY <2>2, <2>3, <2>4, <2>5 DEF NoticeIsUnderWay
<1> QED BY <1>1, <1>2, <1>3, Invariance, PTL DEF Spec
=============================================================================
