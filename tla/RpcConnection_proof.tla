------------------------ MODULE RpcConnection_proof ------------------------
(***************************************************************************)
(* Proofs about RpcConnection for any number of requests: that no request  *)
(* is left hanging, that a caller gets the answer its callee gave, that    *)
(* two connections implement RpcCalls, that the two ends agree about each  *)
(* request, and that nothing is lost between them.                         *)
(*                                                                         *)
(* What ties a caller to its callee are the messages under way, so the     *)
(* inductive invariant speaks of InFlight: a request is under way at most  *)
(* once and has not been received, and a response carries what the         *)
(* responder was used with.                                                *)
(***************************************************************************)
EXTENDS RpcConnection, SequenceTheorems, TLAPS

(* Of the messages F from one peer: `mine` are that peer's responders,     *)
(* `theirs` those of the peer F is on its way to.                          *)
FlowOK(F, next, mine, theirs) ==
    /\ \A i \in 1 .. Len(F) : F[i].kind = "request" =>
          F[i].id < next /\ theirs[F[i].id] = "none"
    /\ \A i \in 1 .. Len(F) : F[i].kind = "response" =>
          F[i].result \in Results /\ mine[F[i].id] = F[i].result
    /\ \A i, j \in 1 .. Len(F) :
          F[i].kind = "request" /\ F[j].kind = "request" /\ F[i].id = F[j].id => i = j

Flow == \A p \in Peers :
            FlowOK(InFlight(p), nextRequestId[p], responder[p], responder[Other(p)])

(* A write under way is the write of a message. *)
WritesHaveHeads == \A p \in Peers : writing[p] # "idle" => writeQueue[p] # <<>>

(* What is known of ids: those below nextRequestId have been used, and     *)
(* only requests that were issued can have been received.                  *)
IdsAreIssuedInOrder ==
    \A p \in Peers, id \in Ids :
        /\ promise[p][id] = "none" <=> id >= nextRequestId[p]
        /\ id >= nextRequestId[p] => responder[Other(p)][id] = "none"

IInv ==
    /\ TypeOK
    /\ WritesHaveHeads
    /\ IdsAreIssuedInOrder
    /\ Flow
    /\ PendingIsTracked
    /\ AnswersAreAuthentic

-----------------------------------------------------------------------------
(* Peers and messages.                                                     *)

LEMMA OtherPeer ==
    \A p \in Peers : Other(p) \in Peers /\ Other(p) # p /\ Other(Other(p)) = p
                     /\ \A q \in Peers : q = p \/ q = Other(p)
BY PeersAssumption DEF Peers, Other

LEMMA MessageTypes ==
    ASSUME NEW id \in Ids
    PROVE  /\ Request(id) \in Messages /\ Cancel(id) \in Messages
           /\ \A r \in Results : Response(id, r) \in Messages
BY DEF Request, Cancel, Response, Messages

LEMMA FlightType ==
    ASSUME TypeOK, WritesHaveHeads, NEW p \in Peers
    PROVE  Unwritten(p) \in Seq(Messages) /\ InFlight(p) \in Seq(Messages)
<1>1. writeQueue[p] \in Seq(Messages) /\ wire[p] \in Seq(Messages)
  BY DEF TypeOK
<1>2. Unwritten(p) \in Seq(Messages)
  BY <1>1, HeadTailProperties DEF Unwritten, WritesHaveHeads
<1> QED BY <1>1, <1>2, ConcatProperties DEF InFlight

-----------------------------------------------------------------------------
(* FlowOK survives what happens to the messages under way.                 *)

LEMMA FlowPrefix ==
    ASSUME NEW F \in Seq(Messages), NEW G \in Seq(Messages), NEW next, NEW mine, NEW theirs,
           FlowOK(F, next, mine, theirs),
           Len(G) <= Len(F), \A i \in 1 .. Len(G) : G[i] = F[i]
    PROVE  FlowOK(G, next, mine, theirs)
<1>1. \A i \in 1 .. Len(G) : i \in 1 .. Len(F)
  OBVIOUS
<1> QED BY <1>1 DEF FlowOK

LEMMA FlowTail ==
    ASSUME NEW F \in Seq(Messages), F # <<>>, NEW next, NEW mine, NEW theirs,
           FlowOK(F, next, mine, theirs)
    PROVE  /\ FlowOK(Tail(F), next, mine, theirs)
           /\ Head(F).kind = "request" =>
                 /\ Head(F).id < next /\ theirs[Head(F).id] = "none"
                 /\ \A i \in 1 .. Len(Tail(F)) : Tail(F)[i].kind = "request" =>
                        Tail(F)[i].id # Head(F).id
           /\ Head(F).kind = "response" =>
                 Head(F).result \in Results /\ mine[Head(F).id] = Head(F).result
<1>1. /\ Len(F) \in Nat \ {0} /\ Head(F) = F[1] /\ 1 \in 1 .. Len(F)
      /\ Tail(F) \in Seq(Messages)
      /\ \A i \in 1 .. Len(Tail(F)) : i + 1 \in 1 .. Len(F) /\ Tail(F)[i] = F[i + 1]
                                      /\ i + 1 # 1
      /\ \A i, j \in 1 .. Len(Tail(F)) : i + 1 = j + 1 => i = j
  BY HeadTailProperties
<1> QED BY <1>1 DEF FlowOK

LEMMA FlowConcat ==
    ASSUME NEW F \in Seq(Messages), NEW M \in Seq(Messages), NEW next, NEW mine, NEW theirs,
           FlowOK(F, next, mine, theirs), FlowOK(M, next, mine, theirs),
           \A i \in 1 .. Len(F), j \in 1 .. Len(M) :
               F[i].kind = "request" /\ M[j].kind = "request" => F[i].id # M[j].id
    PROVE  FlowOK(F \o M, next, mine, theirs)
<1> DEFINE G == F \o M
<1>1. /\ G \in Seq(Messages) /\ Len(F) \in Nat /\ Len(M) \in Nat
      /\ \A i \in 1 .. Len(G) :
            \/ i \in 1 .. Len(F) /\ G[i] = F[i]
            \/ i - Len(F) \in 1 .. Len(M) /\ G[i] = M[i - Len(F)]
  BY ConcatProperties
<1>2. ASSUME NEW i \in 1 .. Len(G), NEW j \in 1 .. Len(G),
             G[i].kind = "request", G[j].kind = "request", G[i].id = G[j].id
      PROVE  i = j
  <2>1. CASE i \in 1 .. Len(F) /\ G[i] = F[i] /\ j \in 1 .. Len(F) /\ G[j] = F[j]
    BY <1>2, <2>1 DEF FlowOK
  <2>2. CASE /\ i - Len(F) \in 1 .. Len(M) /\ G[i] = M[i - Len(F)]
             /\ j - Len(F) \in 1 .. Len(M) /\ G[j] = M[j - Len(F)]
    <3>1. i - Len(F) = j - Len(F)
      BY <1>2, <2>2 DEF FlowOK
    <3> QED BY <3>1, <1>1
  <2>3. CASE i \in 1 .. Len(F) /\ G[i] = F[i] /\ j - Len(F) \in 1 .. Len(M) /\ G[j] = M[j - Len(F)]
    BY <1>2, <2>3
  <2>4. CASE j \in 1 .. Len(F) /\ G[j] = F[j] /\ i - Len(F) \in 1 .. Len(M) /\ G[i] = M[i - Len(F)]
    BY <1>2, <2>4
  <2> QED BY <1>1, <2>1, <2>2, <2>3, <2>4
<1>3. \A i \in 1 .. Len(G) : G[i].kind = "request" =>
          G[i].id < next /\ theirs[G[i].id] = "none"
  BY <1>1 DEF FlowOK
<1>4. \A i \in 1 .. Len(G) : G[i].kind = "response" =>
          G[i].result \in Results /\ mine[G[i].id] = G[i].result
  BY <1>1 DEF FlowOK
<1> QED BY <1>2, <1>3, <1>4 DEF FlowOK

(* Ids are issued in increasing order, an answer is never revised, and a   *)
(* responder is created only by the receipt of its request.                *)
LEMMA FlowFrame ==
    ASSUME NEW F \in Seq(Messages), NEW next \in Nat, NEW mine, NEW theirs,
           FlowOK(F, next, mine, theirs),
           NEW next2 \in Nat, next <= next2, NEW mine2, NEW theirs2,
           \A id \in Ids : mine[id] \in Results => mine2[id] = mine[id],
           \A i \in 1 .. Len(F) : F[i].kind = "request" => theirs2[F[i].id] = "none"
    PROVE  FlowOK(F, next2, mine2, theirs2)
<1>1. \A i \in 1 .. Len(F) : F[i] \in Messages
  OBVIOUS
<1>2. \A m \in Messages : m.id \in Ids /\ m.id \in Int
  BY IdBoundAssumption DEF Messages, Ids
<1>3. \A i \in 1 .. Len(F) : F[i].kind = "request" => F[i].id < next2
  BY <1>1, <1>2 DEF FlowOK
<1>4. \A i \in 1 .. Len(F) : F[i].kind = "response" =>
          F[i].result \in Results /\ mine2[F[i].id] = F[i].result
  <2>1. SUFFICES ASSUME NEW i \in 1 .. Len(F), F[i].kind = "response"
                 PROVE  F[i].result \in Results /\ mine2[F[i].id] = F[i].result
    OBVIOUS
  <2>2. F[i].result \in Results /\ mine[F[i].id] = F[i].result BY <2>1 DEF FlowOK
  <2>3. F[i].id \in Ids BY <1>1, <1>2
  <2> QED BY <2>2, <2>3
<1>5. \A i, j \in 1 .. Len(F) :
          F[i].kind = "request" /\ F[j].kind = "request" /\ F[i].id = F[j].id => i = j
  BY DEF FlowOK
<1>6. \A i \in 1 .. Len(F) : F[i].kind = "request" => theirs2[F[i].id] = "none"
  OBVIOUS
<1> QED BY <1>3, <1>4, <1>5, <1>6 DEF FlowOK

-----------------------------------------------------------------------------
(* What each step does to the messages under way.                          *)

LEMMA Associative ==
    ASSUME NEW s \in Seq(Messages), NEW t \in Seq(Messages), NEW u \in Seq(Messages)
    PROVE  s \o (t \o u) = (s \o t) \o u
BY ConcatAssociative, SMTT(20)

LEMMA HeadTailOfConcat ==
    ASSUME NEW s \in Seq(Messages), NEW t \in Seq(Messages), s # <<>>
    PROVE  s \o t # <<>> /\ Head(s \o t) = Head(s) /\ Tail(s \o t) = Tail(s) \o t
<1>1. /\ Head(s) \in Messages /\ Tail(s) \in Seq(Messages) /\ <<Head(s)>> \in Seq(Messages)
      /\ s = <<Head(s)>> \o Tail(s)
  OBVIOUS
<1>2. s \o t = <<Head(s)>> \o (Tail(s) \o t)
  BY <1>1, ConcatAssociative
<1>3. \A x \in Messages, u \in Seq(Messages) :
          <<x>> \o u # <<>> /\ Head(<<x>> \o u) = x /\ Tail(<<x>> \o u) = u
  OBVIOUS
<1>4. Tail(s) \o t \in Seq(Messages)
  BY <1>1, ConcatProperties
<1> QED BY <1>1, <1>2, <1>3, <1>4

(* A message that enters the write chain comes last. *)
LEMMA FlightOfSend ==
    ASSUME TypeOK, WritesHaveHeads, NEW p \in Peers, NEW M \in Seq(Messages),
           writeQueue' = [writeQueue EXCEPT ![p] = @ \o M],
           UNCHANGED <<writing, wire>>
    PROVE  /\ InFlight(p)' = InFlight(p) \o M
           /\ \A q \in Peers \ {p} : InFlight(q)' = InFlight(q)
           /\ writeQueue'[p] \in Seq(Messages)
           /\ WritesHaveHeads'
<1>1. writeQueue[p] \in Seq(Messages) /\ wire[p] \in Seq(Messages)
  BY DEF TypeOK
<1>2. writeQueue'[p] = writeQueue[p] \o M
  BY DEF TypeOK
<1>3. Unwritten(p)' = Unwritten(p) \o M
  <2>1. CASE writing[p] = "landed"
    <3>1. writeQueue[p] # <<>>
      BY <2>1 DEF WritesHaveHeads
    <3>2. Tail(writeQueue[p] \o M) = Tail(writeQueue[p]) \o M
      BY <1>1, <3>1, HeadTailOfConcat
    <3> QED BY <2>1, <3>2, <1>2 DEF Unwritten
  <2>2. CASE writing[p] # "landed"
    BY <2>2, <1>2 DEF Unwritten
  <2> QED BY <2>1, <2>2
<1>4. InFlight(p)' = InFlight(p) \o M
  <2>1. Unwritten(p) \in Seq(Messages)
    BY FlightType
  <2>2. wire[p] \o (Unwritten(p) \o M) = (wire[p] \o Unwritten(p)) \o M
    BY <1>1, <2>1, Associative
  <2>3. InFlight(p)' = wire[p] \o (Unwritten(p)')
    BY Zenon DEF InFlight
  <2>4. InFlight(p) = wire[p] \o Unwritten(p)
    BY DEF InFlight
  <2> QED BY Zenon, <1>3, <2>2, <2>3, <2>4
<1>5. \A q \in Peers \ {p} : InFlight(q)' = InFlight(q)
  BY DEF InFlight, Unwritten, TypeOK
<1>6. WritesHaveHeads'
  <2>1. ASSUME NEW q \in Peers, writing'[q] # "idle" PROVE writeQueue'[q] # <<>>
    <3>1. CASE q = p
      BY <2>1, <3>1, <1>1, <1>2, ConcatEqualIffEmpty DEF WritesHaveHeads
    <3>2. CASE q # p
      BY <2>1, <3>2 DEF WritesHaveHeads, TypeOK
    <3> QED BY <3>1, <3>2
  <2> QED BY <2>1 DEF WritesHaveHeads
<1> QED BY <1>1, <1>2, <1>4, <1>5, <1>6, ConcatProperties

(* Moving the head of the chain to the wire changes nothing. *)
LEMMA FlightOfLand ==
    ASSUME TypeOK, WritesHaveHeads, NEW p \in Peers, LandWrite(p)
    PROVE  \A q \in Peers : InFlight(q)' = InFlight(q)
<1>1. /\ writeQueue[p] \in Seq(Messages) /\ wire[p] \in Seq(Messages)
      /\ writeQueue[p] # <<>>
  BY DEF TypeOK, WritesHaveHeads, LandWrite
<1>2. InFlight(p)' = Append(wire[p], Head(writeQueue[p])) \o Tail(writeQueue[p])
  BY DEF LandWrite, TypeOK, InFlight, Unwritten
<1>3. InFlight(p) = wire[p] \o writeQueue[p]
  BY DEF LandWrite, InFlight, Unwritten
<1>4. \A s, t \in Seq(Messages) : t # <<>> => Append(s, Head(t)) \o Tail(t) = s \o t
  <2> SUFFICES ASSUME NEW s \in Seq(Messages), NEW t \in Seq(Messages), t # <<>>
               PROVE  Append(s, Head(t)) \o Tail(t) = s \o t
    OBVIOUS
  <2>1. /\ Head(t) \in Messages /\ Tail(t) \in Seq(Messages) /\ <<Head(t)>> \in Seq(Messages)
        /\ t = <<Head(t)>> \o Tail(t)
    OBVIOUS
  <2>2. Append(s, Head(t)) = s \o <<Head(t)>>
    BY <2>1, AppendIsConcat
  <2> QED BY <2>1, <2>2, ConcatAssociative
<1>5. \A q \in Peers \ {p} : InFlight(q)' = InFlight(q)
  BY DEF LandWrite, TypeOK, InFlight, Unwritten
<1> QED BY <1>1, <1>2, <1>3, <1>4, <1>5

(* Nor does the settling of a write that has landed. *)
LEMMA FlightOfFinish ==
    ASSUME TypeOK, NEW p \in Peers, FinishWrite(p)
    PROVE  \A q \in Peers : InFlight(q)' = InFlight(q)
BY DEF FinishWrite, TypeOK, InFlight, Unwritten

(* A chain that rejects leaves what the transport has taken. *)
LEMMA FlightOfReject ==
    ASSUME TypeOK, WritesHaveHeads, NEW p \in Peers,
           writeQueue' = [writeQueue EXCEPT ![p] = <<>>],
           writing' = [writing EXCEPT ![p] = "idle"],
           UNCHANGED wire
    PROVE  \A q \in Peers :
              /\ InFlight(q)' \in Seq(Messages)
              /\ Len(InFlight(q)') <= Len(InFlight(q))
              /\ \A i \in 1 .. Len(InFlight(q)') : InFlight(q)'[i] = InFlight(q)[i]
<1> SUFFICES ASSUME NEW q \in Peers
             PROVE  /\ InFlight(q)' \in Seq(Messages)
                    /\ Len(InFlight(q)') <= Len(InFlight(q))
                    /\ \A i \in 1 .. Len(InFlight(q)') : InFlight(q)'[i] = InFlight(q)[i]
  OBVIOUS
<1>1. CASE q # p
  <2>1. InFlight(q)' = InFlight(q)
    BY <1>1 DEF TypeOK, InFlight, Unwritten
  <2> QED BY <2>1, FlightType
<1>2. CASE q = p
  <2>1. wire[q] \in Seq(Messages) /\ Unwritten(q) \in Seq(Messages)
    BY FlightType DEF TypeOK
  <2>2. InFlight(q)' = wire[q] \o <<>>
    BY <1>2 DEF TypeOK, InFlight, Unwritten
  <2>3. InFlight(q)' = wire[q]
    BY <2>1, <2>2, ConcatEmptySeq
  <2> QED BY <2>1, <2>3, ConcatProperties DEF InFlight
<1> QED BY <1>1, <1>2

(* Reading takes the oldest message. *)
LEMMA FlightOfRead ==
    ASSUME TypeOK, WritesHaveHeads, NEW p \in Peers, NEW kind, Read(p, kind),
           UNCHANGED <<writeQueue, writing>>
    PROVE  /\ InFlight(Other(p)) # <<>>
           /\ Head(InFlight(Other(p))) = Head(wire[Other(p)])
           /\ Head(wire[Other(p)]) \in Messages
           /\ InFlight(Other(p))' = Tail(InFlight(Other(p)))
           /\ InFlight(p)' = InFlight(p)
<1> DEFINE q == Other(p)
<1>1. q \in Peers /\ q # p
  BY OtherPeer
<1>2. wire[q] \in Seq(Messages) /\ wire[q] # <<>> /\ Unwritten(q) \in Seq(Messages)
  BY <1>1, FlightType DEF TypeOK, Read
<1>3. InFlight(q)' = Tail(wire[q]) \o Unwritten(q)
  BY <1>1 DEF Read, TypeOK, InFlight, Unwritten
<1>5. InFlight(p)' = InFlight(p)
  BY <1>1 DEF Read, TypeOK, InFlight, Unwritten
<1>6. InFlight(q) = wire[q] \o Unwritten(q)
  BY DEF InFlight
<1>7. /\ InFlight(q) # <<>> /\ Head(InFlight(q)) = Head(wire[q])
      /\ Tail(InFlight(q)) = Tail(wire[q]) \o Unwritten(q)
  BY <1>2, <1>6, HeadTailOfConcat
<1>8. Head(wire[q]) \in Messages
  BY <1>2
<1> QED BY <1>3, <1>5, <1>7, <1>8

-----------------------------------------------------------------------------
(* Types.                                                                  *)

LEMMA SettleType ==
    ASSUME NEW f \in [Ids -> {"none", "pending", "closed"} \cup Results], NEW ids,
           NEW value \in {"closed"} \cup Results
    PROVE  /\ Settle(f, ids, value) \in [Ids -> {"none", "pending", "closed"} \cup Results]
           /\ \A id \in Ids :
                 Settle(f, ids, value)[id] =
                     IF id \in ids /\ f[id] = "pending" THEN value ELSE f[id]
BY DEF Settle

LEMMA CloseType ==
    ASSUME TypeOK, NEW p \in Peers, CloseEffects(p)
    PROVE  /\ aborted' \in [Peers -> BOOLEAN]
           /\ promise' \in [Peers -> [Ids -> {"none", "pending", "closed"} \cup Results]]
           /\ pendingResponses' \in [Peers -> SUBSET Ids]
           /\ listeners' \in [Peers -> SUBSET Ids]
           /\ controller' \in [Peers -> [Ids -> {"none", "live", "aborted"}]]
           /\ incomingRequests' \in [Peers -> SUBSET Ids]
<1>1. promise' \in [Peers -> [Ids -> {"none", "pending", "closed"} \cup Results]]
  BY SettleType DEF TypeOK, CloseEffects
<1>2. controller' \in [Peers -> [Ids -> {"none", "live", "aborted"}]]
  BY DEF TypeOK, CloseEffects
<1>3. aborted' \in [Peers -> BOOLEAN]
  BY DEF TypeOK, CloseEffects
<1>4. /\ pendingResponses' \in [Peers -> SUBSET Ids]
      /\ listeners' \in [Peers -> SUBSET Ids]
      /\ incomingRequests' \in [Peers -> SUBSET Ids]
  BY DEF TypeOK, CloseEffects, Cleanup
<1> QED BY <1>1, <1>2, <1>3, <1>4

LEMMA EnqueueType ==
    ASSUME TypeOK, NEW p \in Peers, NEW M \in Seq(Messages), Enqueue(p, M)
    PROVE  writeQueue' \in [Peers -> Seq(Messages)]
<1>1. writeQueue[p] \o M \in Seq(Messages)
  BY ConcatProperties DEF TypeOK
<1> QED BY <1>1 DEF Enqueue, TypeOK

LEMMA ReadType ==
    ASSUME TypeOK, NEW p \in Peers, NEW kind, Read(p, kind)
    PROVE  /\ Head(wire[Other(p)]) \in Messages
           /\ Head(wire[Other(p)]).id \in Ids
           /\ wire' \in [Peers -> Seq(Messages)]
<1>1. Other(p) \in Peers /\ wire[Other(p)] \in Seq(Messages) /\ wire[Other(p)] # <<>>
  BY OtherPeer DEF TypeOK, Read
<1>2. Head(wire[Other(p)]) \in Messages /\ Tail(wire[Other(p)]) \in Seq(Messages)
  BY <1>1, HeadTailProperties
<1> QED BY <1>1, <1>2 DEF Read, TypeOK, Messages

(* In the initial state nothing has happened. *)
LEMMA InitImpliesIInv == Init => IInv
<1> SUFFICES ASSUME Init PROVE IInv
  OBVIOUS
<1>1. TypeOK
  <2>1. <<>> \in Seq(Messages) /\ 0 \in 0 .. IdBound
    BY IdBoundAssumption
  <2> QED BY <2>1 DEF Init, TypeOK
<1>2. WritesHaveHeads
  BY DEF Init, WritesHaveHeads
<1>3. IdsAreIssuedInOrder
  BY IdBoundAssumption, OtherPeer DEF Init, IdsAreIssuedInOrder, Ids
<1>4. Flow
  <2>1. ASSUME NEW p \in Peers PROVE InFlight(p) = <<>>
    BY DEF Init, InFlight, Unwritten
  <2> QED BY <2>1 DEF Flow, FlowOK
<1>5. PendingIsTracked /\ AnswersAreAuthentic
  BY DEF Init, PendingIsTracked, AnswersAreAuthentic, Results
<1> QED BY <1>1, <1>2, <1>3, <1>4, <1>5 DEF IInv

-----------------------------------------------------------------------------
(* The steps.                                                              *)

(* A step that touches neither the caller's side nor the responders has    *)
(* only the messages under way to answer for.                              *)
LEMMA QuietStep ==
    ASSUME IInv, TypeOK', WritesHaveHeads',
           UNCHANGED <<aborted, nextRequestId, pendingResponses, promise, responder>>,
           \A p \in Peers :
               FlowOK(InFlight(p)', nextRequestId[p], responder[p], responder[Other(p)])
    PROVE  IInv'
<1>1. IdsAreIssuedInOrder' /\ PendingIsTracked' /\ AnswersAreAuthentic'
  BY DEF IInv, IdsAreIssuedInOrder, PendingIsTracked, AnswersAreAuthentic
<1>2. Flow'
  BY DEF Flow
<1> QED BY <1>1, <1>2 DEF IInv

LEMMA StartWriteStep == ASSUME IInv, NEW p \in Peers, StartWrite(p) PROVE IInv'
<1>1. TypeOK' /\ WritesHaveHeads'
  BY DEF IInv, StartWrite, TypeOK, WritesHaveHeads, callerVars, calleeVars
<1>2. \A q \in Peers : InFlight(q)' = InFlight(q)
  BY DEF IInv, StartWrite, TypeOK, InFlight, Unwritten
<1> QED BY <1>1, <1>2, QuietStep DEF StartWrite, callerVars, calleeVars, IInv, Flow

LEMMA LandWriteStep == ASSUME IInv, NEW p \in Peers, LandWrite(p) PROVE IInv'
<1>1. WritesHaveHeads'
  BY DEF IInv, LandWrite, TypeOK, WritesHaveHeads
<1>2. TypeOK'
  <2>1. /\ writeQueue[p] \in Seq(Messages) /\ writeQueue[p] # <<>> /\ wire[p] \in Seq(Messages)
    BY DEF IInv, LandWrite, TypeOK, WritesHaveHeads
  <2>2. Append(wire[p], Head(writeQueue[p])) \in Seq(Messages)
    BY <2>1
  <2> QED BY <2>2 DEF IInv, LandWrite, TypeOK, callerVars, calleeVars
<1>3. \A q \in Peers : InFlight(q)' = InFlight(q)
  BY FlightOfLand DEF IInv
<1> QED BY <1>1, <1>2, <1>3, QuietStep DEF LandWrite, callerVars, calleeVars, IInv, Flow

LEMMA FinishWriteStep == ASSUME IInv, NEW p \in Peers, FinishWrite(p) PROVE IInv'
<1>1. WritesHaveHeads'
  BY DEF IInv, FinishWrite, TypeOK, WritesHaveHeads
<1>2. TypeOK'
  <2>1. writeQueue[p] \in Seq(Messages) /\ writeQueue[p] # <<>>
    BY DEF IInv, FinishWrite, TypeOK, WritesHaveHeads
  <2>2. Tail(writeQueue[p]) \in Seq(Messages)
    BY <2>1
  <2>3. incomingRequests' \in [Peers -> SUBSET Ids]
    BY DEF IInv, FinishWrite, FinishRequest, TypeOK
  <2> QED BY <2>2, <2>3 DEF IInv, FinishWrite, TypeOK, callerVars
<1>3. \A q \in Peers : InFlight(q)' = InFlight(q)
  BY FlightOfFinish DEF IInv
<1> QED BY <1>1, <1>2, <1>3, QuietStep DEF FinishWrite, callerVars, IInv, Flow

LEMMA RejectWritesStep == ASSUME IInv, NEW p \in Peers, RejectWrites(p) PROVE IInv'
<1>1. TypeOK' /\ WritesHaveHeads'
  BY DEF IInv, RejectWrites, TypeOK, WritesHaveHeads, callerVars, calleeVars
<1>2. writing' = [writing EXCEPT ![p] = "idle"]
  BY DEF IInv, RejectWrites, TypeOK
<1>3. \A q \in Peers : FlowOK(InFlight(q)', nextRequestId[q], responder[q], responder[Other(q)])
  <2>1. \A q \in Peers : /\ InFlight(q)' \in Seq(Messages)
                         /\ Len(InFlight(q)') <= Len(InFlight(q))
                         /\ \A i \in 1 .. Len(InFlight(q)') : InFlight(q)'[i] = InFlight(q)[i]
    BY <1>2, FlightOfReject DEF IInv, RejectWrites
  <2>2. \A q \in Peers : InFlight(q) \in Seq(Messages)
    BY FlightType DEF IInv
  <2> QED BY <2>1, <2>2, FlowPrefix DEF IInv, Flow
<1> QED BY <1>1, <1>3, QuietStep DEF RejectWrites, callerVars, calleeVars

(* Closing settles exactly what pends. *)
LEMMA CloseStep ==
    ASSUME IInv, NEW p \in Peers, CloseEffects(p), UNCHANGED <<nextRequestId, responder>>
    PROVE  IdsAreIssuedInOrder' /\ PendingIsTracked' /\ AnswersAreAuthentic'
<1>1. /\ promise'[p] = Settle(promise[p], pendingResponses[p], "closed")
      /\ pendingResponses'[p] = {}
      /\ \A q \in Peers \ {p} : /\ promise'[q] = promise[q]
                                /\ pendingResponses'[q] = pendingResponses[q]
                                /\ aborted'[q] = aborted[q]
  BY DEF IInv, TypeOK, CloseEffects
<1>2. \A id \in Ids : promise'[p][id] =
          IF id \in pendingResponses[p] /\ promise[p][id] = "pending" THEN "closed"
          ELSE promise[p][id]
  BY <1>1 DEF Settle
<1>3. IdsAreIssuedInOrder'
  BY <1>1, <1>2 DEF IInv, IdsAreIssuedInOrder
<1>4. PendingIsTracked'
  BY <1>1, <1>2 DEF IInv, PendingIsTracked
<1>5. AnswersAreAuthentic'
  BY <1>1, <1>2 DEF IInv, AnswersAreAuthentic, Results
<1> QED BY <1>3, <1>4, <1>5

LEMMA FailWriteStep == ASSUME IInv, NEW p \in Peers, FailWrite(p) PROVE IInv'
<1>1. WritesHaveHeads'
  BY DEF IInv, FailWrite, TypeOK, WritesHaveHeads
<1>2. TypeOK'
  <2>1. writeQueue' \in [Peers -> Seq(Messages)] /\ writing' \in [Peers -> {"idle", "started", "landed"}]
    BY DEF IInv, FailWrite, TypeOK
  <2>2. CASE aborted[p]
    BY <2>1, <2>2 DEF IInv, FailWrite, TypeOK, callerVars, calleeVars
  <2>3. CASE ~aborted[p]
    BY <2>1, <2>3, CloseType DEF IInv, FailWrite, TypeOK
  <2> QED BY <2>2, <2>3
<1>3. UNCHANGED <<nextRequestId, responder>>
  BY DEF FailWrite, callerVars, calleeVars
<1>4. Flow'
  <2>1. \A q \in Peers : /\ InFlight(q)' \in Seq(Messages)
                         /\ Len(InFlight(q)') <= Len(InFlight(q))
                         /\ \A i \in 1 .. Len(InFlight(q)') : InFlight(q)'[i] = InFlight(q)[i]
    BY FlightOfReject DEF IInv, FailWrite
  <2>2. \A q \in Peers : InFlight(q) \in Seq(Messages)
    BY FlightType DEF IInv
  <2>3. \A q \in Peers : FlowOK(InFlight(q)', nextRequestId[q], responder[q], responder[Other(q)])
    BY <2>1, <2>2, FlowPrefix DEF IInv, Flow
  <2> QED BY <2>3, <1>3 DEF Flow
<1>5. IdsAreIssuedInOrder' /\ PendingIsTracked' /\ AnswersAreAuthentic'
  <2>1. CASE aborted[p]
    BY <2>1 DEF FailWrite, callerVars, calleeVars, IInv, IdsAreIssuedInOrder,
                PendingIsTracked, AnswersAreAuthentic
  <2>2. CASE ~aborted[p]
    BY <2>2, <1>3, CloseStep DEF FailWrite
  <2> QED BY <2>1, <2>2
<1> QED BY <1>1, <1>2, <1>4, <1>5 DEF IInv

LEMMA CloseKeeps == ASSUME IInv, NEW p \in Peers, Close(p) PROVE IInv'
<1>1. TypeOK' /\ WritesHaveHeads'
  BY CloseType DEF IInv, Close, TypeOK, WritesHaveHeads, writeVars
<1>2. \A q \in Peers : InFlight(q)' = InFlight(q)
  BY DEF Close, writeVars, InFlight, Unwritten
<1>3. Flow'
  BY <1>2 DEF IInv, Close, Flow
<1> QED BY <1>1, <1>3, CloseStep DEF IInv, Close

(* What sendRequest enqueues, with the request first. *)
LEMMA SentMessages ==
    ASSUME NEW id \in Ids, NEW mine, NEW theirs, theirs[id] = "none",
           NEW M, M = <<Request(id)>> \/ M = RequestThenCancel(id)
    PROVE  /\ M \in Seq(Messages)
           /\ \A j \in 1 .. Len(M) : M[j].kind = "request" => M[j].id = id
           /\ FlowOK(M, id + 1, mine, theirs)
<1>1. /\ id \in Int /\ Request(id) \in Messages /\ Cancel(id) \in Messages
      /\ Request(id).kind = "request" /\ Request(id).id = id
      /\ Cancel(id).kind = "cancel"
  BY MessageTypes, IdBoundAssumption DEF Ids, Request, Cancel
<1>2. CASE M = <<Request(id)>>
  <2>1. Len(M) = 1 /\ M[1] = Request(id) /\ M \in Seq(Messages)
    BY <1>1, <1>2
  <2> QED BY <1>1, <2>1 DEF FlowOK
<1>3. CASE M = RequestThenCancel(id)
  <2>1. Len(M) = 2 /\ M[1] = Request(id) /\ M[2] = Cancel(id) /\ M \in Seq(Messages)
    BY <1>1, <1>3 DEF RequestThenCancel
  <2>2. \A j \in 1 .. Len(M) : j = 1 \/ j = 2
    BY <2>1
  <2> QED BY <1>1, <2>1, <2>2 DEF FlowOK
<1> QED BY <1>2, <1>3

LEMMA SendRequestStep ==
    ASSUME IInv, NEW p \in Peers, NEW signalAborted \in BOOLEAN, SendRequest(p, signalAborted)
    PROVE  IInv'
<1> DEFINE id == nextRequestId[p]
           M  == IF signalAborted THEN RequestThenCancel(id) ELSE <<Request(id)>>
<1>1. id \in Ids /\ id \in Nat /\ id + 1 \in 0 .. IdBound
  <2>1. id \in 0 .. IdBound /\ MaxRequests[p] \in 0 .. IdBound
    BY MaxRequestsAssumption DEF IInv, TypeOK
  <2>2. id < MaxRequests[p]
    BY DEF SendRequest
  <2> HIDE DEF id
  <2> QED BY <2>1, <2>2, IdBoundAssumption DEF Ids
<1>2. responder[Other(p)][id] = "none"
  BY <1>1 DEF IInv, IdsAreIssuedInOrder
<1>3. /\ M \in Seq(Messages)
      /\ \A j \in 1 .. Len(M) : M[j].kind = "request" => M[j].id = id
      /\ FlowOK(M, id + 1, responder[p], responder[Other(p)])
  <2>1. M = <<Request(id)>> \/ M = RequestThenCancel(id)
    OBVIOUS
  <2> HIDE DEF id, M
  <2> QED BY <1>1, <1>2, <2>1, SentMessages
<1>4. ~aborted[p] /\ UNCHANGED <<aborted, writing, wire, responder>>
      /\ writeQueue' = [writeQueue EXCEPT ![p] = @ \o M]
  BY DEF SendRequest, Enqueue, calleeVars
<1>5. /\ InFlight(p)' = InFlight(p) \o M
      /\ \A q \in Peers \ {p} : InFlight(q)' = InFlight(q)
      /\ WritesHaveHeads'
  BY <1>3, <1>4, FlightOfSend DEF IInv
<1>6. /\ nextRequestId' = [nextRequestId EXCEPT ![p] = id + 1]
      /\ pendingResponses' = [pendingResponses EXCEPT ![p] = @ \cup {id}]
      /\ promise' = [promise EXCEPT ![p][id] = "pending"]
  BY DEF SendRequest
<1>7. TypeOK'
  <2>1. writeQueue' \in [Peers -> Seq(Messages)]
    <3>1. writeQueue[p] \in Seq(Messages)
      BY DEF IInv, TypeOK
    <3>2. writeQueue[p] \o M \in Seq(Messages)
      <4> HIDE DEF M
      <4> QED BY <1>3, <3>1, ConcatProperties
    <3> QED BY <1>4, <3>2 DEF IInv, TypeOK
  <2>2. /\ listeners' \in [Peers -> SUBSET Ids]
        /\ cancellationSent' \in [Peers -> SUBSET Ids]
    <3>1. /\ listeners' = listeners \/ listeners' = [listeners EXCEPT ![p] = @ \cup {id}]
          /\ \/ cancellationSent' = cancellationSent
             \/ cancellationSent' = [cancellationSent EXCEPT ![p] = @ \cup {id}]
      BY DEF SendRequest
    <3>2. \A f \in [Peers -> SUBSET Ids] : [f EXCEPT ![p] = @ \cup {id}] \in [Peers -> SUBSET Ids]
      BY <1>1
    <3>3. listeners \in [Peers -> SUBSET Ids] /\ cancellationSent \in [Peers -> SUBSET Ids]
      BY DEF IInv, TypeOK
    <3> HIDE DEF id
    <3>4. listeners' \in [Peers -> SUBSET Ids]
      BY <3>1, <3>2, <3>3
    <3>5. cancellationSent' \in [Peers -> SUBSET Ids]
      BY <3>1, <3>2, <3>3
    <3> QED BY <3>4, <3>5
  <2>3. /\ nextRequestId' \in [Peers -> 0 .. IdBound]
        /\ pendingResponses' \in [Peers -> SUBSET Ids]
    BY <1>1, <1>6 DEF IInv, TypeOK
  <2>4. promise' \in [Peers -> [Ids -> {"none", "pending", "closed"} \cup Results]]
    BY <1>1, <1>6 DEF IInv, TypeOK
  <2> QED BY <2>1, <2>2, <2>3, <2>4 DEF IInv, TypeOK, SendRequest, calleeVars
<1>8. Flow'
  <2>1. FlowOK(InFlight(p)', id + 1, responder[p], responder[Other(p)])
    <3>1. InFlight(p) \in Seq(Messages) /\ FlowOK(InFlight(p), id, responder[p], responder[Other(p)])
      BY FlightType DEF IInv, Flow
    <3>2. \A i \in 1 .. Len(InFlight(p)) : InFlight(p)[i].kind = "request" =>
             InFlight(p)[i].id < id /\ responder[Other(p)][InFlight(p)[i].id] = "none"
      BY <3>1 DEF FlowOK
    <3>3. id + 1 \in Nat /\ id <= id + 1
      BY <1>1
    <3>4. FlowOK(InFlight(p), id + 1, responder[p], responder[Other(p)])
      BY <1>1, <3>1, <3>2, <3>3, FlowFrame
    <3>5. \A i \in 1 .. Len(InFlight(p)), j \in 1 .. Len(M) :
             InFlight(p)[i].kind = "request" /\ M[j].kind = "request" =>
                 InFlight(p)[i].id # M[j].id
      <4>1. \A k : k < id => k # id
        BY <1>1
      <4> QED BY <4>1, <1>3, <3>2
    <3> QED BY <1>3, <1>5, <3>1, <3>4, <3>5, FlowConcat
  <2>2. ASSUME NEW q \in Peers \ {p}
        PROVE  FlowOK(InFlight(q)', nextRequestId'[q], responder[q], responder[Other(q)])
    BY <1>5, <1>6 DEF IInv, Flow, TypeOK
  <2>3. nextRequestId'[p] = id + 1
    BY <1>6 DEF IInv, TypeOK
  <2> QED BY <1>4, <2>1, <2>2, <2>3 DEF Flow
<1>9. /\ promise'[p][id] = "pending" /\ promise[p][id] = "none"
      /\ \A k \in Ids \ {id} : promise'[p][k] = promise[p][k]
      /\ \A q \in Peers \ {p} : promise'[q] = promise[q] /\ nextRequestId'[q] = nextRequestId[q]
                                /\ pendingResponses'[q] = pendingResponses[q]
      /\ nextRequestId'[p] = id + 1
      /\ pendingResponses'[p] = pendingResponses[p] \cup {id}
  BY <1>1, <1>6 DEF IInv, TypeOK, IdsAreIssuedInOrder
<1>10. IdsAreIssuedInOrder'
  <2>1. ASSUME NEW q \in Peers, NEW k \in Ids
        PROVE  /\ promise'[q][k] = "none" <=> k >= nextRequestId'[q]
               /\ k >= nextRequestId'[q] => responder'[Other(q)][k] = "none"
    <3>1. CASE q # p
      BY <3>1, <1>4, <1>9 DEF IInv, IdsAreIssuedInOrder
    <3>2. CASE q = p /\ k = id
      BY <3>2, <1>1, <1>9
    <3>3. CASE q = p /\ k # id
      <4>1. k >= id + 1 <=> k >= id
        BY <3>3, <1>1, IdBoundAssumption DEF Ids
      <4> QED BY <3>3, <4>1, <1>4, <1>9 DEF IInv, IdsAreIssuedInOrder
    <3> QED BY <3>1, <3>2, <3>3
  <2> QED BY <2>1 DEF IdsAreIssuedInOrder
<1>11. PendingIsTracked'
  BY <1>4, <1>9 DEF IInv, PendingIsTracked
<1>12. AnswersAreAuthentic'
  BY <1>4, <1>9 DEF IInv, AnswersAreAuthentic, Results
<1> QED BY <1>5, <1>7, <1>8, <1>10, <1>11, <1>12 DEF IInv

LEMMA CancelRequestStep ==
    ASSUME IInv, NEW p \in Peers, NEW id \in Ids, CancelRequest(p, id)
    PROVE  IInv'
<1> DEFINE M == IF aborted[p] THEN <<>> ELSE <<Cancel(id)>>
<1>1. M \in Seq(Messages) /\ \A j \in 1 .. Len(M) : M[j].kind = "cancel"
  BY MessageTypes DEF Cancel
<1>2. writeQueue' = [writeQueue EXCEPT ![p] = @ \o M]
  <2>1. writeQueue[p] \o <<>> = writeQueue[p]
    BY ConcatEmptySeq DEF IInv, TypeOK
  <2>2. writeQueue = [writeQueue EXCEPT ![p] = writeQueue[p]]
    BY DEF IInv, TypeOK
  <2> QED BY <2>1, <2>2 DEF CancelRequest, Enqueue
<1>3. UNCHANGED <<aborted, nextRequestId, pendingResponses, promise, writing, wire, responder>>
  BY DEF CancelRequest, calleeVars
<1>4. /\ InFlight(p)' = InFlight(p) \o M
      /\ \A q \in Peers \ {p} : InFlight(q)' = InFlight(q)
      /\ WritesHaveHeads'
  BY <1>1, <1>2, <1>3, FlightOfSend DEF IInv
<1>5. TypeOK'
  <2>1. writeQueue' \in [Peers -> Seq(Messages)]
    BY <1>1, <1>2, ConcatProperties DEF IInv, TypeOK
  <2> QED BY <2>1 DEF IInv, TypeOK, CancelRequest, Cleanup, calleeVars
<1>6. FlowOK(InFlight(p)', nextRequestId[p], responder[p], responder[Other(p)])
  <2>1. FlowOK(M, nextRequestId[p], responder[p], responder[Other(p)])
    BY <1>1 DEF FlowOK
  <2>2. InFlight(p) \in Seq(Messages)
        /\ FlowOK(InFlight(p), nextRequestId[p], responder[p], responder[Other(p)])
    BY FlightType DEF IInv, Flow
  <2> QED BY <1>1, <1>4, <2>1, <2>2, FlowConcat
<1> QED BY <1>3, <1>4, <1>5, <1>6, QuietStep DEF IInv, Flow

(* Answering turns an open responder into a used one, for good. *)
LEMMA RespondStep ==
    ASSUME IInv, NEW q \in Peers, NEW id \in Ids, NEW r \in Results, Respond(q, id, r)
    PROVE  IInv'
<1> DEFINE M == IF aborted[q] THEN <<>> ELSE <<Response(id, r)>>
<1>1. /\ M \in Seq(Messages)
      /\ \A j \in 1 .. Len(M) : M[j].kind = "response" /\ M[j].id = id /\ M[j].result = r
  BY MessageTypes DEF Response
<1>2. writeQueue' = [writeQueue EXCEPT ![q] = @ \o M]
  <2>1. writeQueue[q] \o <<>> = writeQueue[q]
    BY ConcatEmptySeq DEF IInv, TypeOK
  <2>2. writeQueue = [writeQueue EXCEPT ![q] = writeQueue[q]]
    BY DEF IInv, TypeOK
  <2> QED BY <2>1, <2>2 DEF Respond, Enqueue
<1>3. UNCHANGED <<aborted, nextRequestId, pendingResponses, promise, writing, wire>>
  BY DEF Respond, callerVars
<1>4. /\ InFlight(q)' = InFlight(q) \o M
      /\ \A p \in Peers \ {q} : InFlight(p)' = InFlight(p)
      /\ WritesHaveHeads'
  BY <1>1, <1>2, <1>3, FlightOfSend DEF IInv
<1>5. /\ responder[q][id] = "open" /\ responder'[q][id] = r
      /\ \A k \in Ids \ {id} : responder'[q][k] = responder[q][k]
      /\ \A p \in Peers \ {q} : responder'[p] = responder[p]
  BY DEF IInv, TypeOK, Respond, MayRespond
<1>6. "none" \notin Results /\ "open" \notin Results
  BY DEF Results
<1>7. TypeOK'
  <2>1. writeQueue' \in [Peers -> Seq(Messages)]
    BY <1>1, EnqueueType, MessageTypes DEF IInv, Respond
  <2>2. responder' \in [Peers -> [Ids -> {"none", "open"} \cup Results]]
    BY DEF IInv, TypeOK, Respond
  <2> QED BY <2>1, <2>2 DEF IInv, TypeOK, Respond, callerVars
<1>8. FlowOK(InFlight(q)', nextRequestId[q], responder'[q], responder'[Other(q)])
  <2> DEFINE F == InFlight(q)
  <2>1. F \in Seq(Messages) /\ FlowOK(F, nextRequestId[q], responder[q], responder[Other(q)])
        /\ nextRequestId[q] \in Nat
    BY FlightType DEF IInv, Flow, TypeOK
  <2>2. \A i \in 1 .. Len(F) : F[i].kind = "request" => responder'[Other(q)][F[i].id] = "none"
    BY <1>5, <2>1, OtherPeer DEF FlowOK
  <2>3. \A k \in Ids : responder[q][k] \in Results => responder'[q][k] = responder[q][k]
    BY <1>5, <1>6
  <2> HIDE DEF F, M
  <2>4. FlowOK(F, nextRequestId[q], responder'[q], responder'[Other(q)])
    <3>1. nextRequestId[q] <= nextRequestId[q]
      BY <2>1
    <3> QED BY <2>1, <2>2, <2>3, <3>1, FlowFrame
  <2>5. FlowOK(M, nextRequestId[q], responder'[q], responder'[Other(q)])
    BY <1>1, <1>5 DEF FlowOK
  <2>6. FlowOK(F \o M, nextRequestId[q], responder'[q], responder'[Other(q)])
    BY <1>1, <2>1, <2>4, <2>5, FlowConcat
  <2> QED BY <1>4, <2>6 DEF F
<1>9. ASSUME NEW p \in Peers \ {q}
      PROVE  FlowOK(InFlight(p)', nextRequestId[p], responder'[p], responder'[Other(p)])
  <2> DEFINE F == InFlight(p)
  <2>1. F \in Seq(Messages) /\ FlowOK(F, nextRequestId[p], responder[p], responder[q])
        /\ nextRequestId[p] \in Nat /\ Other(p) = q
    BY FlightType, OtherPeer DEF IInv, Flow, TypeOK
  <2>2. \A i \in 1 .. Len(F) : F[i] \in Messages
    BY <2>1
  <2>3. \A i \in 1 .. Len(F) : F[i].id \in Ids
    BY <2>2 DEF Messages
  <2>4. \A i \in 1 .. Len(F) : F[i].kind = "request" => responder'[q][F[i].id] = "none"
    BY <1>5, <2>1, <2>3 DEF FlowOK
  <2> HIDE DEF F
  <2>5. FlowOK(F, nextRequestId[p], responder'[p], responder'[q])
    <3>1. nextRequestId[p] <= nextRequestId[p]
      BY <2>1
    <3>2. responder'[p] = responder[p]
      BY <1>5
    <3> QED BY <2>1, <2>4, <3>1, <3>2, FlowFrame
  <2> QED BY <1>4, <2>1, <2>5 DEF F
<1>10. Flow'
  BY <1>3, <1>8, <1>9 DEF Flow
<1>11. IdsAreIssuedInOrder'
  <2>1. ASSUME NEW p \in Peers, NEW k \in Ids, k >= nextRequestId[p]
        PROVE  responder'[Other(p)][k] = "none"
    BY <2>1, <1>5, OtherPeer DEF IInv, IdsAreIssuedInOrder
  <2> QED BY <2>1, <1>3 DEF IInv, IdsAreIssuedInOrder
<1>12. AnswersAreAuthentic'
  <2>1. ASSUME NEW p \in Peers, NEW k \in Ids, promise[p][k] \in Results
        PROVE  responder'[Other(p)][k] = promise[p][k]
    BY <2>1, <1>5, <1>6, OtherPeer DEF IInv, AnswersAreAuthentic
  <2> QED BY <2>1, <1>3 DEF AnswersAreAuthentic
<1>13. PendingIsTracked'
  BY <1>3 DEF IInv, PendingIsTracked
<1> QED BY <1>4, <1>7, <1>10, <1>11, <1>12, <1>13 DEF IInv

(* What the receive loop finds at the head of what is under way. *)
LEMMA Received ==
    ASSUME IInv, NEW p \in Peers, NEW kind, Read(p, kind), UNCHANGED <<writeQueue, writing>>
    PROVE  LET q == Other(p)
               m == Head(wire[q])
           IN  /\ m \in Messages /\ m.id \in Ids /\ m.kind = kind
               /\ WritesHaveHeads' /\ wire' \in [Peers -> Seq(Messages)]
               /\ InFlight(p)' = InFlight(p)
               /\ InFlight(q)' \in Seq(Messages)
               /\ FlowOK(InFlight(q)', nextRequestId[q], responder[q], responder[p])
               /\ kind = "request" =>
                     /\ m.id < nextRequestId[q] /\ responder[p][m.id] = "none"
                     /\ \A i \in 1 .. Len(InFlight(q)') :
                           InFlight(q)'[i].kind = "request" => InFlight(q)'[i].id # m.id
               /\ kind = "response" => m.result \in Results /\ responder[q][m.id] = m.result
<1> DEFINE q == Other(p)
           m == Head(wire[q])
           F == InFlight(q)
<1>1. q \in Peers /\ Other(q) = p
  BY OtherPeer
<1>2. m \in Messages /\ m.id \in Ids /\ wire' \in [Peers -> Seq(Messages)]
  BY ReadType DEF IInv
<1>3. m.kind = kind
  BY DEF Read
<1>4. F # <<>> /\ Head(F) = m /\ InFlight(q)' = Tail(F) /\ InFlight(p)' = InFlight(p)
  BY FlightOfRead DEF IInv
<1>5. F \in Seq(Messages) /\ FlowOK(F, nextRequestId[q], responder[q], responder[p])
  BY <1>1, FlightType DEF IInv, Flow
<1>6. Tail(F) \in Seq(Messages)
  BY <1>4, <1>5, HeadTailProperties
<1>7. WritesHaveHeads'
  BY DEF IInv, WritesHaveHeads
<1> HIDE DEF F, m
<1>8. /\ FlowOK(Tail(F), nextRequestId[q], responder[q], responder[p])
      /\ m.kind = "request" =>
            /\ m.id < nextRequestId[q] /\ responder[p][m.id] = "none"
            /\ \A i \in 1 .. Len(Tail(F)) : Tail(F)[i].kind = "request" => Tail(F)[i].id # m.id
      /\ m.kind = "response" => m.result \in Results /\ responder[q][m.id] = m.result
  BY <1>4, <1>5, FlowTail
<1> QED BY <1>2, <1>3, <1>4, <1>6, <1>7, <1>8 DEF m

LEMMA ReceiveRequestStep == ASSUME IInv, NEW p \in Peers, ReceiveRequest(p) PROVE IInv'
<1> DEFINE q  == Other(p)
           id == Head(wire[q]).id
<1>1. q \in Peers /\ q # p /\ Other(q) = p /\ Peers = {p, q}
  BY OtherPeer
<1>2. /\ id \in Ids /\ WritesHaveHeads' /\ wire' \in [Peers -> Seq(Messages)]
      /\ InFlight(p)' = InFlight(p)
      /\ InFlight(q)' \in Seq(Messages)
      /\ FlowOK(InFlight(q)', nextRequestId[q], responder[q], responder[p])
      /\ id < nextRequestId[q] /\ responder[p][id] = "none"
      /\ \A i \in 1 .. Len(InFlight(q)') :
            InFlight(q)'[i].kind = "request" => InFlight(q)'[i].id # id
  BY Received DEF ReceiveRequest
<1>3. /\ UNCHANGED <<aborted, nextRequestId, pendingResponses, promise>>
      /\ responder' = [responder EXCEPT ![p][id] = "open"]
  BY DEF ReceiveRequest, callerVars
<1>4. /\ responder'[p][id] = "open"
      /\ \A k \in Ids \ {id} : responder'[p][k] = responder[p][k]
      /\ responder'[q] = responder[q]
  BY <1>1, <1>2, <1>3 DEF IInv, TypeOK
<1>5. "none" \notin Results /\ "open" \notin Results
  BY DEF Results
<1>6. TypeOK'
  <2>1. responder' \in [Peers -> [Ids -> {"none", "open"} \cup Results]]
    BY <1>2, <1>3 DEF IInv, TypeOK
  <2>2. incomingRequests' \in [Peers -> SUBSET Ids]
    BY <1>2 DEF IInv, TypeOK, ReceiveRequest
  <2>3. controller' \in [Peers -> [Ids -> {"none", "live", "aborted"}]]
    BY <1>2 DEF IInv, TypeOK, ReceiveRequest
  <2> QED BY <1>2, <2>1, <2>2, <2>3 DEF IInv, TypeOK, ReceiveRequest, callerVars
<1> HIDE DEF q, id
<1>7. /\ nextRequestId[p] \in Nat /\ nextRequestId[p] <= nextRequestId[p]
      /\ nextRequestId[q] \in Nat /\ nextRequestId[q] <= nextRequestId[q]
  BY <1>1 DEF IInv, TypeOK
<1>8. FlowOK(InFlight(q)', nextRequestId[q], responder'[q], responder'[p])
  <2>1. \A i \in 1 .. Len(InFlight(q)') :
           InFlight(q)'[i].kind = "request" => responder'[p][InFlight(q)'[i].id] = "none"
    <3>1. \A i \in 1 .. Len(InFlight(q)') : InFlight(q)'[i] \in Messages
      BY <1>2
    <3>2. \A i \in 1 .. Len(InFlight(q)') : InFlight(q)'[i].id \in Ids
      BY <3>1 DEF Messages
    <3> QED BY <1>2, <1>4, <3>2 DEF FlowOK
  <2> QED BY <1>2, <1>4, <1>7, <2>1, FlowFrame
<1>9. FlowOK(InFlight(p)', nextRequestId[p], responder'[p], responder'[q])
  <2>1. InFlight(p) \in Seq(Messages) /\ FlowOK(InFlight(p), nextRequestId[p], responder[p], responder[q])
    BY <1>1, FlightType DEF IInv, Flow, q
  <2>2. \A i \in 1 .. Len(InFlight(p)) :
           InFlight(p)[i].kind = "request" => responder'[q][InFlight(p)[i].id] = "none"
    BY <1>4, <2>1 DEF FlowOK
  <2>3. \A k \in Ids : responder[p][k] \in Results => responder'[p][k] = responder[p][k]
    BY <1>2, <1>4, <1>5
  <2>4. FlowOK(InFlight(p), nextRequestId[p], responder'[p], responder'[q])
    BY <1>7, <2>1, <2>2, <2>3, FlowFrame
  <2> QED BY <1>2, <2>4
<1>10. Flow'
  BY <1>1, <1>3, <1>8, <1>9 DEF Flow, q
<1>11. IdsAreIssuedInOrder'
  <2>1. ASSUME NEW k \in Ids, k >= nextRequestId[q] PROVE responder'[p][k] = "none"
    <3>1. k # id
      BY <2>1, <1>2, <1>7, IdBoundAssumption DEF Ids
    <3> QED BY <2>1, <3>1, <1>1, <1>4 DEF IInv, IdsAreIssuedInOrder
  <2>2. ASSUME NEW k \in Ids, k >= nextRequestId[p] PROVE responder'[q][k] = "none"
    BY <2>2, <1>1, <1>4 DEF IInv, IdsAreIssuedInOrder, q
  <2>3. ASSUME NEW r \in Peers, NEW k \in Ids, k >= nextRequestId[r]
        PROVE  responder'[Other(r)][k] = "none"
    <3>1. CASE r = p
      BY <3>1, <2>2, <2>3 DEF q
    <3>2. CASE r = q
      BY <3>2, <2>1, <2>3, <1>1
    <3> QED BY <3>1, <3>2, <1>1
  <2> QED BY <2>3, <1>3 DEF IInv, IdsAreIssuedInOrder
<1>12. AnswersAreAuthentic'
  <2>1. ASSUME NEW k \in Ids, promise[q][k] \in Results PROVE responder'[p][k] = promise[q][k]
    BY <2>1, <1>1, <1>2, <1>4, <1>5 DEF IInv, AnswersAreAuthentic
  <2>2. ASSUME NEW k \in Ids, promise[p][k] \in Results PROVE responder'[q][k] = promise[p][k]
    BY <2>2, <1>1, <1>4 DEF IInv, AnswersAreAuthentic, q
  <2>3. ASSUME NEW r \in Peers, NEW k \in Ids, promise[r][k] \in Results
        PROVE  responder'[Other(r)][k] = promise[r][k]
    <3>1. CASE r = p
      BY <3>1, <2>2, <2>3 DEF q
    <3>2. CASE r = q
      BY <3>2, <2>1, <2>3, <1>1
    <3> QED BY <3>1, <3>2, <1>1
  <2> QED BY <2>3, <1>3 DEF AnswersAreAuthentic
<1>13. PendingIsTracked'
  BY <1>3 DEF IInv, PendingIsTracked
<1> QED BY <1>2, <1>6, <1>10, <1>11, <1>12, <1>13 DEF IInv

LEMMA ReceiveCancelStep == ASSUME IInv, NEW p \in Peers, ReceiveCancel(p) PROVE IInv'
<1>1. /\ WritesHaveHeads' /\ wire' \in [Peers -> Seq(Messages)]
      /\ InFlight(p)' = InFlight(p)
      /\ FlowOK(InFlight(Other(p))', nextRequestId[Other(p)], responder[Other(p)], responder[p])
  BY Received DEF ReceiveCancel
<1>2. TypeOK'
  <2>1. controller' \in [Peers -> [Ids -> {"none", "live", "aborted"}]]
    BY DEF IInv, TypeOK, ReceiveCancel
  <2> QED BY <1>1, <2>1 DEF IInv, TypeOK, ReceiveCancel, callerVars
<1>3. \A q \in Peers : FlowOK(InFlight(q)', nextRequestId[q], responder[q], responder[Other(q)])
  <2>1. FlowOK(InFlight(p)', nextRequestId[p], responder[p], responder[Other(p)])
    BY <1>1 DEF IInv, Flow
  <2> QED BY <1>1, <2>1, OtherPeer
<1> QED BY <1>1, <1>2, <1>3, QuietStep DEF ReceiveCancel, callerVars

LEMMA ReceiveResponseStep == ASSUME IInv, NEW p \in Peers, ReceiveResponse(p) PROVE IInv'
<1> DEFINE q == Other(p)
           m == Head(wire[q])
<1>1. q \in Peers /\ q # p /\ Other(q) = p
  BY OtherPeer
<1>2. /\ m.id \in Ids /\ WritesHaveHeads' /\ wire' \in [Peers -> Seq(Messages)]
      /\ InFlight(p)' = InFlight(p)
      /\ FlowOK(InFlight(q)', nextRequestId[q], responder[q], responder[p])
      /\ m.result \in Results /\ responder[q][m.id] = m.result
  BY Received DEF ReceiveResponse
<1>3. /\ UNCHANGED <<aborted, nextRequestId, responder>>
      /\ promise' = [promise EXCEPT ![p] = Settle(@, PendingFor(p, m.id), m.result)]
      /\ pendingResponses' = [pendingResponses EXCEPT ![p] = @ \ PendingFor(p, m.id)]
      /\ ~aborted[p]
  BY DEF ReceiveResponse, calleeVars, Read
<1>4. /\ promise' \in [Peers -> [Ids -> {"none", "pending", "closed"} \cup Results]]
      /\ \A r \in Peers \ {p} : promise'[r] = promise[r]
      /\ \A k \in Ids : promise'[p][k] =
            IF k \in PendingFor(p, m.id) /\ promise[p][k] = "pending" THEN m.result
            ELSE promise[p][k]
  <2> HIDE DEF m
  <2>1. promise[p] \in [Ids -> {"none", "pending", "closed"} \cup Results]
    BY DEF IInv, TypeOK
  <2>2. /\ Settle(promise[p], PendingFor(p, m.id), m.result)
               \in [Ids -> {"none", "pending", "closed"} \cup Results]
        /\ \A k \in Ids : Settle(promise[p], PendingFor(p, m.id), m.result)[k] =
              IF k \in PendingFor(p, m.id) /\ promise[p][k] = "pending" THEN m.result
              ELSE promise[p][k]
    <3>1. m.result \in {"closed"} \cup Results
      BY <1>2
    <3> DEFINE f == promise[p]
               ids == PendingFor(p, m.id)
               value == m.result
    <3> HIDE DEF f, ids, value
    <3>2. /\ Settle(f, ids, value) \in [Ids -> {"none", "pending", "closed"} \cup Results]
          /\ \A k \in Ids : Settle(f, ids, value)[k] =
                IF k \in ids /\ f[k] = "pending" THEN value ELSE f[k]
      <4>1. f \in [Ids -> {"none", "pending", "closed"} \cup Results] BY <2>1 DEF f
      <4>2. value \in {"closed"} \cup Results BY <3>1 DEF value
      <4> QED BY <4>1, <4>2, SettleType, Zenon
    <3> QED BY <3>2 DEF f, ids, value
  <2> QED BY <1>3, <2>2 DEF IInv, TypeOK
<1> HIDE DEF q, m
<1>5. /\ pendingResponses'[p] = pendingResponses[p] \ {m.id}
      /\ pendingResponses' \in [Peers -> SUBSET Ids]
      /\ \A r \in Peers \ {p} : pendingResponses'[r] = pendingResponses[r]
  BY <1>3 DEF IInv, TypeOK, PendingFor
<1>6. TypeOK'
  BY <1>2, <1>4, <1>5 DEF IInv, TypeOK, ReceiveResponse, Cleanup, calleeVars
<1>7. Flow'
  <2>1. FlowOK(InFlight(p)', nextRequestId[p], responder[p], responder[Other(p)])
    BY <1>2 DEF IInv, Flow
  <2>2. \A r \in Peers : FlowOK(InFlight(r)', nextRequestId[r], responder[r], responder[Other(r)])
    BY <1>1, <1>2, <2>1, OtherPeer DEF q
  <2> QED BY <1>3, <2>2 DEF Flow
<1>8. "none" \notin Results /\ "pending" \notin Results
  BY DEF Results
<1>9. IdsAreIssuedInOrder'
  BY <1>2, <1>3, <1>4, <1>8 DEF IInv, IdsAreIssuedInOrder
<1>10. PendingIsTracked'
  <2>1. ASSUME NEW r \in Peers
        PROVE  /\ aborted[r] => pendingResponses'[r] = {}
               /\ \A k \in Ids : promise'[r][k] = "pending" <=> k \in pendingResponses'[r]
    <3>1. CASE r # p
      BY <3>1, <1>4, <1>5 DEF IInv, PendingIsTracked
    <3>2. CASE r = p
      <4>1. ASSUME NEW k \in Ids
            PROVE  promise'[p][k] = "pending" <=> k \in pendingResponses'[p]
        <5>1. promise[p][k] = "pending" <=> k \in pendingResponses[p]
          BY DEF IInv, PendingIsTracked
        <5>2. CASE k = m.id /\ k \in pendingResponses[p]
          <6>1. promise'[p][k] = m.result
            BY <5>1, <5>2, <1>4 DEF PendingFor
          <6> QED BY <5>2, <6>1, <1>2, <1>5, <1>8
        <5>3. CASE ~(k = m.id /\ k \in pendingResponses[p])
          <6>1. promise'[p][k] = promise[p][k]
            BY <5>3, <1>4 DEF PendingFor
          <6> QED BY <5>1, <5>3, <6>1, <1>5
        <5> QED BY <5>2, <5>3
      <4> QED BY <3>2, <4>1, <1>3
    <3> QED BY <3>1, <3>2
  <2> QED BY <2>1, <1>3 DEF PendingIsTracked
<1>11. AnswersAreAuthentic'
  <2>1. ASSUME NEW r \in Peers, NEW k \in Ids, promise'[r][k] \in Results
        PROVE  responder[Other(r)][k] = promise'[r][k]
    <3>1. CASE promise'[r][k] = promise[r][k]
      BY <2>1, <3>1 DEF IInv, AnswersAreAuthentic
    <3>2. CASE r = p /\ k = m.id /\ promise'[r][k] = m.result
      BY <3>2, <1>2 DEF q
    <3> QED BY <3>1, <3>2, <1>4 DEF PendingFor
  <2> QED BY <2>1, <1>3 DEF AnswersAreAuthentic
<1> QED BY <1>2, <1>6, <1>7, <1>9, <1>10, <1>11 DEF IInv

LEMMA NextKeepsIInv == IInv /\ [Next]_vars => IInv'
<1> SUFFICES ASSUME IInv, [Next]_vars PROVE IInv'
  OBVIOUS
<1>1. ASSUME NEW p \in Peers, NEW signalAborted \in BOOLEAN, SendRequest(p, signalAborted)
      PROVE  IInv'
  BY <1>1, SendRequestStep
<1>2. ASSUME NEW p \in Peers, NEW id \in Ids, CancelRequest(p, id) PROVE IInv'
  BY <1>2, CancelRequestStep
<1>3. ASSUME NEW p \in Peers, NEW id \in Ids, NEW r \in Results, Respond(p, id, r) PROVE IInv'
  BY <1>3, RespondStep
<1>4. ASSUME NEW p \in Peers, Write(p) PROVE IInv'
  BY <1>4, StartWriteStep, LandWriteStep, FinishWriteStep, RejectWritesStep DEF Write
<1>5. ASSUME NEW p \in Peers, FailWrite(p) PROVE IInv'
  BY <1>5, FailWriteStep
<1>6. ASSUME NEW p \in Peers, Receive(p) PROVE IInv'
  BY <1>6, ReceiveRequestStep, ReceiveCancelStep, ReceiveResponseStep DEF Receive
<1>7. ASSUME NEW p \in Peers, Close(p) PROVE IInv'
  BY <1>7, CloseKeeps
<1>8. CASE UNCHANGED vars
  <2> USE <1>8 DEF vars, callerVars, writeVars, calleeVars, IInv
  <2>1. TypeOK' BY DEF TypeOK
  <2>2. WritesHaveHeads' BY DEF WritesHaveHeads
  <2>3. IdsAreIssuedInOrder' BY DEF IdsAreIssuedInOrder
  <2>4. \A p \in Peers : InFlight(p)' = InFlight(p) BY DEF InFlight, Unwritten
  <2>5. Flow' BY <2>4 DEF Flow, FlowOK
  <2>6. PendingIsTracked' BY DEF PendingIsTracked
  <2>7. AnswersAreAuthentic' BY DEF AnswersAreAuthentic
  <2> QED BY <2>1, <2>2, <2>3, <2>5, <2>6, <2>7
<1> QED BY <1>1, <1>2, <1>3, <1>4, <1>5, <1>6, <1>7, <1>8 DEF Next

-----------------------------------------------------------------------------
(* The theorems.                                                           *)

(* The messages under way and the two ends agree, in every behaviour.      *)
THEOREM Invariance == Spec => []IInv
BY InitImpliesIInv, NextKeepsIInv, PTL DEF Spec

(* The variables keep their types. *)
THEOREM TypeCorrect == Spec => []TypeOK
<1>1. IInv => TypeOK
  BY DEF IInv
<1> QED BY <1>1, Invariance, PTL

(* However requests, answers, failing writes and closes interleave, no     *)
(* promise of sendRequest is left behind: it pends exactly while the       *)
(* connection has it in pendingResponses, and close() leaves none there.   *)
THEOREM NoRequestHangs == Spec => []PendingIsTracked
<1>1. IInv => PendingIsTracked
  BY DEF IInv
<1> QED BY <1>1, Invariance, PTL

(* A promise settles with a response only as its callee's responder was    *)
(* used: responses are never swapped between requests, or made up.         *)
THEOREM AnswersAreTheCallees == Spec => []AnswersAreAuthentic
<1>1. IInv => AnswersAreAuthentic
  BY DEF IInv
<1> QED BY <1>1, Invariance, PTL

-----------------------------------------------------------------------------
(* The refinement: each step maps to a step of RpcCalls or to a stutter.   *)

LEMMA InitRefines == Init => Calls!Init
<1> SUFFICES ASSUME Init PROVE Calls!Init
  OBVIOUS
<1>1. \A p \in Peers, id \in Ids : responder[Other(p)][id] = "none"
  BY OtherPeer DEF Init
<1>2. "none" \notin Results
  BY DEF Results
<1>3. Answers = [p \in Peers |-> [id \in Ids |-> "none"]]
  BY <1>1, <1>2 DEF Answers
<1>4. [p \in Peers |-> ~aborted[p]] = [p \in Peers |-> TRUE]
  BY DEF Init
<1> QED BY <1>3, <1>4 DEF Init, Calls!Init

LEMMA AnswersValues ==
    \A p \in Peers, id \in Ids :
        Answers[p][id] = IF responder[Other(p)][id] \in Results
                         THEN responder[Other(p)][id] ELSE "none"
BY DEF Answers

(* A step that changes neither promises nor answers nor closes anything.   *)
LEMMA Stutters ==
    ASSUME UNCHANGED <<aborted, promise>>,
           \A p \in Peers, id \in Ids :
               \/ responder'[p][id] = responder[p][id]
               \/ responder'[p][id] \notin Results /\ responder[p][id] \notin Results
    PROVE  UNCHANGED Calls!vars
<1>1. Answers' = Answers
  BY OtherPeer DEF Answers
<1> QED BY <1>1 DEF Calls!vars

LEMMA SendRequestIssues ==
    ASSUME IInv, NEW p \in Peers, NEW signalAborted \in BOOLEAN, SendRequest(p, signalAborted)
    PROVE  Calls!Next
<1> DEFINE id == nextRequestId[p]
<1>1. id \in Ids
  <2>1. id \in 0 .. IdBound /\ MaxRequests[p] \in 0 .. IdBound
    BY MaxRequestsAssumption DEF IInv, TypeOK
  <2>2. id < MaxRequests[p]
    BY DEF SendRequest
  <2> HIDE DEF id
  <2> QED BY <2>1, <2>2, IdBoundAssumption DEF Ids
<1>2. promise[p][id] = "none"
  BY <1>1, IdBoundAssumption DEF IInv, IdsAreIssuedInOrder, TypeOK, Ids
<1>3. ~aborted[p] /\ promise' = [promise EXCEPT ![p][id] = "pending"]
      /\ UNCHANGED <<aborted, responder>>
  BY DEF SendRequest, calleeVars
<1>4. Answers' = Answers
  BY <1>3 DEF Answers
<1> HIDE DEF id
<1>5. Calls!Issue(p, id)
  BY <1>2, <1>3, <1>4 DEF Calls!Issue
<1> QED BY <1>1, <1>5 DEF Calls!Next

LEMMA RespondAnswers ==
    ASSUME IInv, NEW q \in Peers, NEW id \in Ids, NEW r \in Results, Respond(q, id, r)
    PROVE  Calls!Next
<1> DEFINE p == Other(q)
<1>1. p \in Peers /\ Other(p) = q /\ p # q
  BY OtherPeer
<1>2. /\ responder[q][id] = "open" /\ responder' = [responder EXCEPT ![q][id] = r]
      /\ UNCHANGED <<aborted, promise>>
  BY DEF Respond, MayRespond, callerVars
<1>3. promise[p][id] # "none"
  BY <1>1, <1>2 DEF IInv, IdsAreIssuedInOrder
<1> HIDE DEF p
<1>4. Answers[p][id] = "none"
  BY <1>1, <1>2, AnswersValues DEF Results
<1>5. Answers' = [Answers EXCEPT ![p][id] = r]
  <2>1. \A s \in Peers : Other(s) = q <=> s = p
    BY <1>1, OtherPeer
  <2>2. \A s \in Peers, k \in Ids : responder'[Other(s)][k] =
            IF s = p /\ k = id THEN r ELSE responder[Other(s)][k]
    BY <1>1, <1>2, <2>1, OtherPeer DEF IInv, TypeOK
  <2>3. \A s \in Peers, k \in Ids : Answers'[s][k] = IF s = p /\ k = id THEN r ELSE Answers[s][k]
    BY <2>2, AnswersValues DEF Answers
  <2>4. Answers' \in [Peers -> [Ids -> Results \cup {"none"}]]
    BY DEF Answers
  <2>5. Answers \in [Peers -> [Ids -> Results \cup {"none"}]]
    BY DEF Answers
  <2>6. \A f, g \in [Peers -> [Ids -> Results \cup {"none"}]] :
           (\A s \in Peers, k \in Ids : g[s][k] = IF s = p /\ k = id THEN r ELSE f[s][k])
               => g = [f EXCEPT ![p][id] = r]
    OBVIOUS
  <2> QED BY <2>3, <2>4, <2>5, <2>6
<1>6. Calls!Answer(p, id, r)
  BY <1>2, <1>3, <1>4, <1>5 DEF Calls!Answer
<1> QED BY <1>1, <1>6 DEF Calls!Next

LEMMA ReceiveResponseReturns ==
    ASSUME IInv, NEW p \in Peers, ReceiveResponse(p)
    PROVE  Calls!Next \/ UNCHANGED Calls!vars
<1> DEFINE m == Head(wire[Other(p)])
<1>1. m.id \in Ids /\ m.result \in Results /\ responder[Other(p)][m.id] = m.result
  BY Received DEF ReceiveResponse
<1>2. /\ ~aborted[p] /\ UNCHANGED <<aborted, responder>>
      /\ promise' = [promise EXCEPT ![p] = Settle(@, PendingFor(p, m.id), m.result)]
  BY DEF ReceiveResponse, calleeVars, Read
<1>3. promise \in [Peers -> [Ids -> {"none", "pending", "closed"} \cup Results]]
  BY DEF IInv, TypeOK
<1> HIDE DEF m
<1>4. CASE m.id \in pendingResponses[p]
  <2>1. promise[p][m.id] = "pending"
    BY <1>1, <1>4 DEF IInv, PendingIsTracked
  <2>2. Answers[p][m.id] = m.result /\ m.result # "none"
    BY <1>1, AnswersValues DEF Results
  <2>3. Settle(promise[p], PendingFor(p, m.id), m.result) = [promise[p] EXCEPT ![m.id] = m.result]
    BY <1>1, <1>3, <1>4, <2>1 DEF Settle, PendingFor
  <2>4. promise' = [promise EXCEPT ![p][m.id] = Answers[p][m.id]]
    BY <1>2, <2>2, <2>3
  <2>5. Answers' = Answers
    BY <1>2 DEF Answers
  <2>6. Calls!Return(p, m.id)
    BY <1>2, <2>1, <2>2, <2>4, <2>5 DEF Calls!Return
  <2> QED BY <1>1, <2>6 DEF Calls!Next
<1>5. CASE m.id \notin pendingResponses[p]
  <2>1. Settle(promise[p], PendingFor(p, m.id), m.result) = promise[p]
    BY <1>3, <1>5 DEF Settle, PendingFor
  <2>2. promise' = promise
    BY <1>2, <1>3, <2>1
  <2> QED BY <1>2, <2>2, Stutters
<1> QED BY <1>4, <1>5

LEMMA CloseCloses ==
    ASSUME IInv, NEW p \in Peers, ~aborted[p], CloseEffects(p), UNCHANGED responder
    PROVE  Calls!Next
<1>1. Settle(promise[p], pendingResponses[p], "closed") =
          [id \in Ids |-> IF promise[p][id] = "pending" THEN "closed" ELSE promise[p][id]]
  BY DEF IInv, PendingIsTracked, Settle
<1>2. promise' = [promise EXCEPT ![p] =
          [id \in Ids |-> IF @[id] = "pending" THEN "closed" ELSE @[id]]]
  BY <1>1 DEF CloseEffects
<1>3. [q \in Peers |-> ~aborted'[q]] = [[q \in Peers |-> ~aborted[q]] EXCEPT ![p] = FALSE]
  BY DEF CloseEffects, IInv, TypeOK
<1>4. Answers' = Answers
  BY DEF Answers
<1>5. Calls!Close(p)
  BY <1>2, <1>3, <1>4 DEF Calls!Close
<1> QED BY <1>5 DEF Calls!Next

LEMMA NextRefines == IInv /\ [Next]_vars => [Calls!Next]_(Calls!vars)
<1> SUFFICES ASSUME IInv, [Next]_vars PROVE Calls!Next \/ UNCHANGED Calls!vars
  OBVIOUS
<1>1. ASSUME NEW p \in Peers, NEW signalAborted \in BOOLEAN, SendRequest(p, signalAborted)
      PROVE  Calls!Next
  BY <1>1, SendRequestIssues
<1>2. ASSUME NEW p \in Peers, NEW id \in Ids, CancelRequest(p, id) PROVE UNCHANGED Calls!vars
  BY <1>2, Stutters DEF CancelRequest, calleeVars
<1>3. ASSUME NEW p \in Peers, NEW id \in Ids, NEW r \in Results, Respond(p, id, r)
      PROVE  Calls!Next
  BY <1>3, RespondAnswers
<1>4. ASSUME NEW p \in Peers, Write(p) PROVE UNCHANGED Calls!vars
  <2>1. UNCHANGED <<aborted, promise, responder>>
    BY <1>4 DEF Write, StartWrite, LandWrite, FinishWrite, RejectWrites, callerVars, calleeVars
  <2> QED BY <2>1, Stutters
<1>5. ASSUME NEW p \in Peers, FailWrite(p) PROVE Calls!Next \/ UNCHANGED Calls!vars
  <2>1. CASE aborted[p]
    BY <1>5, <2>1, Stutters DEF FailWrite, callerVars, calleeVars
  <2>2. CASE ~aborted[p]
    BY <1>5, <2>2, CloseCloses DEF FailWrite
  <2> QED BY <2>1, <2>2
<1>6. ASSUME NEW p \in Peers, ReceiveRequest(p) PROVE UNCHANGED Calls!vars
  <2> DEFINE id == Head(wire[Other(p)]).id
  <2>1. id \in Ids /\ responder[p][id] = "none"
    BY <1>6, Received DEF ReceiveRequest
  <2>2. UNCHANGED <<aborted, promise>> /\ responder' = [responder EXCEPT ![p][id] = "open"]
    BY <1>6 DEF ReceiveRequest, callerVars
  <2> HIDE DEF id
  <2>3. \A q \in Peers, k \in Ids :
           \/ responder'[q][k] = responder[q][k]
           \/ responder'[q][k] \notin Results /\ responder[q][k] \notin Results
    BY <2>1, <2>2 DEF IInv, TypeOK, Results
  <2> QED BY <2>2, <2>3, Stutters
<1>7. ASSUME NEW p \in Peers, ReceiveCancel(p) PROVE UNCHANGED Calls!vars
  BY <1>7, Stutters DEF ReceiveCancel, callerVars
<1>8. ASSUME NEW p \in Peers, ReceiveResponse(p) PROVE Calls!Next \/ UNCHANGED Calls!vars
  BY <1>8, ReceiveResponseReturns
<1>9. ASSUME NEW p \in Peers, Close(p) PROVE Calls!Next
  BY <1>9, CloseCloses DEF Close
<1>10. CASE UNCHANGED vars
  BY <1>10, Stutters DEF vars, callerVars, calleeVars
<1> QED BY <1>1, <1>2, <1>3, <1>4, <1>5, <1>6, <1>7, <1>8, <1>9, <1>10 DEF Next, Receive

(* Seen through their calls alone, two connections do only what RpcCalls   *)
(* allows, whatever is lost, cancelled or closed on the way.               *)
THEOREM Refinement == Spec => ImplementsCalls
<1>1. Spec => []IInv
  BY Invariance
<1>2. IInv /\ [Next]_vars => [Calls!Next]_(Calls!vars)
  BY NextRefines
<1> QED BY <1>1, <1>2, InitRefines, PTL DEF Spec, ImplementsCalls, Calls!Spec

-----------------------------------------------------------------------------
(* The two ends agree.  On top of IInv: whatever can still lead to a       *)
(* response, a request under way, an open responder or a response under    *)
(* way, belongs to a request the caller has pending; each response is      *)
(* under way once; and each cancellation under way was asked for.          *)


(* The ids of the messages of one kind. *)
IdsOf(F, kind) == {F[i].id : i \in {j \in 1 .. Len(F) : F[j].kind = kind}}

AnsweredOnce(F) ==
    \A i, j \in 1 .. Len(F) :
        F[i].kind = "response" /\ F[j].kind = "response" /\ F[i].id = F[j].id => i = j

Open(q) == {id \in Ids : responder[q][id] = "open"}

(* What can still lead to a response to p. *)
Unanswered(p) ==
    IdsOf(InFlight(p), "request") \cup Open(Other(p)) \cup IdsOf(InFlight(Other(p)), "response")

Agreement ==
    \A p \in Peers :
        /\ AnsweredOnce(InFlight(p))
        /\ ~aborted[p] => Unanswered(p) \subseteq pendingResponses[p]
        /\ IdsOf(InFlight(p), "cancel") \subseteq cancellationSent[p]

(* The responses in the write chain, those that have landed included. *)
QueueOK(Q, mine) ==
    /\ AnsweredOnce(Q)
    /\ \A i \in 1 .. Len(Q) : Q[i].kind = "response" =>
          Q[i].result \in Results /\ mine[Q[i].id] = Q[i].result

Registry ==
    \A q \in Peers :
        /\ QueueOK(writeQueue[q], responder[q])
        /\ ~aborted[q] => incomingRequests[q] = Open(q) \cup IdsOf(writeQueue[q], "response")

JInv == Agreement /\ Registry /\ AbortsAreRequested

-----------------------------------------------------------------------------
(* Messages of one kind.                                                   *)

LEMMA IdsOfType ==
    ASSUME NEW F \in Seq(Messages), NEW kind
    PROVE  IdsOf(F, kind) \subseteq Ids
<1>1. \A i \in 1 .. Len(F) : F[i] \in Messages
  OBVIOUS
<1>2. \A m \in Messages : m.id \in Ids
  BY DEF Messages
<1> QED BY <1>1, <1>2 DEF IdsOf

LEMMA IdsOfConcat ==
    ASSUME NEW F \in Seq(Messages), NEW M \in Seq(Messages), NEW kind
    PROVE  IdsOf(F \o M, kind) = IdsOf(F, kind) \cup IdsOf(M, kind)
<1> DEFINE G == F \o M
<1>1. /\ Len(F) \in Nat /\ Len(M) \in Nat /\ Len(G) = Len(F) + Len(M)
      /\ \A i \in 1 .. Len(F) : G[i] = F[i]
      /\ \A i \in 1 .. Len(M) : G[Len(F) + i] = M[i]
      /\ \A i \in 1 .. Len(G) :
            \/ i \in 1 .. Len(F) /\ G[i] = F[i]
            \/ i - Len(F) \in 1 .. Len(M) /\ G[i] = M[i - Len(F)]
  BY ConcatProperties
<1>2. \A i \in 1 .. Len(F) : i \in 1 .. Len(G)
  BY <1>1
<1>3. \A i \in 1 .. Len(M) : Len(F) + i \in 1 .. Len(G)
  BY <1>1
<1> HIDE DEF G
<1>4. IdsOf(G, kind) \subseteq IdsOf(F, kind) \cup IdsOf(M, kind)
  <2> SUFFICES ASSUME NEW i \in 1 .. Len(G), G[i].kind = kind
               PROVE  G[i].id \in IdsOf(F, kind) \cup IdsOf(M, kind)
    BY DEF IdsOf
  <2>1. CASE i \in 1 .. Len(F) /\ G[i] = F[i]
    BY <2>1 DEF IdsOf
  <2>2. CASE i - Len(F) \in 1 .. Len(M) /\ G[i] = M[i - Len(F)]
    BY <2>2 DEF IdsOf
  <2> QED BY <1>1, <2>1, <2>2
<1>5. IdsOf(F, kind) \subseteq IdsOf(G, kind)
  BY <1>1, <1>2 DEF IdsOf
<1>6. IdsOf(M, kind) \subseteq IdsOf(G, kind)
  <2> SUFFICES ASSUME NEW i \in 1 .. Len(M), M[i].kind = kind
               PROVE  M[i].id \in IdsOf(G, kind)
    BY DEF IdsOf
  <2>1. Len(F) + i \in 1 .. Len(G) /\ G[Len(F) + i] = M[i]
    BY <1>1, <1>3
  <2> QED BY <2>1 DEF IdsOf
<1> QED BY <1>4, <1>5, <1>6 DEF G

LEMMA IdsOfPrefix ==
    ASSUME NEW F \in Seq(Messages), NEW G \in Seq(Messages),
           Len(G) <= Len(F), \A i \in 1 .. Len(G) : G[i] = F[i]
    PROVE  /\ \A kind : IdsOf(G, kind) \subseteq IdsOf(F, kind)
           /\ AnsweredOnce(F) => AnsweredOnce(G)
<1>1. \A i \in 1 .. Len(G) : i \in 1 .. Len(F)
  OBVIOUS
<1>2. \A kind : IdsOf(G, kind) \subseteq IdsOf(F, kind)
  BY <1>1 DEF IdsOf
<1>3. AnsweredOnce(F) => AnsweredOnce(G)
  BY <1>1 DEF AnsweredOnce
<1> QED BY <1>2, <1>3

LEMMA OnceConcat ==
    ASSUME NEW F \in Seq(Messages), NEW M \in Seq(Messages),
           AnsweredOnce(F), AnsweredOnce(M),
           IdsOf(F, "response") \cap IdsOf(M, "response") = {}
    PROVE  AnsweredOnce(F \o M)
<1> DEFINE G == F \o M
<1>1. /\ Len(F) \in Nat /\ Len(M) \in Nat
      /\ \A i \in 1 .. Len(G) : i \in Int
      /\ \A i \in 1 .. Len(G) :
            \/ i \in 1 .. Len(F) /\ G[i] = F[i]
            \/ i - Len(F) \in 1 .. Len(M) /\ G[i] = M[i - Len(F)]
  BY ConcatProperties
<1>2. \A i \in 1 .. Len(F), j \in 1 .. Len(M) :
          F[i].kind = "response" /\ M[j].kind = "response" => F[i].id # M[j].id
  BY DEF IdsOf
<1> HIDE DEF G
<1>3. ASSUME NEW i \in 1 .. Len(G), NEW j \in 1 .. Len(G),
             G[i].kind = "response", G[j].kind = "response", G[i].id = G[j].id
      PROVE  i = j
  <2>1. CASE i \in 1 .. Len(F) /\ G[i] = F[i] /\ j \in 1 .. Len(F) /\ G[j] = F[j]
    BY <1>3, <2>1 DEF AnsweredOnce
  <2>2. CASE /\ i - Len(F) \in 1 .. Len(M) /\ G[i] = M[i - Len(F)]
             /\ j - Len(F) \in 1 .. Len(M) /\ G[j] = M[j - Len(F)]
    <3>1. i - Len(F) = j - Len(F)
      BY <1>3, <2>2 DEF AnsweredOnce
    <3> QED BY <3>1, <1>1
  <2>3. CASE i \in 1 .. Len(F) /\ G[i] = F[i] /\ j - Len(F) \in 1 .. Len(M) /\ G[j] = M[j - Len(F)]
    BY <1>2, <1>3, <2>3
  <2>4. CASE j \in 1 .. Len(F) /\ G[j] = F[j] /\ i - Len(F) \in 1 .. Len(M) /\ G[i] = M[i - Len(F)]
    BY <1>2, <1>3, <2>4
  <2> QED BY <1>1, <2>1, <2>2, <2>3, <2>4
<1> QED BY <1>3 DEF AnsweredOnce, G

LEMMA IdsOfTail ==
    ASSUME NEW F \in Seq(Messages), F # <<>>
    PROVE  /\ Tail(F) \in Seq(Messages)
           /\ \A kind : IdsOf(F, kind) = IdsOf(Tail(F), kind)
                                         \cup (IF Head(F).kind = kind THEN {Head(F).id} ELSE {})
           /\ AnsweredOnce(F) =>
                 /\ AnsweredOnce(Tail(F))
                 /\ Head(F).kind = "response" => Head(F).id \notin IdsOf(Tail(F), "response")
<1> DEFINE T == Tail(F)
<1>1. /\ Len(F) \in Nat \ {0} /\ Head(F) = F[1] /\ 1 \in 1 .. Len(F)
      /\ T \in Seq(Messages) /\ Len(T) = Len(F) - 1
      /\ \A i \in 1 .. Len(T) : i + 1 \in 1 .. Len(F) /\ T[i] = F[i + 1] /\ i + 1 # 1
      /\ \A i, j \in 1 .. Len(T) : i + 1 = j + 1 => i = j
  BY HeadTailProperties
<1>2. \A i \in 1 .. Len(F) : i = 1 \/ (i - 1 \in 1 .. Len(T) /\ T[i - 1] = F[i])
  <2>1. \A i \in 1 .. Len(F) : i = 1 \/ (i - 1 \in 1 .. Len(T) /\ (i - 1) + 1 = i)
    BY <1>1
  <2> QED BY <1>1, <2>1
<1> HIDE DEF T
<1>3. ASSUME NEW kind
      PROVE  IdsOf(F, kind) = IdsOf(T, kind)
                              \cup (IF Head(F).kind = kind THEN {Head(F).id} ELSE {})
  <2>1. ASSUME NEW i \in 1 .. Len(F), F[i].kind = kind
        PROVE  F[i].id \in IdsOf(T, kind) \cup (IF Head(F).kind = kind THEN {Head(F).id} ELSE {})
    <3>1. CASE i = 1
      BY <1>1, <2>1, <3>1
    <3>2. CASE i - 1 \in 1 .. Len(T) /\ T[i - 1] = F[i]
      BY <2>1, <3>2 DEF IdsOf
    <3> QED BY <1>2, <3>1, <3>2
  <2>2. ASSUME NEW i \in 1 .. Len(T), T[i].kind = kind
        PROVE  T[i].id \in IdsOf(F, kind)
    BY <1>1, <2>2 DEF IdsOf
  <2>3. Head(F).kind = kind => Head(F).id \in IdsOf(F, kind)
    BY <1>1 DEF IdsOf
  <2>4. IdsOf(T, kind) \subseteq IdsOf(F, kind)
    BY <2>2 DEF IdsOf
  <2>5. IdsOf(F, kind) \subseteq IdsOf(T, kind)
                                 \cup (IF Head(F).kind = kind THEN {Head(F).id} ELSE {})
    BY <2>1 DEF IdsOf
  <2> QED BY <2>3, <2>4, <2>5
<1>4. AnsweredOnce(F) => AnsweredOnce(T)
  BY <1>1 DEF AnsweredOnce
<1>5. AnsweredOnce(F) /\ Head(F).kind = "response" => Head(F).id \notin IdsOf(T, "response")
  BY <1>1 DEF AnsweredOnce, IdsOf
<1> QED BY <1>1, <1>3, <1>4, <1>5 DEF T

(* A single message, and none. *)
LEMMA IdsOfOne ==
    ASSUME NEW m
    PROVE  /\ \A kind : IdsOf(<<m>>, kind) = IF m.kind = kind THEN {m.id} ELSE {}
           /\ AnsweredOnce(<<m>>)
<1>1. Len(<<m>>) = 1 /\ <<m>>[1] = m /\ 1 .. 1 = {1}
  OBVIOUS
<1> QED BY <1>1 DEF IdsOf, AnsweredOnce

LEMMA IdsOfNone ==
    /\ \A kind : IdsOf(<<>>, kind) = {}
    /\ AnsweredOnce(<<>>)
BY DEF IdsOf, AnsweredOnce

-----------------------------------------------------------------------------
(* What does not disturb the parts of JInv.                                *)

(* Messages only leave, and nobody's knowledge changes but by closing.     *)
LEMMA FlightsShrink ==
    ASSUME Agreement, UNCHANGED <<responder, cancellationSent>>,
           \A p \in Peers :
               /\ AnsweredOnce(InFlight(p)')
               /\ \A kind : IdsOf(InFlight(p)', kind) \subseteq IdsOf(InFlight(p), kind)
               /\ ~aborted'[p] => ~aborted[p] /\ pendingResponses'[p] = pendingResponses[p]
    PROVE  Agreement'
<1> SUFFICES ASSUME NEW p \in Peers
             PROVE  /\ AnsweredOnce(InFlight(p)')
                    /\ ~aborted'[p] => Unanswered(p)' \subseteq pendingResponses'[p]
                    /\ IdsOf(InFlight(p)', "cancel") \subseteq cancellationSent[p]
  BY DEF Agreement
<1>1. Other(p) \in Peers
  BY OtherPeer
<1>2. Unanswered(p)' \subseteq Unanswered(p)
  BY <1>1 DEF Unanswered, Open
<1>3. ~aborted'[p] => Unanswered(p)' \subseteq pendingResponses'[p]
  BY <1>2 DEF Agreement
<1> QED BY <1>3 DEF Agreement

LEMMA SameFlights ==
    ASSUME Agreement, UNCHANGED <<responder, cancellationSent>>,
           \A p \in Peers :
               /\ InFlight(p)' = InFlight(p)
               /\ ~aborted'[p] => ~aborted[p] /\ pendingResponses'[p] = pendingResponses[p]
    PROVE  Agreement'
<1>1. \A p \in Peers :
          /\ AnsweredOnce(InFlight(p)')
          /\ \A kind : IdsOf(InFlight(p)', kind) \subseteq IdsOf(InFlight(p), kind)
  BY DEF Agreement
<1> QED BY <1>1, FlightsShrink

(* A chain that rejects. *)
LEMMA FlightsOfReject ==
    ASSUME IInv, Agreement, NEW p \in Peers,
           writeQueue' = [writeQueue EXCEPT ![p] = <<>>],
           writing' = [writing EXCEPT ![p] = "idle"],
           UNCHANGED <<wire, responder, cancellationSent>>,
           \A q \in Peers :
               ~aborted'[q] => ~aborted[q] /\ pendingResponses'[q] = pendingResponses[q]
    PROVE  Agreement'
<1>1. \A q \in Peers : /\ InFlight(q)' \in Seq(Messages)
                       /\ Len(InFlight(q)') <= Len(InFlight(q))
                       /\ \A i \in 1 .. Len(InFlight(q)') : InFlight(q)'[i] = InFlight(q)[i]
  BY FlightOfReject DEF IInv
<1>2. \A q \in Peers : InFlight(q) \in Seq(Messages)
  BY FlightType DEF IInv
<1>3. \A q \in Peers :
          /\ AnsweredOnce(InFlight(q)')
          /\ \A kind : IdsOf(InFlight(q)', kind) \subseteq IdsOf(InFlight(q), kind)
  BY <1>1, <1>2, IdsOfPrefix DEF Agreement
<1> QED BY <1>3, FlightsShrink

LEMMA SameRegistry ==
    ASSUME Registry, UNCHANGED <<responder, writeQueue>>,
           \A q \in Peers :
               ~aborted'[q] => ~aborted[q] /\ incomingRequests'[q] = incomingRequests[q]
    PROVE  Registry'
BY DEF Registry, Open

(* The chain of a closed connection has nothing to account for. *)
LEMMA RegistryOfReject ==
    ASSUME IInv, Registry, NEW p \in Peers, UNCHANGED responder, aborted'[p],
           writeQueue' = [writeQueue EXCEPT ![p] = <<>>],
           \A q \in Peers \ {p} :
               ~aborted'[q] => ~aborted[q] /\ incomingRequests'[q] = incomingRequests[q]
    PROVE  Registry'
<1>1. writeQueue'[p] = <<>> /\ \A q \in Peers \ {p} : writeQueue'[q] = writeQueue[q]
  BY DEF IInv, TypeOK
<1>2. QueueOK(<<>>, responder[p])
  BY IdsOfNone DEF QueueOK
<1>3. ASSUME NEW q \in Peers
      PROVE  /\ QueueOK(writeQueue'[q], responder[q])
             /\ ~aborted'[q] => incomingRequests'[q] =
                    {id \in Ids : responder[q][id] = "open"} \cup IdsOf(writeQueue'[q], "response")
  <2>1. CASE q = p
    BY <2>1, <1>1, <1>2
  <2>2. CASE q # p
    BY <2>2, <1>1 DEF Registry, Open
  <2> QED BY <2>1, <2>2
<1> QED BY <1>3 DEF Registry, Open

(* Cancellations are not taken back, and closed connections stay closed.   *)
LEMMA SameAborts ==
    ASSUME AbortsAreRequested,
           \A q \in Peers :
               /\ aborted[q] => aborted'[q]
               /\ cancellationSent[q] \subseteq cancellationSent'[q]
               /\ \A id \in Ids : controller'[q][id] = "aborted" =>
                      controller[q][id] = "aborted" \/ aborted'[q]
    PROVE  AbortsAreRequested'
<1>1. \A q \in Peers : Other(q) \in Peers
  BY OtherPeer
<1> QED BY <1>1 DEF AbortsAreRequested

-----------------------------------------------------------------------------
(* The write chain and closing.                                            *)

LEMMA StartWriteAgrees == ASSUME IInv, JInv, NEW p \in Peers, StartWrite(p) PROVE JInv'
<1>1. UNCHANGED <<aborted, pendingResponses, cancellationSent, writeQueue,
                  incomingRequests, controller, responder>>
  BY DEF StartWrite, callerVars, calleeVars
<1>2. \A q \in Peers : InFlight(q)' = InFlight(q)
  BY DEF IInv, StartWrite, TypeOK, InFlight, Unwritten
<1> QED BY <1>1, <1>2, SameFlights, SameRegistry, SameAborts DEF JInv

LEMMA LandWriteAgrees == ASSUME IInv, JInv, NEW p \in Peers, LandWrite(p) PROVE JInv'
<1>1. UNCHANGED <<aborted, pendingResponses, cancellationSent, writeQueue,
                  incomingRequests, controller, responder>>
  BY DEF LandWrite, callerVars, calleeVars
<1>2. \A q \in Peers : InFlight(q)' = InFlight(q)
  BY FlightOfLand DEF IInv
<1> QED BY <1>1, <1>2, SameFlights, SameRegistry, SameAborts DEF JInv

(* The registry forgets the request whose response has been written, and   *)
(* no other.                                                               *)
LEMMA FinishWriteAgrees == ASSUME IInv, JInv, NEW p \in Peers, FinishWrite(p) PROVE JInv'
<1> DEFINE Q == writeQueue[p]
           m == Head(Q)
<1>1. UNCHANGED <<aborted, pendingResponses, cancellationSent, controller, responder>>
  BY DEF FinishWrite, callerVars
<1>2. \A q \in Peers : InFlight(q)' = InFlight(q)
  BY FlightOfFinish DEF IInv
<1>3. /\ Q \in Seq(Messages) /\ Q # <<>>
      /\ writeQueue'[p] = Tail(Q)
      /\ \A q \in Peers \ {p} : writeQueue'[q] = writeQueue[q]
                                /\ incomingRequests'[q] = incomingRequests[q]
      /\ incomingRequests'[p] = incomingRequests[p] \ (IF m.kind = "response" THEN {m.id} ELSE {})
  BY DEF IInv, TypeOK, WritesHaveHeads, FinishWrite, FinishRequest
<1>4. QueueOK(Q, responder[p])
  BY DEF JInv, Registry
<1> HIDE DEF Q, m
<1>5. /\ Len(Q) \in Nat \ {0} /\ m = Q[1] /\ 1 \in 1 .. Len(Q)
      /\ \A i \in 1 .. Len(Tail(Q)) : i + 1 \in 1 .. Len(Q) /\ Tail(Q)[i] = Q[i + 1]
  BY <1>3, HeadTailProperties DEF m
<1>6. /\ \A kind : IdsOf(Q, kind) = IdsOf(Tail(Q), kind)
                                    \cup (IF m.kind = kind THEN {m.id} ELSE {})
      /\ AnsweredOnce(Tail(Q))
      /\ m.kind = "response" => m.id \notin IdsOf(Tail(Q), "response")
  BY <1>3, <1>4, IdsOfTail DEF QueueOK, m
<1>7. QueueOK(Tail(Q), responder[p])
  BY <1>4, <1>5, <1>6 DEF QueueOK
<1>8. ~aborted[p] => incomingRequests'[p] = Open(p) \cup IdsOf(Tail(Q), "response")
  <2>1. ~aborted[p] => incomingRequests[p] = Open(p) \cup IdsOf(Q, "response")
    BY DEF JInv, Registry, Q
  <2>2. m.kind = "response" => m.id \notin Open(p)
    BY <1>4, <1>5 DEF QueueOK, Open, Results
  <2> QED BY <1>3, <1>6, <2>1, <2>2
<1>9. Registry'
  BY <1>1, <1>3, <1>7, <1>8 DEF JInv, Registry, Open
<1> QED BY <1>1, <1>2, <1>9, SameFlights, SameAborts DEF JInv

LEMMA RejectWritesAgrees == ASSUME IInv, JInv, NEW p \in Peers, RejectWrites(p) PROVE JInv'
<1>1. /\ UNCHANGED <<aborted, pendingResponses, cancellationSent, wire,
                     incomingRequests, controller, responder>>
      /\ writeQueue' = [writeQueue EXCEPT ![p] = <<>>] /\ aborted[p]
  BY DEF RejectWrites, callerVars, calleeVars
<1>2. writing' = [writing EXCEPT ![p] = "idle"]
  BY DEF IInv, RejectWrites, TypeOK
<1>3. Agreement'
  BY <1>1, <1>2, FlightsOfReject DEF JInv
<1>4. Registry'
  BY <1>1, RegistryOfReject DEF JInv
<1> QED BY <1>1, <1>3, <1>4, SameAborts DEF JInv

(* close() leaves the other connection alone. *)
LEMMA ClosedAlone ==
    ASSUME IInv, NEW p \in Peers, CloseEffects(p)
    PROVE  /\ aborted'[p]
           /\ \A q \in Peers \ {p} : /\ aborted'[q] = aborted[q]
                                     /\ pendingResponses'[q] = pendingResponses[q]
                                     /\ incomingRequests'[q] = incomingRequests[q]
                                     /\ controller'[q] = controller[q]
BY DEF IInv, TypeOK, CloseEffects

LEMMA FailWriteAgrees == ASSUME IInv, JInv, NEW p \in Peers, FailWrite(p) PROVE JInv'
<1>1. /\ UNCHANGED <<cancellationSent, wire, responder>>
      /\ writeQueue' = [writeQueue EXCEPT ![p] = <<>>]
      /\ writing' = [writing EXCEPT ![p] = "idle"]
  BY DEF FailWrite, callerVars, calleeVars
<1>2. /\ aborted'[p]
      /\ \A q \in Peers \ {p} : /\ aborted'[q] = aborted[q]
                                /\ pendingResponses'[q] = pendingResponses[q]
                                /\ incomingRequests'[q] = incomingRequests[q]
                                /\ controller'[q] = controller[q]
  <2>1. CASE aborted[p]
    BY <2>1 DEF FailWrite, callerVars, calleeVars
  <2>2. CASE ~aborted[p]
    BY <2>2, ClosedAlone DEF FailWrite
  <2> QED BY <2>1, <2>2
<1>3. Agreement'
  BY <1>1, <1>2, FlightsOfReject DEF JInv
<1>4. Registry'
  BY <1>1, <1>2, RegistryOfReject DEF JInv
<1>5. AbortsAreRequested'
  BY <1>1, <1>2, SameAborts DEF JInv
<1> QED BY <1>3, <1>4, <1>5 DEF JInv

LEMMA CloseAgrees == ASSUME IInv, JInv, NEW p \in Peers, Close(p) PROVE JInv'
<1>1. UNCHANGED <<cancellationSent, responder, writeQueue>>
      /\ \A q \in Peers : InFlight(q)' = InFlight(q)
  BY DEF Close, writeVars, InFlight, Unwritten
<1>2. /\ aborted'[p]
      /\ \A q \in Peers \ {p} : /\ aborted'[q] = aborted[q]
                                /\ pendingResponses'[q] = pendingResponses[q]
                                /\ incomingRequests'[q] = incomingRequests[q]
                                /\ controller'[q] = controller[q]
  BY ClosedAlone DEF Close
<1>3. Agreement'
  BY <1>1, <1>2, SameFlights DEF JInv
<1>4. Registry'
  BY <1>1, <1>2, SameRegistry DEF JInv
<1>5. AbortsAreRequested'
  BY <1>1, <1>2, SameAborts DEF JInv
<1> QED BY <1>3, <1>4, <1>5 DEF JInv

-----------------------------------------------------------------------------
(* Sending.                                                                *)

(* What sendRequest enqueues. *)
LEMMA IdsOfSent ==
    ASSUME NEW id \in Ids, NEW M, M = <<Request(id)>> \/ M = RequestThenCancel(id)
    PROVE  /\ M \in Seq(Messages) /\ AnsweredOnce(M)
           /\ IdsOf(M, "request") = {id} /\ IdsOf(M, "response") = {}
           /\ IdsOf(M, "cancel") = IF M = <<Request(id)>> THEN {} ELSE {id}
<1>1. /\ Request(id) \in Messages /\ Cancel(id) \in Messages
      /\ Request(id).kind = "request" /\ Request(id).id = id
      /\ Cancel(id).kind = "cancel" /\ Cancel(id).id = id
  BY MessageTypes DEF Request, Cancel
<1>2. CASE M = <<Request(id)>>
  <2>1. \A kind : IdsOf(M, kind) = IF "request" = kind THEN {id} ELSE {}
    BY <1>1, <1>2, IdsOfOne
  <2> QED BY <1>1, <1>2, <2>1, IdsOfOne
<1>3. CASE M = RequestThenCancel(id)
  <2>1. /\ Len(M) = 2 /\ M[1] = Request(id) /\ M[2] = Cancel(id) /\ M \in Seq(Messages)
        /\ \A i : i \in 1 .. Len(M) <=> i = 1 \/ i = 2
    BY <1>1, <1>3 DEF RequestThenCancel
  <2>2. /\ IdsOf(M, "request") = {id} /\ IdsOf(M, "response") = {}
        /\ IdsOf(M, "cancel") = {id}
    BY <1>1, <2>1 DEF IdsOf
  <2>3. AnsweredOnce(M) /\ M # <<Request(id)>>
    BY <1>1, <2>1 DEF AnsweredOnce
  <2> QED BY <2>1, <2>2, <2>3
<1> QED BY <1>2, <1>3

(* Appending messages without a response. *)
LEMMA QueueWithoutResponse ==
    ASSUME NEW Q \in Seq(Messages), NEW M \in Seq(Messages), NEW mine, QueueOK(Q, mine),
           IdsOf(M, "response") = {}
    PROVE  /\ QueueOK(Q \o M, mine)
           /\ IdsOf(Q \o M, "response") = IdsOf(Q, "response")
<1>1. \A i \in 1 .. Len(M) : M[i].kind # "response"
  BY DEF IdsOf
<1>2. AnsweredOnce(M)
  BY <1>1 DEF AnsweredOnce
<1>3. AnsweredOnce(Q \o M) /\ IdsOf(Q \o M, "response") = IdsOf(Q, "response")
  <2>1. IdsOf(Q \o M, "response") = IdsOf(Q, "response") \cup IdsOf(M, "response")
    BY IdsOfConcat
  <2>2. AnsweredOnce(Q)
    BY DEF QueueOK
  <2>3. AnsweredOnce(Q \o M)
    BY <1>2, <2>2, OnceConcat
  <2> QED BY <2>1, <2>3
<1>4. \A i \in 1 .. Len(Q \o M) :
          \/ i \in 1 .. Len(Q) /\ (Q \o M)[i] = Q[i]
          \/ i - Len(Q) \in 1 .. Len(M) /\ (Q \o M)[i] = M[i - Len(Q)]
  BY ConcatProperties
<1>5. ASSUME NEW i \in 1 .. Len(Q \o M), (Q \o M)[i].kind = "response"
      PROVE  (Q \o M)[i].result \in Results /\ mine[(Q \o M)[i].id] = (Q \o M)[i].result
  <2>1. i \in 1 .. Len(Q) /\ (Q \o M)[i] = Q[i]
    BY <1>1, <1>4, <1>5
  <2> QED BY <1>5, <2>1 DEF QueueOK
<1> QED BY <1>3, <1>5 DEF QueueOK

(* The sender of messages without a response. *)
LEMMA RegistryOfSend ==
    ASSUME IInv, Registry, NEW p \in Peers, NEW M \in Seq(Messages),
           IdsOf(M, "response") = {},
           writeQueue' = [writeQueue EXCEPT ![p] = @ \o M],
           UNCHANGED <<aborted, incomingRequests, responder>>
    PROVE  Registry'
<1>1. /\ writeQueue[p] \in Seq(Messages) /\ writeQueue'[p] = writeQueue[p] \o M
      /\ \A q \in Peers \ {p} : writeQueue'[q] = writeQueue[q]
  BY DEF IInv, TypeOK
<1>2. /\ QueueOK(writeQueue'[p], responder[p])
      /\ IdsOf(writeQueue'[p], "response") = IdsOf(writeQueue[p], "response")
  BY <1>1, QueueWithoutResponse DEF Registry
<1> QED BY <1>1, <1>2 DEF Registry, Open

LEMMA SendRequestAgrees ==
    ASSUME IInv, JInv, NEW p \in Peers, NEW signalAborted \in BOOLEAN, SendRequest(p, signalAborted)
    PROVE  JInv'
<1> DEFINE id == nextRequestId[p]
           M  == IF signalAborted THEN RequestThenCancel(id) ELSE <<Request(id)>>
           q  == Other(p)
<1>1. id \in Ids
  <2>1. id \in 0 .. IdBound /\ MaxRequests[p] \in 0 .. IdBound
    BY MaxRequestsAssumption DEF IInv, TypeOK
  <2>2. id < MaxRequests[p]
    BY DEF SendRequest
  <2> HIDE DEF id
  <2> QED BY <2>1, <2>2, IdBoundAssumption DEF Ids
<1>2. q \in Peers /\ q # p /\ Other(q) = p /\ \A r \in Peers : r = p \/ r = q
  BY OtherPeer
<1>3. /\ ~aborted[p] /\ UNCHANGED <<aborted, writing, wire, incomingRequests, controller, responder>>
      /\ writeQueue' = [writeQueue EXCEPT ![p] = @ \o M]
  BY DEF SendRequest, Enqueue, calleeVars
<1>4. /\ M \in Seq(Messages) /\ AnsweredOnce(M)
      /\ IdsOf(M, "request") = {id} /\ IdsOf(M, "response") = {}
      /\ IdsOf(M, "cancel") \subseteq {id}
      /\ IdsOf(M, "cancel") # {} => signalAborted
  <2>1. M = <<Request(id)>> \/ M = RequestThenCancel(id)
    OBVIOUS
  <2>2. ~signalAborted => M = <<Request(id)>>
    OBVIOUS
  <2> HIDE DEF id, M
  <2> QED BY <1>1, <2>1, <2>2, IdsOfSent
<1>5. /\ pendingResponses'[p] = pendingResponses[p] \cup {id}
      /\ pendingResponses'[q] = pendingResponses[q]
      /\ cancellationSent'[q] = cancellationSent[q]
      /\ cancellationSent[p] \subseteq cancellationSent'[p]
      /\ signalAborted => id \in cancellationSent'[p]
  BY <1>2 DEF SendRequest, IInv, TypeOK
<1> HIDE DEF id, M, q
<1>6. InFlight(p)' = InFlight(p) \o M /\ InFlight(q)' = InFlight(q)
  BY <1>2, <1>3, <1>4, FlightOfSend DEF IInv
<1>7. /\ \A kind : IdsOf(InFlight(p)', kind) = IdsOf(InFlight(p), kind) \cup IdsOf(M, kind)
      /\ AnsweredOnce(InFlight(p)')
  <2>1. InFlight(p) \in Seq(Messages) /\ AnsweredOnce(InFlight(p))
    BY FlightType DEF IInv, JInv, Agreement
  <2> QED BY <1>4, <1>6, <2>1, IdsOfConcat, OnceConcat
<1>8. /\ Unanswered(p)' = Unanswered(p) \cup {id}
      /\ Unanswered(q)' = Unanswered(q)
  BY <1>2, <1>3, <1>4, <1>6, <1>7 DEF Unanswered, Open, q
<1>9. Agreement'
  <2>1. /\ AnsweredOnce(InFlight(p)')
        /\ ~aborted'[p] => Unanswered(p)' \subseteq pendingResponses'[p]
        /\ IdsOf(InFlight(p)', "cancel") \subseteq cancellationSent'[p]
    BY <1>3, <1>4, <1>5, <1>7, <1>8 DEF JInv, Agreement
  <2>2. /\ AnsweredOnce(InFlight(q)')
        /\ ~aborted'[q] => Unanswered(q)' \subseteq pendingResponses'[q]
        /\ IdsOf(InFlight(q)', "cancel") \subseteq cancellationSent'[q]
    BY <1>2, <1>3, <1>5, <1>6, <1>8 DEF JInv, Agreement
  <2> QED BY <1>2, <2>1, <2>2 DEF Agreement
<1>10. Registry'
  BY <1>3, <1>4, RegistryOfSend DEF JInv
<1>11. AbortsAreRequested'
  BY <1>2, <1>3, <1>5, SameAborts DEF JInv
<1> QED BY <1>9, <1>10, <1>11 DEF JInv

LEMMA CancelRequestAgrees ==
    ASSUME IInv, JInv, NEW p \in Peers, NEW id \in Ids, CancelRequest(p, id)
    PROVE  JInv'
<1> DEFINE M == IF aborted[p] THEN <<>> ELSE <<Cancel(id)>>
           q == Other(p)
<1>1. /\ M \in Seq(Messages) /\ AnsweredOnce(M)
      /\ IdsOf(M, "request") = {} /\ IdsOf(M, "response") = {}
      /\ IdsOf(M, "cancel") \subseteq {id}
  <2>1. Cancel(id) \in Messages /\ Cancel(id).kind = "cancel" /\ Cancel(id).id = id
    BY MessageTypes DEF Cancel
  <2>2. CASE aborted[p]
    BY <2>2, IdsOfNone
  <2>3. CASE ~aborted[p]
    <3>1. M = <<Cancel(id)>> /\ M \in Seq(Messages)
      BY <2>1, <2>3
    <3>2. \A kind : IdsOf(<<Cancel(id)>>, kind) = IF "cancel" = kind THEN {id} ELSE {}
      BY <2>1, IdsOfOne
    <3> QED BY <3>1, <3>2, IdsOfOne
  <2> QED BY <2>2, <2>3
<1>2. q \in Peers /\ q # p /\ Other(q) = p /\ \A r \in Peers : r = p \/ r = q
  BY OtherPeer
<1>3. writeQueue' = [writeQueue EXCEPT ![p] = @ \o M]
  <2>1. writeQueue[p] \o <<>> = writeQueue[p]
    BY ConcatEmptySeq DEF IInv, TypeOK
  <2>2. writeQueue = [writeQueue EXCEPT ![p] = writeQueue[p]]
    BY DEF IInv, TypeOK
  <2> QED BY <2>1, <2>2 DEF CancelRequest, Enqueue
<1>4. /\ UNCHANGED <<aborted, pendingResponses, writing, wire, incomingRequests, controller, responder>>
      /\ cancellationSent'[p] = cancellationSent[p] \cup {id}
      /\ cancellationSent'[q] = cancellationSent[q]
  BY <1>2 DEF CancelRequest, calleeVars, IInv, TypeOK
<1> HIDE DEF M, q
<1>5. InFlight(p)' = InFlight(p) \o M /\ InFlight(q)' = InFlight(q)
  BY <1>1, <1>2, <1>3, <1>4, FlightOfSend DEF IInv
<1>6. /\ \A kind : IdsOf(InFlight(p)', kind) = IdsOf(InFlight(p), kind) \cup IdsOf(M, kind)
      /\ AnsweredOnce(InFlight(p)')
  <2>1. InFlight(p) \in Seq(Messages) /\ AnsweredOnce(InFlight(p))
    BY FlightType DEF IInv, JInv, Agreement
  <2> QED BY <1>1, <1>5, <2>1, IdsOfConcat, OnceConcat
<1>7. Unanswered(p)' = Unanswered(p) /\ Unanswered(q)' = Unanswered(q)
  BY <1>1, <1>2, <1>4, <1>5, <1>6 DEF Unanswered, Open, q
<1>8. Agreement'
  <2>1. /\ AnsweredOnce(InFlight(p)')
        /\ ~aborted'[p] => Unanswered(p)' \subseteq pendingResponses'[p]
        /\ IdsOf(InFlight(p)', "cancel") \subseteq cancellationSent'[p]
    BY <1>1, <1>4, <1>6, <1>7 DEF JInv, Agreement
  <2>2. /\ AnsweredOnce(InFlight(q)')
        /\ ~aborted'[q] => Unanswered(q)' \subseteq pendingResponses'[q]
        /\ IdsOf(InFlight(q)', "cancel") \subseteq cancellationSent'[q]
    BY <1>2, <1>4, <1>5, <1>7 DEF JInv, Agreement
  <2> QED BY <1>2, <2>1, <2>2 DEF Agreement
<1>9. Registry'
  BY <1>1, <1>3, <1>4, RegistryOfSend DEF JInv
<1>10. AbortsAreRequested'
  BY <1>2, <1>4, SameAborts DEF JInv
<1> QED BY <1>8, <1>9, <1>10 DEF JInv

(* An open responder becomes a response under way, which no other precedes. *)
LEMMA RespondAgrees ==
    ASSUME IInv, JInv, NEW q \in Peers, NEW id \in Ids, NEW r \in Results, Respond(q, id, r)
    PROVE  JInv'
<1> DEFINE m == Response(id, r)
           M == IF aborted[q] THEN <<>> ELSE <<m>>
           p == Other(q)
           Q == writeQueue[q]
<1>1. /\ m \in Messages /\ m.kind = "response" /\ m.id = id /\ m.result = r
  BY MessageTypes DEF Response
<1> HIDE DEF m
<1>2. /\ M \in Seq(Messages) /\ AnsweredOnce(M)
      /\ IdsOf(M, "request") = {} /\ IdsOf(M, "cancel") = {}
      /\ IdsOf(M, "response") = IF aborted[q] THEN {} ELSE {id}
  <2>1. CASE aborted[q]
    BY <2>1, IdsOfNone
  <2>2. CASE ~aborted[q]
    <3>1. M = <<m>> /\ M \in Seq(Messages)
      BY <1>1, <2>2
    <3>2. \A kind : IdsOf(<<m>>, kind) = IF "response" = kind THEN {id} ELSE {}
      BY <1>1, IdsOfOne
    <3> QED BY <2>2, <3>1, <3>2, IdsOfOne
  <2> QED BY <2>1, <2>2
<1>3. p \in Peers /\ p # q /\ Other(p) = q /\ \A s \in Peers : s = p \/ s = q
  BY OtherPeer
<1>4. writeQueue' = [writeQueue EXCEPT ![q] = @ \o M]
  <2>1. writeQueue[q] \o <<>> = writeQueue[q]
    BY ConcatEmptySeq DEF IInv, TypeOK
  <2>2. writeQueue = [writeQueue EXCEPT ![q] = writeQueue[q]]
    BY DEF IInv, TypeOK
  <2> QED BY <2>1, <2>2 DEF Respond, Enqueue, m
<1>5. /\ UNCHANGED <<aborted, pendingResponses, cancellationSent, writing, wire,
                     incomingRequests, controller>>
      /\ responder[q][id] = "open" /\ responder'[q][id] = r
      /\ \A k \in Ids \ {id} : responder'[q][k] = responder[q][k]
      /\ responder'[p] = responder[p]
  BY <1>3 DEF IInv, TypeOK, Respond, MayRespond, callerVars
<1>6. Q \in Seq(Messages) /\ writeQueue'[q] = Q \o M /\ writeQueue'[p] = writeQueue[p]
  BY <1>3, <1>4 DEF IInv, TypeOK
<1>7. QueueOK(Q, responder[q])
  BY DEF JInv, Registry
<1>8. "open" \notin Results
  BY DEF Results
<1> HIDE DEF M, p, Q
<1>9. InFlight(q)' = InFlight(q) \o M /\ InFlight(p)' = InFlight(p)
  BY <1>2, <1>3, <1>4, <1>5, FlightOfSend DEF IInv
<1>10. /\ Open(q)' = Open(q) \ {id} /\ id \in Open(q) /\ Open(p)' = Open(p)
  BY <1>5, <1>8 DEF Open
<1>11. /\ \A kind : IdsOf(InFlight(q)', kind) = IdsOf(InFlight(q), kind) \cup IdsOf(M, kind)
       /\ AnsweredOnce(InFlight(q)')
  <2>1. InFlight(q) \in Seq(Messages) /\ AnsweredOnce(InFlight(q))
    BY FlightType DEF IInv, JInv, Agreement
  <2>2. id \notin IdsOf(InFlight(q), "response")
    <3>1. FlowOK(InFlight(q), nextRequestId[q], responder[q], responder[Other(q)])
      BY DEF IInv, Flow
    <3>2. \A k \in IdsOf(InFlight(q), "response") : responder[q][k] \in Results
      BY <3>1 DEF FlowOK, IdsOf
    <3> QED BY <1>5, <1>8, <3>2
  <2>3. IdsOf(InFlight(q), "response") \cap IdsOf(M, "response") = {}
    BY <1>2, <2>2
  <2> QED BY <1>2, <1>9, <2>1, <2>3, IdsOfConcat, OnceConcat
<1>12. Unanswered(p)' \subseteq Unanswered(p) /\ Unanswered(q)' = Unanswered(q)
  BY <1>2, <1>3, <1>9, <1>10, <1>11 DEF Unanswered, p
<1>13. Agreement'
  <2>1. /\ AnsweredOnce(InFlight(p)')
        /\ ~aborted'[p] => Unanswered(p)' \subseteq pendingResponses'[p]
        /\ IdsOf(InFlight(p)', "cancel") \subseteq cancellationSent'[p]
    BY <1>3, <1>5, <1>9, <1>12 DEF JInv, Agreement
  <2>2. /\ AnsweredOnce(InFlight(q)')
        /\ ~aborted'[q] => Unanswered(q)' \subseteq pendingResponses'[q]
        /\ IdsOf(InFlight(q)', "cancel") \subseteq cancellationSent'[q]
    BY <1>2, <1>5, <1>11, <1>12 DEF JInv, Agreement
  <2> QED BY <1>3, <2>1, <2>2 DEF Agreement
<1>14. /\ QueueOK(Q \o M, responder'[q])
       /\ IdsOf(Q \o M, "response") = IdsOf(Q, "response") \cup IdsOf(M, "response")
  <2>1. id \notin IdsOf(Q, "response")
    BY <1>5, <1>7, <1>8 DEF QueueOK, IdsOf
  <2>2. /\ AnsweredOnce(Q \o M)
        /\ IdsOf(Q \o M, "response") = IdsOf(Q, "response") \cup IdsOf(M, "response")
    BY <1>2, <1>6, <1>7, <2>1, IdsOfConcat, OnceConcat DEF QueueOK
  <2>3. \A i \in 1 .. Len(Q \o M) :
            \/ i \in 1 .. Len(Q) /\ (Q \o M)[i] = Q[i]
            \/ i - Len(Q) \in 1 .. Len(M) /\ (Q \o M)[i] = M[i - Len(Q)]
    BY <1>2, <1>6, ConcatProperties
  <2>4. \A i \in 1 .. Len(M) : M[i] = m
    BY DEF M
  <2>5. \A i \in 1 .. Len(Q) : Q[i].id \in Ids
    <3>1. \A i \in 1 .. Len(Q) : Q[i] \in Messages
      BY <1>6
    <3> QED BY <3>1 DEF Messages
  <2>6. ASSUME NEW i \in 1 .. Len(Q \o M), (Q \o M)[i].kind = "response"
        PROVE  (Q \o M)[i].result \in Results /\ responder'[q][(Q \o M)[i].id] = (Q \o M)[i].result
    <3>1. CASE i \in 1 .. Len(Q) /\ (Q \o M)[i] = Q[i]
      <4>1. Q[i].result \in Results /\ responder[q][Q[i].id] = Q[i].result
        BY <1>7, <2>6, <3>1 DEF QueueOK
      <4>2. Q[i].id \in Ids \ {id}
        BY <1>5, <1>8, <2>5, <3>1, <4>1
      <4> QED BY <1>5, <3>1, <4>1, <4>2
    <3>2. CASE i - Len(Q) \in 1 .. Len(M) /\ (Q \o M)[i] = M[i - Len(Q)]
      BY <1>1, <1>5, <2>4, <3>2
    <3> QED BY <2>3, <3>1, <3>2
  <2> QED BY <2>2, <2>6 DEF QueueOK
<1>15. Registry'
  <2>1. ~aborted[q] => incomingRequests[q] = Open(q) \cup IdsOf(Q, "response")
    BY DEF JInv, Registry, Q
  <2>2. ~aborted'[q] => incomingRequests'[q] = Open(q)' \cup IdsOf(writeQueue'[q], "response")
    BY <1>2, <1>5, <1>6, <1>10, <1>14, <2>1
  <2>3. /\ QueueOK(writeQueue'[p], responder'[p])
        /\ ~aborted'[p] => incomingRequests'[p] = Open(p)' \cup IdsOf(writeQueue'[p], "response")
    BY <1>3, <1>5, <1>6, <1>10 DEF JInv, Registry
  <2> QED BY <1>3, <1>6, <1>14, <2>2, <2>3 DEF Registry
<1>16. AbortsAreRequested'
  BY <1>5, SameAborts DEF JInv
<1> QED BY <1>13, <1>15, <1>16 DEF JInv

-----------------------------------------------------------------------------
(* Receiving.                                                              *)

(* The oldest message leaves what is under way. *)
LEMMA ReceivedOnce ==
    ASSUME IInv, JInv, NEW p \in Peers, NEW kind, Read(p, kind), UNCHANGED <<writeQueue, writing>>
    PROVE  LET q == Other(p)
               m == Head(wire[q])
           IN  /\ m.id \in Ids /\ InFlight(p)' = InFlight(p)
               /\ AnsweredOnce(InFlight(q)')
               /\ \A k : IdsOf(InFlight(q), k) =
                            IdsOf(InFlight(q)', k) \cup (IF kind = k THEN {m.id} ELSE {})
               /\ kind = "response" => m.id \notin IdsOf(InFlight(q)', "response")
<1> DEFINE q == Other(p)
           m == Head(wire[q])
           F == InFlight(q)
<1>1. q \in Peers
  BY OtherPeer
<1>2. m.id \in Ids /\ m.kind = kind
  BY ReadType DEF IInv, Read
<1>3. F # <<>> /\ Head(F) = m /\ InFlight(q)' = Tail(F) /\ InFlight(p)' = InFlight(p)
  BY FlightOfRead DEF IInv
<1>4. F \in Seq(Messages) /\ AnsweredOnce(F)
  BY <1>1, FlightType DEF IInv, JInv, Agreement
<1> HIDE DEF F, m
<1>5. /\ \A k : IdsOf(F, k) = IdsOf(Tail(F), k) \cup (IF m.kind = k THEN {m.id} ELSE {})
      /\ AnsweredOnce(Tail(F))
      /\ m.kind = "response" => m.id \notin IdsOf(Tail(F), "response")
  BY <1>3, <1>4, IdsOfTail
<1> QED BY <1>2, <1>3, <1>5 DEF F, m

(* A request under way becomes an open responder. *)
LEMMA ReceiveRequestAgrees == ASSUME IInv, JInv, NEW q \in Peers, ReceiveRequest(q) PROVE JInv'
<1> DEFINE p  == Other(q)
           id == Head(wire[p]).id
<1>1. p \in Peers /\ p # q /\ Other(p) = q /\ \A s \in Peers : s = p \/ s = q
  BY OtherPeer
<1>2. /\ id \in Ids /\ InFlight(q)' = InFlight(q)
      /\ AnsweredOnce(InFlight(p)')
      /\ \A k : IdsOf(InFlight(p), k) =
                   IdsOf(InFlight(p)', k) \cup (IF "request" = k THEN {id} ELSE {})
  BY ReceivedOnce DEF ReceiveRequest
<1>3. responder[q][id] = "none"
  BY Received DEF ReceiveRequest
<1>4. /\ UNCHANGED <<aborted, pendingResponses, cancellationSent, writeQueue>>
      /\ responder' = [responder EXCEPT ![q][id] = "open"]
      /\ controller' = [controller EXCEPT ![q][id] = "live"]
      /\ incomingRequests' = [incomingRequests EXCEPT ![q] = @ \cup {id}]
  BY DEF ReceiveRequest, callerVars
<1> HIDE DEF id
<1>5. /\ responder'[q][id] = "open"
      /\ \A k \in Ids \ {id} : responder'[q][k] = responder[q][k]
      /\ responder'[p] = responder[p]
      /\ \A k \in Ids \ {id} : controller'[q][k] = controller[q][k]
      /\ controller'[q][id] = "live" /\ controller'[p] = controller[p]
      /\ incomingRequests'[q] = incomingRequests[q] \cup {id}
      /\ incomingRequests'[p] = incomingRequests[p]
  BY <1>1, <1>2, <1>4 DEF IInv, TypeOK
<1> HIDE DEF p
<1>6. Open(q)' = Open(q) \cup {id} /\ Open(p)' = Open(p)
  BY <1>2, <1>5 DEF Open
<1>7. /\ IdsOf(InFlight(p), "request") = IdsOf(InFlight(p)', "request") \cup {id}
      /\ IdsOf(InFlight(p), "response") = IdsOf(InFlight(p)', "response")
      /\ IdsOf(InFlight(p), "cancel") = IdsOf(InFlight(p)', "cancel")
  BY <1>2
<1>8. Unanswered(p)' = Unanswered(p) /\ Unanswered(q)' = Unanswered(q)
  BY <1>1, <1>2, <1>6, <1>7 DEF Unanswered, p
<1>9. Agreement'
  <2>1. /\ AnsweredOnce(InFlight(p)')
        /\ ~aborted'[p] => Unanswered(p)' \subseteq pendingResponses'[p]
        /\ IdsOf(InFlight(p)', "cancel") \subseteq cancellationSent'[p]
    BY <1>1, <1>2, <1>4, <1>7, <1>8 DEF JInv, Agreement
  <2>2. /\ AnsweredOnce(InFlight(q)')
        /\ ~aborted'[q] => Unanswered(q)' \subseteq pendingResponses'[q]
        /\ IdsOf(InFlight(q)', "cancel") \subseteq cancellationSent'[q]
    BY <1>2, <1>4, <1>8 DEF JInv, Agreement
  <2> QED BY <1>1, <2>1, <2>2 DEF Agreement
<1>10. QueueOK(writeQueue[q], responder'[q])
  <2> DEFINE Q == writeQueue[q]
  <2>1. QueueOK(Q, responder[q])
    BY DEF JInv, Registry
  <2>2. \A i \in 1 .. Len(Q) : Q[i].id \in Ids
    <3>1. \A i \in 1 .. Len(Q) : Q[i] \in Messages
      BY DEF IInv, TypeOK
    <3> QED BY <3>1 DEF Messages
  <2> HIDE DEF Q
  <2>3. \A i \in 1 .. Len(Q) : Q[i].kind = "response" => Q[i].id \in Ids \ {id}
    BY <1>3, <2>1, <2>2 DEF QueueOK, Results
  <2> QED BY <1>5, <2>1, <2>3 DEF QueueOK, Q
<1>11. Registry'
  BY <1>1, <1>4, <1>5, <1>6, <1>10 DEF JInv, Registry
<1>12. AbortsAreRequested'
  <2>1. \A s \in Peers, k \in Ids : controller'[s][k] = "aborted" => controller[s][k] = "aborted"
    BY <1>1, <1>2, <1>5
  <2> QED BY <1>4, <2>1, SameAborts DEF JInv
<1> QED BY <1>9, <1>11, <1>12 DEF JInv

(* A cancellation under way was asked for. *)
LEMMA ReceiveCancelAgrees == ASSUME IInv, JInv, NEW q \in Peers, ReceiveCancel(q) PROVE JInv'
<1> DEFINE p  == Other(q)
           id == Head(wire[p]).id
<1>1. p \in Peers /\ p # q /\ Other(p) = q /\ \A s \in Peers : s = p \/ s = q
  BY OtherPeer
<1>2. /\ id \in Ids /\ InFlight(q)' = InFlight(q)
      /\ AnsweredOnce(InFlight(p)')
      /\ \A k : IdsOf(InFlight(p), k) =
                   IdsOf(InFlight(p)', k) \cup (IF "cancel" = k THEN {id} ELSE {})
  BY ReceivedOnce DEF ReceiveCancel
<1>3. /\ UNCHANGED <<aborted, pendingResponses, cancellationSent, writeQueue,
                     incomingRequests, responder>>
      /\ \A k \in Ids \ {id} : controller'[q][k] = controller[q][k]
      /\ controller'[p] = controller[p]
  BY <1>1 DEF ReceiveCancel, callerVars, CancelTarget, IInv, TypeOK
<1> HIDE DEF id, p
<1>4. id \in cancellationSent[p]
  BY <1>1, <1>2 DEF JInv, Agreement
<1>5. Agreement'
  <2>1. \A s \in Peers :
            /\ AnsweredOnce(InFlight(s)')
            /\ \A kind : IdsOf(InFlight(s)', kind) \subseteq IdsOf(InFlight(s), kind)
    BY <1>1, <1>2 DEF JInv, Agreement
  <2> QED BY <1>3, <2>1, FlightsShrink DEF JInv
<1>6. Registry'
  BY <1>3, SameRegistry DEF JInv
<1>7. AbortsAreRequested'
  <2>1. ASSUME NEW k \in Ids, controller'[q][k] = "aborted"
        PROVE  aborted[q] \/ k \in cancellationSent[p]
    <3>1. CASE k = id
      BY <3>1, <1>4
    <3>2. CASE k # id
      BY <2>1, <3>2, <1>3 DEF JInv, AbortsAreRequested, p
    <3> QED BY <3>1, <3>2
  <2>2. ASSUME NEW k \in Ids, controller'[p][k] = "aborted"
        PROVE  aborted[p] \/ k \in cancellationSent[q]
    BY <2>2, <1>1, <1>3 DEF JInv, AbortsAreRequested
  <2> QED BY <1>1, <1>3, <2>1, <2>2 DEF AbortsAreRequested, p
<1> QED BY <1>5, <1>6, <1>7 DEF JInv

(* A response that is received was the only thing its request waited for.  *)
LEMMA ReceiveResponseAgrees == ASSUME IInv, JInv, NEW p \in Peers, ReceiveResponse(p) PROVE JInv'
<1> DEFINE q  == Other(p)
           id == Head(wire[q]).id
<1>1. q \in Peers /\ q # p /\ Other(q) = p /\ \A s \in Peers : s = p \/ s = q
  BY OtherPeer
<1>2. /\ id \in Ids /\ InFlight(p)' = InFlight(p)
      /\ AnsweredOnce(InFlight(q)')
      /\ \A k : IdsOf(InFlight(q), k) =
                   IdsOf(InFlight(q)', k) \cup (IF "response" = k THEN {id} ELSE {})
      /\ id \notin IdsOf(InFlight(q)', "response")
  BY ReceivedOnce DEF ReceiveResponse
<1>3. responder[q][id] \in Results
  BY Received DEF ReceiveResponse
<1>4. /\ UNCHANGED <<aborted, cancellationSent, writeQueue, incomingRequests, controller, responder>>
      /\ pendingResponses'[p] = pendingResponses[p] \ {id}
      /\ pendingResponses'[q] = pendingResponses[q]
  BY <1>1 DEF ReceiveResponse, calleeVars, PendingFor, IInv, TypeOK
<1> HIDE DEF id, q
<1>5. id \notin Unanswered(p)'
  <2>1. id \notin Open(q)
    BY <1>3 DEF Open, Results
  <2>2. id \notin IdsOf(InFlight(p), "request")
    <3>1. FlowOK(InFlight(p), nextRequestId[p], responder[p], responder[q])
      BY DEF IInv, Flow, q
    <3>2. \A k \in IdsOf(InFlight(p), "request") : responder[q][k] = "none"
      BY <3>1 DEF FlowOK, IdsOf
    <3> QED BY <1>3, <3>2 DEF Results
  <2> QED BY <1>2, <1>4, <2>1, <2>2 DEF Unanswered, Open, q
<1>6. Unanswered(p)' \subseteq Unanswered(p) /\ Unanswered(q)' = Unanswered(q)
  BY <1>1, <1>2, <1>4 DEF Unanswered, Open, q
<1>7. Agreement'
  <2>1. /\ AnsweredOnce(InFlight(p)')
        /\ ~aborted'[p] => Unanswered(p)' \subseteq pendingResponses'[p]
        /\ IdsOf(InFlight(p)', "cancel") \subseteq cancellationSent'[p]
    BY <1>2, <1>4, <1>5, <1>6 DEF JInv, Agreement
  <2>2. /\ AnsweredOnce(InFlight(q)')
        /\ ~aborted'[q] => Unanswered(q)' \subseteq pendingResponses'[q]
        /\ IdsOf(InFlight(q)', "cancel") \subseteq cancellationSent'[q]
    BY <1>1, <1>2, <1>4, <1>6 DEF JInv, Agreement
  <2> QED BY <1>1, <2>1, <2>2 DEF Agreement
<1>8. Registry'
  BY <1>4, SameRegistry DEF JInv
<1>9. AbortsAreRequested'
  BY <1>4, SameAborts DEF JInv
<1> QED BY <1>7, <1>8, <1>9 DEF JInv

-----------------------------------------------------------------------------
(* The theorem.                                                            *)

LEMMA InitImpliesJInv == Init => JInv
<1> SUFFICES ASSUME Init PROVE JInv
  OBVIOUS
<1>1. \A p \in Peers : Other(p) \in Peers
  BY OtherPeer
<1>2. \A p \in Peers : InFlight(p) = <<>> /\ Open(p) = {} /\ writeQueue[p] = <<>>
  BY DEF Init, InFlight, Unwritten, Open
<1>3. Agreement
  BY <1>1, <1>2, IdsOfNone DEF Agreement, Unanswered
<1>4. Registry
  BY <1>2, IdsOfNone DEF Init, Registry, QueueOK
<1>5. AbortsAreRequested
  BY DEF Init, AbortsAreRequested
<1> QED BY <1>3, <1>4, <1>5 DEF JInv

LEMMA NextKeepsJInv == IInv /\ JInv /\ [Next]_vars => JInv'
<1> SUFFICES ASSUME IInv, JInv, [Next]_vars PROVE JInv'
  OBVIOUS
<1>1. ASSUME NEW p \in Peers, NEW signalAborted \in BOOLEAN, SendRequest(p, signalAborted)
      PROVE  JInv'
  BY <1>1, SendRequestAgrees
<1>2. ASSUME NEW p \in Peers, NEW id \in Ids, CancelRequest(p, id) PROVE JInv'
  BY <1>2, CancelRequestAgrees
<1>3. ASSUME NEW p \in Peers, NEW id \in Ids, NEW r \in Results, Respond(p, id, r) PROVE JInv'
  BY <1>3, RespondAgrees
<1>4. ASSUME NEW p \in Peers, Write(p) PROVE JInv'
  BY <1>4, StartWriteAgrees, LandWriteAgrees, FinishWriteAgrees, RejectWritesAgrees DEF Write
<1>5. ASSUME NEW p \in Peers, FailWrite(p) PROVE JInv'
  BY <1>5, FailWriteAgrees
<1>6. ASSUME NEW p \in Peers, Receive(p) PROVE JInv'
  BY <1>6, ReceiveRequestAgrees, ReceiveCancelAgrees, ReceiveResponseAgrees DEF Receive
<1>7. ASSUME NEW p \in Peers, Close(p) PROVE JInv'
  BY <1>7, CloseAgrees
<1>8. CASE UNCHANGED vars
  <2>1. UNCHANGED <<aborted, pendingResponses, cancellationSent, writeQueue,
                    incomingRequests, controller, responder>>
    BY <1>8 DEF vars, callerVars, writeVars, calleeVars
  <2>2. \A p \in Peers : InFlight(p)' = InFlight(p)
    BY <1>8 DEF vars, writeVars, InFlight, Unwritten
  <2> QED BY <2>1, <2>2, SameFlights, SameRegistry, SameAborts DEF JInv
<1> QED BY <1>1, <1>2, <1>3, <1>4, <1>5, <1>6, <1>7, <1>8 DEF Next

(* What is expected of the messages follows. *)
LEMMA JInvImpliesPeersAgree == IInv /\ JInv => PeersAgree
<1> SUFFICES ASSUME IInv, JInv PROVE PeersAgree
  OBVIOUS
<1>1. ResponsesAreExpected
  <2> SUFFICES ASSUME NEW p \in Peers, ~aborted[p],
                      NEW i \in 1 .. Len(InFlight(Other(p))),
                      InFlight(Other(p))[i].kind = "response"
               PROVE  /\ InFlight(Other(p))[i].id \in pendingResponses[p]
                      /\ \A j \in 1 .. Len(InFlight(Other(p))) :
                             j # i => InFlight(Other(p))[j] # InFlight(Other(p))[i]
    BY DEF ResponsesAreExpected
  <2> DEFINE F == InFlight(Other(p))
  <2>1. AnsweredOnce(F)
    BY OtherPeer DEF JInv, Agreement
  <2>2. IdsOf(F, "response") \subseteq pendingResponses[p]
    BY DEF JInv, Agreement, Unanswered
  <2> HIDE DEF F
  <2>3. F[i].id \in IdsOf(F, "response")
    BY DEF IdsOf, F
  <2>4. \A j \in 1 .. Len(F) : j # i => F[j] # F[i]
    BY <2>1 DEF AnsweredOnce, F
  <2> QED BY <2>2, <2>3, <2>4 DEF F
<1>2. RegisteredUntilWritten
  <2> SUFFICES ASSUME NEW q \in Peers
               PROVE  \A id \in Ids :
                          id \in IdsOf(writeQueue[q], "response") <=>
                          \E r \in Results : Response(id, r) \in Entries(writeQueue[q])
    <3>1. ASSUME NEW q \in Peers, ~aborted[q]
          PROVE  incomingRequests[q] = Open(q) \cup IdsOf(writeQueue[q], "response")
      BY <3>1 DEF JInv, Registry
    <3>2. ASSUME NEW q \in Peers
          PROVE  IdsOf(writeQueue[q], "response") \subseteq Ids
      BY IdsOfType DEF IInv, TypeOK
    <3> QED BY <3>1, <3>2 DEF RegisteredUntilWritten, Open
  <2> DEFINE Q == writeQueue[q]
  <2>1. QueueOK(Q, responder[q])
    BY DEF JInv, Registry
  <2>2. \A i \in 1 .. Len(Q) : Q[i] \in Messages
    BY DEF IInv, TypeOK
  <2> HIDE DEF Q
  <2>3. ASSUME NEW i \in 1 .. Len(Q), Q[i].kind = "response"
        PROVE  Q[i].result \in Results /\ Q[i] = Response(Q[i].id, Q[i].result)
    BY <2>1, <2>2, <2>3 DEF QueueOK, Messages, Response
  <2>4. ASSUME NEW id \in Ids, NEW r \in Results
        PROVE  Response(id, r).kind = "response" /\ Response(id, r).id = id
    BY DEF Response
  <2> QED BY <2>3, <2>4 DEF IdsOf, Entries, Q
<1>3. AbortsAreRequested
  BY DEF JInv
<1> QED BY <1>1, <1>2, <1>3 DEF PeersAgree

(* However requests, cancellations, answers, failing writes and closes     *)
(* cross each other, every response finds its request pending and comes    *)
(* once, the callee can be told to cancel a request exactly from its       *)
(* receipt to the writing of its response, and no handler is stopped that  *)
(* its caller did not cancel.                                              *)
THEOREM EndsAgree == Spec => []PeersAgree
<1>1. Spec => []IInv
  BY Invariance
<1>2. IInv /\ JInv /\ [Next]_vars => JInv'
  BY NextKeepsJInv
<1>3. IInv /\ JInv => PeersAgree
  BY JInvImpliesPeersAgree
<1> QED BY <1>1, <1>2, <1>3, InitImpliesJInv, PTL DEF Spec

-----------------------------------------------------------------------------
(* Nothing is lost: the safety part of AnswersAndCancelsArrive.  On top of *)
(* IInv and JInv: while both connections are open, each pending request    *)
(* still has what leads to its answer, and each cancellation has arrived,  *)
(* came too late, or is under way, behind its request.                     *)

CancelsBehind(F) ==
    \A i, j \in 1 .. Len(F) :
        F[i].kind = "request" /\ F[j].kind = "cancel" /\ F[i].id = F[j].id => i < j

(* The callee has stopped the request, or its handler has answered. *)
Told(p, id) ==
    \/ controller[Other(p)][id] = "aborted"
    \/ responder[Other(p)][id] \in Results

NothingIsLost ==
    \A p \in Peers : ~aborted[p] /\ ~aborted[Other(p)] =>
        /\ pendingResponses[p] \subseteq Unanswered(p)
        /\ \A id \in cancellationSent[p] : Told(p, id) \/ id \in IdsOf(InFlight(p), "cancel")

(* Only what was issued is cancelled or may be, only close() closes a      *)
(* promise, and a controller comes with its responder.                     *)
Issued ==
    \A p \in Peers :
        /\ \A id \in listeners[p] \cup cancellationSent[p] : id < nextRequestId[p]
        /\ ~aborted[p] => \A id \in Ids : promise[p][id] # "closed"
        /\ \A id \in Ids : responder[p][id] = "none" => controller[p][id] = "none"

KInv ==
    /\ \A p \in Peers : CancelsBehind(InFlight(p))
    /\ Issued
    /\ NothingIsLost

-----------------------------------------------------------------------------
(* Cancellations behind their requests.                                    *)

LEMMA BehindPrefix ==
    ASSUME NEW F \in Seq(Messages), NEW G \in Seq(Messages), CancelsBehind(F),
           Len(G) <= Len(F), \A i \in 1 .. Len(G) : G[i] = F[i]
    PROVE  CancelsBehind(G)
<1>1. \A i \in 1 .. Len(G) : i \in 1 .. Len(F)
  OBVIOUS
<1> QED BY <1>1 DEF CancelsBehind

LEMMA BehindTail ==
    ASSUME NEW F \in Seq(Messages), F # <<>>, CancelsBehind(F)
    PROVE  /\ CancelsBehind(Tail(F))
           /\ Head(F).kind = "cancel" => Head(F).id \notin IdsOf(F, "request")
<1> DEFINE T == Tail(F)
<1>1. /\ Len(F) \in Nat \ {0} /\ Head(F) = F[1] /\ 1 \in 1 .. Len(F)
      /\ T \in Seq(Messages) /\ Len(T) = Len(F) - 1
      /\ \A i \in 1 .. Len(T) : i + 1 \in 1 .. Len(F) /\ T[i] = F[i + 1]
  BY HeadTailProperties
<1> HIDE DEF T
<1>2. CancelsBehind(T)
  <2> SUFFICES ASSUME NEW i \in 1 .. Len(T), NEW j \in 1 .. Len(T),
                      T[i].kind = "request", T[j].kind = "cancel", T[i].id = T[j].id
               PROVE  i < j
    BY DEF CancelsBehind
  <2>1. i + 1 < j + 1
    BY <1>1 DEF CancelsBehind
  <2> QED BY <2>1, <1>1
<1>3. ASSUME Head(F).kind = "cancel", Head(F).id \in IdsOf(F, "request") PROVE FALSE
  <2>1. PICK i \in 1 .. Len(F) : F[i].kind = "request" /\ F[i].id = F[1].id
    BY <1>1, <1>3 DEF IdsOf
  <2>2. i < 1
    BY <1>1, <1>3, <2>1 DEF CancelsBehind
  <2> QED BY <1>1, <2>2
<1> QED BY <1>2, <1>3 DEF T

LEMMA BehindConcat ==
    ASSUME NEW F \in Seq(Messages), NEW M \in Seq(Messages),
           CancelsBehind(F), CancelsBehind(M),
           IdsOf(F, "cancel") \cap IdsOf(M, "request") = {}
    PROVE  CancelsBehind(F \o M)
<1> DEFINE G == F \o M
<1>1. /\ Len(F) \in Nat /\ Len(M) \in Nat
      /\ \A i \in 1 .. Len(G) : i \in Int
      /\ \A i \in 1 .. Len(G) :
            \/ i \in 1 .. Len(F) /\ G[i] = F[i]
            \/ i - Len(F) \in 1 .. Len(M) /\ G[i] = M[i - Len(F)]
  BY ConcatProperties
<1>2. \A i \in 1 .. Len(M), j \in 1 .. Len(F) :
          M[i].kind = "request" /\ F[j].kind = "cancel" => M[i].id # F[j].id
  BY DEF IdsOf
<1> HIDE DEF G
<1>3. ASSUME NEW i \in 1 .. Len(G), NEW j \in 1 .. Len(G),
             G[i].kind = "request", G[j].kind = "cancel", G[i].id = G[j].id
      PROVE  i < j
  <2>1. CASE i \in 1 .. Len(F) /\ G[i] = F[i] /\ j \in 1 .. Len(F) /\ G[j] = F[j]
    BY <1>3, <2>1 DEF CancelsBehind
  <2>2. CASE /\ i - Len(F) \in 1 .. Len(M) /\ G[i] = M[i - Len(F)]
             /\ j - Len(F) \in 1 .. Len(M) /\ G[j] = M[j - Len(F)]
    <3>1. i - Len(F) < j - Len(F)
      BY <1>3, <2>2 DEF CancelsBehind
    <3> QED BY <3>1, <1>1
  <2>3. CASE i \in 1 .. Len(F) /\ j - Len(F) \in 1 .. Len(M)
    BY <1>1, <2>3
  <2>4. CASE j \in 1 .. Len(F) /\ G[j] = F[j] /\ i - Len(F) \in 1 .. Len(M) /\ G[i] = M[i - Len(F)]
    BY <1>2, <1>3, <2>4
  <2> QED BY <1>1, <2>1, <2>2, <2>3, <2>4
<1> QED BY <1>3 DEF CancelsBehind, G

(* A step that sends messages without a request keeps the order. *)
LEMMA BehindSent ==
    ASSUME NEW F \in Seq(Messages), NEW M \in Seq(Messages),
           CancelsBehind(F), IdsOf(M, "request") = {}
    PROVE  CancelsBehind(F \o M)
<1>1. \A i \in 1 .. Len(M) : M[i].kind # "request"
  BY DEF IdsOf
<1>2. CancelsBehind(M)
  BY <1>1 DEF CancelsBehind
<1> QED BY <1>2, BehindConcat

-----------------------------------------------------------------------------
(* A step that changes nothing for a connection that stays open. *)
LEMMA Undisturbed ==
    ASSUME KInv, UNCHANGED <<responder, cancellationSent, nextRequestId>>,
           \A p \in Peers :
               /\ CancelsBehind(InFlight(p)')
               /\ listeners'[p] \subseteq listeners[p]
               /\ \A id \in Ids : responder[p][id] = "none" => controller'[p][id] = controller[p][id]
               /\ ~aborted'[p] => /\ ~aborted[p]
                                  /\ InFlight(p)' = InFlight(p)
                                  /\ promise'[p] = promise[p]
                                  /\ pendingResponses'[p] = pendingResponses[p]
                                  /\ controller'[p] = controller[p]
    PROVE  KInv'
<1>1. Issued'
  <2> SUFFICES ASSUME NEW p \in Peers
               PROVE  /\ \A id \in listeners'[p] \cup cancellationSent[p] : id < nextRequestId[p]
                      /\ ~aborted'[p] => \A id \in Ids : promise'[p][id] # "closed"
                      /\ \A id \in Ids : responder[p][id] = "none" => controller'[p][id] = "none"
    BY DEF Issued
  <2>1. \A id \in listeners'[p] \cup cancellationSent[p] : id < nextRequestId[p]
    BY DEF KInv, Issued
  <2>2. ~aborted'[p] => \A id \in Ids : promise'[p][id] # "closed"
    BY DEF KInv, Issued
  <2>3. \A id \in Ids : responder[p][id] = "none" => controller'[p][id] = "none"
    BY DEF KInv, Issued
  <2> QED BY <2>1, <2>2, <2>3
<1>2. NothingIsLost'
  <2> SUFFICES ASSUME NEW p \in Peers, ~aborted'[p], ~aborted'[Other(p)]
               PROVE  /\ pendingResponses'[p] \subseteq Unanswered(p)'
                      /\ \A id \in cancellationSent'[p] :
                            Told(p, id)' \/ id \in IdsOf(InFlight(p)', "cancel")
    BY DEF NothingIsLost
  <2>1. Other(p) \in Peers
    BY OtherPeer
  <2>2. Unanswered(p)' = Unanswered(p)
    BY <2>1 DEF Unanswered, Open
  <2>3. ASSUME NEW id PROVE Told(p, id)' = Told(p, id)
    BY <2>1 DEF Told
  <2> QED BY <2>1, <2>2, <2>3 DEF KInv, NothingIsLost
<1> QED BY <1>1, <1>2 DEF KInv

(* The registry of an open connection knows what may be stopped. *)
LEMMA Registered ==
    ASSUME JInv, NEW q \in Peers, ~aborted[q]
    PROVE  /\ \A id \in Ids : responder[q][id] = "open" => id \in incomingRequests[q]
           /\ \A id \in incomingRequests[q] : responder[q][id] # "none"
<1>1. /\ QueueOK(writeQueue[q], responder[q])
      /\ incomingRequests[q] = Open(q) \cup IdsOf(writeQueue[q], "response")
  BY DEF JInv, Registry
<1>2. \A id \in IdsOf(writeQueue[q], "response") : responder[q][id] \in Results
  BY <1>1 DEF QueueOK, IdsOf
<1>3. \A id \in Open(q) : responder[q][id] = "open"
  BY DEF Open
<1> QED BY <1>1, <1>2, <1>3 DEF Open, Results

-----------------------------------------------------------------------------
(* The write chain and closing.                                            *)

LEMMA WriteLoses == ASSUME IInv, KInv, NEW p \in Peers, Write(p) PROVE KInv'
<1>1. UNCHANGED <<aborted, nextRequestId, listeners, promise, pendingResponses, cancellationSent,
                  controller, responder>>
  BY DEF Write, StartWrite, LandWrite, FinishWrite, RejectWrites, callerVars, calleeVars
<1>2. CASE StartWrite(p) \/ LandWrite(p) \/ FinishWrite(p)
  <2>1. \A q \in Peers : InFlight(q)' = InFlight(q)
    <3>1. CASE StartWrite(p)
      BY <3>1 DEF IInv, StartWrite, TypeOK, InFlight, Unwritten
    <3> QED BY <1>2, <3>1, FlightOfLand, FlightOfFinish DEF IInv
  <2> QED BY <1>1, <2>1, Undisturbed DEF KInv
<1>3. CASE RejectWrites(p)
  <2>1. /\ writeQueue' = [writeQueue EXCEPT ![p] = <<>>] /\ aborted[p] /\ UNCHANGED wire
        /\ writing' = [writing EXCEPT ![p] = "idle"]
    BY <1>3 DEF RejectWrites, IInv, TypeOK
  <2>2. \A q \in Peers : /\ InFlight(q)' \in Seq(Messages)
                         /\ Len(InFlight(q)') <= Len(InFlight(q))
                         /\ \A i \in 1 .. Len(InFlight(q)') : InFlight(q)'[i] = InFlight(q)[i]
    BY <2>1, FlightOfReject DEF IInv
  <2>3. \A q \in Peers : CancelsBehind(InFlight(q)')
    BY <2>2, FlightType, BehindPrefix DEF IInv, KInv
  <2>4. \A q \in Peers : ~aborted[q] => InFlight(q)' = InFlight(q)
    BY <2>1 DEF IInv, TypeOK, InFlight, Unwritten
  <2> QED BY <1>1, <2>3, <2>4, Undisturbed
<1> QED BY <1>2, <1>3 DEF Write

(* What close() stops had been received. *)
LEMMA ClosesOne ==
    ASSUME IInv, JInv, NEW p \in Peers, ~aborted[p], CloseEffects(p)
    PROVE  /\ aborted'[p]
           /\ \A q \in Peers \ {p} : /\ aborted'[q] = aborted[q]
                                     /\ promise'[q] = promise[q]
                                     /\ pendingResponses'[q] = pendingResponses[q]
                                     /\ controller'[q] = controller[q]
           /\ \A q \in Peers : /\ listeners'[q] \subseteq listeners[q]
                               /\ \A id \in Ids : responder[q][id] = "none" =>
                                      controller'[q][id] = controller[q][id]
<1>1. /\ aborted'[p]
      /\ \A q \in Peers \ {p} : /\ aborted'[q] = aborted[q]
                                /\ promise'[q] = promise[q]
                                /\ pendingResponses'[q] = pendingResponses[q]
                                /\ controller'[q] = controller[q]
  BY DEF IInv, TypeOK, CloseEffects
<1>2. \A q \in Peers : listeners'[q] \subseteq listeners[q]
  BY DEF IInv, TypeOK, CloseEffects, Cleanup
<1>3. \A id \in Ids : id \notin incomingRequests[p] => controller'[p][id] = controller[p][id]
  BY DEF IInv, TypeOK, CloseEffects
<1> QED BY <1>1, <1>2, <1>3, Registered

LEMMA FailWriteLoses == ASSUME IInv, JInv, KInv, NEW p \in Peers, FailWrite(p) PROVE KInv'
<1>1. /\ UNCHANGED <<nextRequestId, cancellationSent, wire, responder>>
      /\ writeQueue' = [writeQueue EXCEPT ![p] = <<>>]
      /\ writing' = [writing EXCEPT ![p] = "idle"]
  BY DEF FailWrite, callerVars, calleeVars
<1>2. /\ aborted'[p]
      /\ \A q \in Peers \ {p} : /\ aborted'[q] = aborted[q]
                                /\ promise'[q] = promise[q]
                                /\ pendingResponses'[q] = pendingResponses[q]
                                /\ controller'[q] = controller[q]
      /\ \A q \in Peers : /\ listeners'[q] \subseteq listeners[q]
                          /\ \A id \in Ids : responder[q][id] = "none" =>
                                 controller'[q][id] = controller[q][id]
  <2>1. CASE aborted[p]
    BY <2>1 DEF FailWrite, callerVars, calleeVars
  <2>2. CASE ~aborted[p]
    BY <2>2, ClosesOne DEF FailWrite
  <2> QED BY <2>1, <2>2
<1>3. \A q \in Peers : /\ InFlight(q)' \in Seq(Messages)
                       /\ Len(InFlight(q)') <= Len(InFlight(q))
                       /\ \A i \in 1 .. Len(InFlight(q)') : InFlight(q)'[i] = InFlight(q)[i]
  BY <1>1, FlightOfReject DEF IInv
<1>4. \A q \in Peers : CancelsBehind(InFlight(q)')
  BY <1>3, FlightType, BehindPrefix DEF IInv, KInv
<1>5. \A q \in Peers \ {p} : InFlight(q)' = InFlight(q)
  BY <1>1 DEF IInv, TypeOK, InFlight, Unwritten
<1> QED BY <1>1, <1>2, <1>4, <1>5, Undisturbed

LEMMA CloseLoses == ASSUME IInv, JInv, KInv, NEW p \in Peers, Close(p) PROVE KInv'
<1>1. /\ ~aborted[p] /\ CloseEffects(p)
      /\ UNCHANGED <<nextRequestId, cancellationSent, responder>>
      /\ \A q \in Peers : InFlight(q)' = InFlight(q)
  BY DEF Close, writeVars, InFlight, Unwritten
<1>2. \A q \in Peers : CancelsBehind(InFlight(q)')
  BY <1>1 DEF KInv
<1> QED BY <1>1, <1>2, ClosesOne, Undisturbed

-----------------------------------------------------------------------------
(* Sending.                                                                *)

LEMMA SendRequestLoses ==
    ASSUME IInv, JInv, KInv, NEW p \in Peers, NEW signalAborted \in BOOLEAN,
           SendRequest(p, signalAborted)
    PROVE  KInv'
<1> DEFINE id == nextRequestId[p]
           M  == IF signalAborted THEN RequestThenCancel(id) ELSE <<Request(id)>>
           q  == Other(p)
<1>1. id \in Ids /\ id \in Nat
  <2>1. id \in 0 .. IdBound /\ MaxRequests[p] \in 0 .. IdBound
    BY MaxRequestsAssumption DEF IInv, TypeOK
  <2>2. id < MaxRequests[p]
    BY DEF SendRequest
  <2> HIDE DEF id
  <2> QED BY <2>1, <2>2, IdBoundAssumption DEF Ids
<1>2. q \in Peers /\ q # p /\ Other(q) = p /\ \A r \in Peers : r = p \/ r = q
  BY OtherPeer
<1>3. /\ UNCHANGED <<aborted, writing, wire, controller, responder>>
      /\ writeQueue' = [writeQueue EXCEPT ![p] = @ \o M] /\ ~aborted[p]
  BY DEF SendRequest, Enqueue, calleeVars
<1>4. /\ M \in Seq(Messages)
      /\ IdsOf(M, "request") = {id} /\ IdsOf(M, "response") = {}
      /\ signalAborted => IdsOf(M, "cancel") = {id}
  <2>1. M = <<Request(id)>> \/ M = RequestThenCancel(id)
    OBVIOUS
  <2>2. signalAborted => M # <<Request(id)>>
    BY DEF RequestThenCancel
  <2> HIDE DEF id, M
  <2> QED BY <1>1, <2>1, <2>2, IdsOfSent
<1>5. CancelsBehind(M)
  <2>1. CASE signalAborted
    <3>1. Len(M) = 2 /\ M[1] = Request(id) /\ M[2] = Cancel(id)
      BY <2>1 DEF RequestThenCancel
    <3> HIDE DEF M, id
    <3>2. \A i \in 1 .. Len(M) : i = 1 \/ i = 2
      BY <3>1
    <3>3. M[1].kind = "request" /\ M[2].kind = "cancel"
      BY <3>1 DEF Request, Cancel
    <3> QED BY <3>2, <3>3 DEF CancelsBehind
  <2>2. CASE ~signalAborted
    <3>1. Len(M) = 1 /\ M[1] = Request(id)
      BY <2>2
    <3> HIDE DEF M, id
    <3>2. \A i \in 1 .. Len(M) : M[i].kind = "request"
      BY <3>1 DEF Request
    <3> QED BY <3>2 DEF CancelsBehind
  <2> QED BY <2>1, <2>2
<1>6. /\ nextRequestId'[p] = id + 1 /\ nextRequestId'[q] = nextRequestId[q]
      /\ pendingResponses'[p] = pendingResponses[p] \cup {id}
      /\ pendingResponses'[q] = pendingResponses[q]
      /\ promise'[p] = [promise[p] EXCEPT ![id] = "pending"] /\ promise'[q] = promise[q]
      /\ listeners'[p] \subseteq listeners[p] \cup {id} /\ listeners'[q] = listeners[q]
      /\ cancellationSent'[q] = cancellationSent[q]
      /\ cancellationSent'[p] = cancellationSent[p] \cup (IF signalAborted THEN {id} ELSE {})
  BY <1>2 DEF SendRequest, IInv, TypeOK
<1>7. \A k \in listeners[p] \cup cancellationSent[p] : k < id /\ k \in Ids
  BY DEF KInv, Issued, IInv, TypeOK
<1> HIDE DEF id, M, q
<1>8. InFlight(p)' = InFlight(p) \o M /\ InFlight(q)' = InFlight(q) /\ InFlight(p) \in Seq(Messages)
  BY <1>2, <1>3, <1>4, FlightOfSend, FlightType DEF IInv
<1>9. \A kind : IdsOf(InFlight(p)', kind) = IdsOf(InFlight(p), kind) \cup IdsOf(M, kind)
  BY <1>4, <1>8, IdsOfConcat
<1>10. \A r \in Peers : CancelsBehind(InFlight(r)')
  <2>1. IdsOf(InFlight(p), "cancel") \subseteq cancellationSent[p]
    BY DEF JInv, Agreement
  <2>2. \A k \in cancellationSent[p] : k # id
    BY <1>1, <1>7 DEF Ids
  <2>3. CancelsBehind(InFlight(p)')
    BY <1>4, <1>5, <1>8, <2>1, <2>2, BehindConcat DEF KInv
  <2> QED BY <1>2, <1>8, <2>3 DEF KInv
<1>11. Issued'
  <2>1. \A k \in listeners'[p] \cup cancellationSent'[p] : k < nextRequestId'[p]
    BY <1>1, <1>6, <1>7 DEF Ids
  <2>2. \A k \in Ids : promise'[p][k] # "closed"
    BY <1>3, <1>6 DEF KInv, Issued, IInv, TypeOK
  <2>3. /\ \A k \in listeners'[q] \cup cancellationSent'[q] : k < nextRequestId'[q]
        /\ ~aborted'[q] => \A k \in Ids : promise'[q][k] # "closed"
    BY <1>2, <1>3, <1>6 DEF KInv, Issued
  <2>4. \A r \in Peers, k \in Ids : responder'[r][k] = "none" => controller'[r][k] = "none"
    BY <1>3 DEF KInv, Issued
  <2> QED BY <1>2, <2>1, <2>2, <2>3, <2>4 DEF Issued
<1>12. \A k : (Told(p, k)' <=> Told(p, k)) /\ (Told(q, k)' <=> Told(q, k))
  BY <1>3 DEF Told
<1>13. NothingIsLost'
  <2>1. Unanswered(p)' = Unanswered(p) \cup {id} /\ Unanswered(q)' = Unanswered(q)
    BY <1>2, <1>3, <1>4, <1>8, <1>9 DEF Unanswered, Open, q
  <2>2. ASSUME ~aborted[q]
        PROVE  /\ pendingResponses'[p] \subseteq Unanswered(p)'
               /\ \A k \in cancellationSent'[p] : Told(p, k)' \/ k \in IdsOf(InFlight(p)', "cancel")
    BY <1>2, <1>3, <1>4, <1>6, <1>9, <1>12, <2>1, <2>2 DEF KInv, NothingIsLost, q
  <2>3. ASSUME ~aborted[q]
        PROVE  /\ pendingResponses'[q] \subseteq Unanswered(q)'
               /\ \A k \in cancellationSent'[q] : Told(q, k)' \/ k \in IdsOf(InFlight(q)', "cancel")
    BY <1>2, <1>3, <1>6, <1>8, <1>12, <2>1, <2>3 DEF KInv, NothingIsLost
  <2> QED BY <1>2, <1>3, <2>2, <2>3 DEF NothingIsLost, q
<1> QED BY <1>10, <1>11, <1>13 DEF KInv

LEMMA CancelRequestLoses ==
    ASSUME IInv, JInv, KInv, NEW p \in Peers, NEW id \in Ids, CancelRequest(p, id)
    PROVE  KInv'
<1> DEFINE M == IF aborted[p] THEN <<>> ELSE <<Cancel(id)>>
           q == Other(p)
<1>1. /\ M \in Seq(Messages)
      /\ IdsOf(M, "request") = {} /\ IdsOf(M, "response") = {}
      /\ ~aborted[p] => IdsOf(M, "cancel") = {id}
  <2>1. Cancel(id) \in Messages /\ Cancel(id).kind = "cancel" /\ Cancel(id).id = id
    BY MessageTypes DEF Cancel
  <2>2. CASE aborted[p]
    BY <2>2, IdsOfNone
  <2>3. CASE ~aborted[p]
    <3>1. M = <<Cancel(id)>> /\ M \in Seq(Messages)
      BY <2>1, <2>3
    <3>2. \A kind : IdsOf(<<Cancel(id)>>, kind) = IF "cancel" = kind THEN {id} ELSE {}
      BY <2>1, IdsOfOne
    <3> QED BY <3>1, <3>2
  <2> QED BY <2>2, <2>3
<1>2. q \in Peers /\ q # p /\ Other(q) = p /\ \A r \in Peers : r = p \/ r = q
  BY OtherPeer
<1>3. writeQueue' = [writeQueue EXCEPT ![p] = @ \o M]
  <2>1. writeQueue[p] \o <<>> = writeQueue[p]
    BY ConcatEmptySeq DEF IInv, TypeOK
  <2>2. writeQueue = [writeQueue EXCEPT ![p] = writeQueue[p]]
    BY DEF IInv, TypeOK
  <2> QED BY <2>1, <2>2 DEF CancelRequest, Enqueue
<1>4. /\ UNCHANGED <<aborted, nextRequestId, pendingResponses, promise, writing, wire,
                     controller, responder>>
      /\ cancellationSent'[p] = cancellationSent[p] \cup {id}
      /\ cancellationSent'[q] = cancellationSent[q]
      /\ id \in listeners[p]
      /\ listeners'[p] \subseteq listeners[p] /\ listeners'[q] = listeners[q]
  BY <1>2 DEF CancelRequest, Cleanup, calleeVars, IInv, TypeOK
<1> HIDE DEF M, q
<1>5. InFlight(p)' = InFlight(p) \o M /\ InFlight(q)' = InFlight(q) /\ InFlight(p) \in Seq(Messages)
  BY <1>1, <1>2, <1>3, <1>4, FlightOfSend, FlightType DEF IInv
<1>6. \A kind : IdsOf(InFlight(p)', kind) = IdsOf(InFlight(p), kind) \cup IdsOf(M, kind)
  BY <1>1, <1>5, IdsOfConcat
<1>7. \A r \in Peers : CancelsBehind(InFlight(r)')
  BY <1>1, <1>2, <1>5, BehindSent DEF KInv
<1>8. Issued'
  BY <1>2, <1>4 DEF KInv, Issued
<1>9. \A k : (Told(p, k)' <=> Told(p, k)) /\ (Told(q, k)' <=> Told(q, k))
  BY <1>4 DEF Told
<1>10. Unanswered(p)' = Unanswered(p) /\ Unanswered(q)' = Unanswered(q)
  BY <1>1, <1>2, <1>4, <1>5, <1>6 DEF Unanswered, Open, q
<1>11. NothingIsLost'
  <2>1. ASSUME ~aborted[p], ~aborted[q]
        PROVE  /\ pendingResponses'[p] \subseteq Unanswered(p)'
               /\ \A k \in cancellationSent'[p] : Told(p, k)' \/ k \in IdsOf(InFlight(p)', "cancel")
    BY <1>1, <1>2, <1>4, <1>6, <1>9, <1>10, <2>1 DEF KInv, NothingIsLost, q
  <2>2. ASSUME ~aborted[p], ~aborted[q]
        PROVE  /\ pendingResponses'[q] \subseteq Unanswered(q)'
               /\ \A k \in cancellationSent'[q] : Told(q, k)' \/ k \in IdsOf(InFlight(q)', "cancel")
    BY <1>2, <1>4, <1>5, <1>9, <1>10, <2>2 DEF KInv, NothingIsLost
  <2> QED BY <1>2, <1>4, <2>1, <2>2 DEF NothingIsLost, q
<1> QED BY <1>7, <1>8, <1>11 DEF KInv

LEMMA RespondLoses ==
    ASSUME IInv, JInv, KInv, NEW q \in Peers, NEW id \in Ids, NEW r \in Results, Respond(q, id, r)
    PROVE  KInv'
<1> DEFINE m == Response(id, r)
           M == IF aborted[q] THEN <<>> ELSE <<m>>
           p == Other(q)
<1>1. /\ m \in Messages /\ m.kind = "response" /\ m.id = id
  BY MessageTypes DEF Response
<1>2. writeQueue' = [writeQueue EXCEPT ![q] = @ \o M]
  <2>1. writeQueue[q] \o <<>> = writeQueue[q]
    BY ConcatEmptySeq DEF IInv, TypeOK
  <2>2. writeQueue = [writeQueue EXCEPT ![q] = writeQueue[q]]
    BY DEF IInv, TypeOK
  <2> QED BY <2>1, <2>2 DEF Respond, Enqueue
<1> HIDE DEF m
<1>3. /\ M \in Seq(Messages)
      /\ IdsOf(M, "request") = {} /\ IdsOf(M, "cancel") = {}
      /\ ~aborted[q] => IdsOf(M, "response") = {id}
  <2>1. CASE aborted[q]
    BY <2>1, IdsOfNone
  <2>2. CASE ~aborted[q]
    <3>1. M = <<m>> /\ M \in Seq(Messages)
      BY <1>1, <2>2
    <3>2. \A kind : IdsOf(<<m>>, kind) = IF "response" = kind THEN {id} ELSE {}
      BY <1>1, IdsOfOne
    <3> QED BY <3>1, <3>2
  <2> QED BY <2>1, <2>2
<1>4. p \in Peers /\ p # q /\ Other(p) = q /\ \A s \in Peers : s = p \/ s = q
  BY OtherPeer
<1>5. /\ UNCHANGED <<aborted, nextRequestId, pendingResponses, listeners, promise,
                     cancellationSent, writing, wire, controller>>
      /\ responder[q][id] = "open" /\ responder'[q][id] = r
      /\ \A k \in Ids \ {id} : responder'[q][k] = responder[q][k]
      /\ responder'[p] = responder[p]
  BY <1>4 DEF IInv, TypeOK, Respond, MayRespond, callerVars
<1>6. r # "none" /\ r # "open" /\ \A s \in Results : s # "none" /\ s # "open"
  BY DEF Results
<1> HIDE DEF M, p
<1>7. InFlight(q)' = InFlight(q) \o M /\ InFlight(p)' = InFlight(p) /\ InFlight(q) \in Seq(Messages)
  BY <1>2, <1>3, <1>4, <1>5, FlightOfSend, FlightType DEF IInv
<1>8. \A kind : IdsOf(InFlight(q)', kind) = IdsOf(InFlight(q), kind) \cup IdsOf(M, kind)
  BY <1>3, <1>7, IdsOfConcat
<1>9. \A s \in Peers : CancelsBehind(InFlight(s)')
  BY <1>3, <1>4, <1>7, BehindSent DEF KInv
<1>10. Issued'
  <2>1. \A s \in Peers, k \in Ids : responder'[s][k] = "none" => responder[s][k] = "none"
    BY <1>4, <1>5, <1>6
  <2> QED BY <1>5, <2>1 DEF KInv, Issued
<1>11. Open(q)' = Open(q) \ {id} /\ Open(p)' = Open(p)
  BY <1>5, <1>6 DEF Open
<1>12. NothingIsLost'
  <2>1. ASSUME ~aborted[p], ~aborted[q]
        PROVE  /\ pendingResponses'[p] \subseteq Unanswered(p)'
               /\ \A k \in cancellationSent'[p] : Told(p, k)' \/ k \in IdsOf(InFlight(p)', "cancel")
    <3>1. Unanswered(p) \subseteq Unanswered(p)'
      BY <1>3, <1>4, <1>7, <1>8, <1>11, <2>1 DEF Unanswered, p
    <3>2. ASSUME NEW k \in Ids, Told(p, k) PROVE Told(p, k)'
      BY <1>4, <1>5, <3>2 DEF Told
    <3>3. cancellationSent[p] \subseteq Ids
      BY <1>4 DEF IInv, TypeOK
    <3> QED BY <1>4, <1>5, <1>7, <2>1, <3>1, <3>2, <3>3 DEF KInv, NothingIsLost
  <2>2. ASSUME ~aborted[p], ~aborted[q]
        PROVE  /\ pendingResponses'[q] \subseteq Unanswered(q)'
               /\ \A k \in cancellationSent'[q] : Told(q, k)' \/ k \in IdsOf(InFlight(q)', "cancel")
    <3>1. Unanswered(q)' = Unanswered(q)
      BY <1>3, <1>4, <1>7, <1>8, <1>11 DEF Unanswered, p
    <3>2. \A k : Told(q, k)' <=> Told(q, k)
      BY <1>5 DEF Told, p
    <3>3. IdsOf(InFlight(q)', "cancel") = IdsOf(InFlight(q), "cancel")
      BY <1>3, <1>8
    <3> QED BY <1>5, <2>2, <3>1, <3>2, <3>3 DEF KInv, NothingIsLost, p
  <2> QED BY <1>4, <1>5, <2>1, <2>2 DEF NothingIsLost, p
<1> QED BY <1>9, <1>10, <1>12 DEF KInv

-----------------------------------------------------------------------------
(* Receiving.                                                              *)

(* What the oldest message leaves behind. *)
LEMMA BehindReceived ==
    ASSUME IInv, KInv, NEW p \in Peers, NEW kind, Read(p, kind), UNCHANGED <<writeQueue, writing>>
    PROVE  /\ \A s \in Peers : CancelsBehind(InFlight(s)')
           /\ kind = "cancel" => Head(wire[Other(p)]).id \notin IdsOf(InFlight(Other(p)), "request")
<1> DEFINE q == Other(p)
           F == InFlight(q)
<1>1. q \in Peers /\ \A s \in Peers : s = p \/ s = q
  BY OtherPeer
<1>2. /\ F # <<>> /\ Head(F) = Head(wire[q]) /\ InFlight(q)' = Tail(F)
      /\ InFlight(p)' = InFlight(p)
  BY FlightOfRead DEF IInv
<1>3. F \in Seq(Messages) /\ CancelsBehind(F) /\ CancelsBehind(InFlight(p))
  BY <1>1, FlightType DEF IInv, KInv
<1>4. Head(wire[q]).kind = kind
  BY DEF Read
<1> HIDE DEF F
<1>5. /\ CancelsBehind(Tail(F))
      /\ Head(F).kind = "cancel" => Head(F).id \notin IdsOf(F, "request")
  BY <1>2, <1>3, BehindTail
<1> QED BY <1>1, <1>2, <1>3, <1>4, <1>5 DEF F

LEMMA ReceiveRequestLoses == ASSUME IInv, JInv, KInv, NEW q \in Peers, ReceiveRequest(q) PROVE KInv'
<1> DEFINE p  == Other(q)
           id == Head(wire[p]).id
<1>1. p \in Peers /\ p # q /\ Other(p) = q /\ \A s \in Peers : s = p \/ s = q
  BY OtherPeer
<1>2. /\ id \in Ids /\ InFlight(q)' = InFlight(q)
      /\ \A k : IdsOf(InFlight(p), k) =
                   IdsOf(InFlight(p)', k) \cup (IF "request" = k THEN {id} ELSE {})
  BY ReceivedOnce DEF ReceiveRequest
<1>3. responder[q][id] = "none"
  BY Received DEF ReceiveRequest
<1>4. \A s \in Peers : CancelsBehind(InFlight(s)')
  BY BehindReceived DEF ReceiveRequest
<1>5. /\ UNCHANGED <<aborted, nextRequestId, pendingResponses, listeners, promise, cancellationSent>>
      /\ responder' = [responder EXCEPT ![q][id] = "open"]
      /\ controller' = [controller EXCEPT ![q][id] = "live"]
  BY DEF ReceiveRequest, callerVars
<1> HIDE DEF id
<1>6. /\ responder'[q][id] = "open"
      /\ \A k \in Ids \ {id} : responder'[q][k] = responder[q][k]
      /\ responder'[p] = responder[p]
      /\ \A k \in Ids \ {id} : controller'[q][k] = controller[q][k]
      /\ controller'[p] = controller[p]
  BY <1>1, <1>2, <1>5 DEF IInv, TypeOK
<1> HIDE DEF p
<1>7. Open(q)' = Open(q) \cup {id} /\ Open(p)' = Open(p)
  BY <1>2, <1>6 DEF Open
<1>8. /\ IdsOf(InFlight(p), "request") = IdsOf(InFlight(p)', "request") \cup {id}
      /\ IdsOf(InFlight(p), "response") = IdsOf(InFlight(p)', "response")
      /\ IdsOf(InFlight(p), "cancel") = IdsOf(InFlight(p)', "cancel")
  BY <1>2
<1>9. Unanswered(p)' = Unanswered(p) /\ Unanswered(q)' = Unanswered(q)
  BY <1>1, <1>2, <1>7, <1>8 DEF Unanswered, p
<1>10. Issued'
  <2>1. ASSUME NEW s \in Peers, NEW k \in Ids, responder'[s][k] = "none"
        PROVE  controller'[s][k] = "none"
    <3>1. CASE s = p
      BY <1>6, <2>1, <3>1 DEF KInv, Issued
    <3>2. CASE s = q /\ k # id
      BY <1>6, <2>1, <3>2 DEF KInv, Issued
    <3> QED BY <1>1, <1>6, <2>1, <3>1, <3>2
  <2> QED BY <1>5, <2>1 DEF KInv, Issued
<1>11. controller[q][id] = "none"
  BY <1>2, <1>3 DEF KInv, Issued
<1>12. NothingIsLost'
  <2>1. ASSUME ~aborted[p], ~aborted[q]
        PROVE  /\ pendingResponses'[p] \subseteq Unanswered(p)'
               /\ \A k \in cancellationSent'[p] : Told(p, k)' \/ k \in IdsOf(InFlight(p)', "cancel")
    <3>1. ASSUME NEW k \in Ids, Told(p, k) PROVE Told(p, k)'
      <4>1. k # id
        BY <1>1, <1>3, <1>11, <3>1 DEF Told, Results
      <4> QED BY <1>1, <1>6, <3>1, <4>1 DEF Told
    <3>2. cancellationSent[p] \subseteq Ids
      BY <1>1 DEF IInv, TypeOK
    <3> QED BY <1>1, <1>5, <1>8, <1>9, <2>1, <3>1, <3>2 DEF KInv, NothingIsLost
  <2>2. ASSUME ~aborted[p], ~aborted[q]
        PROVE  /\ pendingResponses'[q] \subseteq Unanswered(q)'
               /\ \A k \in cancellationSent'[q] : Told(q, k)' \/ k \in IdsOf(InFlight(q)', "cancel")
    <3>1. \A k : Told(q, k)' <=> Told(q, k)
      BY <1>6 DEF Told, p
    <3> QED BY <1>2, <1>5, <1>9, <2>2, <3>1 DEF KInv, NothingIsLost, p
  <2> QED BY <1>1, <1>5, <2>1, <2>2 DEF NothingIsLost, p
<1> QED BY <1>4, <1>10, <1>12 DEF KInv

(* A cancellation arrives behind its request, so it finds the request, or  *)
(* its handler has answered.                                               *)
LEMMA ReceiveCancelLoses == ASSUME IInv, JInv, KInv, NEW q \in Peers, ReceiveCancel(q) PROVE KInv'
<1> DEFINE p  == Other(q)
           id == Head(wire[p]).id
<1>1. p \in Peers /\ p # q /\ Other(p) = q /\ \A s \in Peers : s = p \/ s = q
  BY OtherPeer
<1>2. /\ id \in Ids /\ InFlight(q)' = InFlight(q)
      /\ \A k : IdsOf(InFlight(p), k) =
                   IdsOf(InFlight(p)', k) \cup (IF "cancel" = k THEN {id} ELSE {})
  BY ReceivedOnce DEF ReceiveCancel
<1>3. /\ \A s \in Peers : CancelsBehind(InFlight(s)')
      /\ id \notin IdsOf(InFlight(p), "request")
  BY BehindReceived DEF ReceiveCancel
<1>4. /\ UNCHANGED <<aborted, nextRequestId, pendingResponses, listeners, promise,
                     cancellationSent, responder>>
      /\ \A k \in Ids : controller'[q][k] =
                            IF k = id /\ id \in incomingRequests[q] THEN "aborted" ELSE controller[q][k]
      /\ controller'[p] = controller[p] /\ ~aborted[q]
  BY <1>1 DEF ReceiveCancel, Read, callerVars, CancelTarget, IInv, TypeOK
<1> HIDE DEF id, p
<1>5. id \in cancellationSent[p] /\ id < nextRequestId[p]
  <2>1. id \in IdsOf(InFlight(p), "cancel")
    BY <1>2
  <2>2. id \in cancellationSent[p]
    BY <1>1, <2>1 DEF JInv, Agreement
  <2> QED BY <1>1, <2>2 DEF KInv, Issued
<1>6. ASSUME ~aborted[p] PROVE responder[q][id] # "none"
  <2>1. promise[p][id] \in {"pending"} \cup Results
    <3>1. nextRequestId[p] \in Nat /\ id \in Nat
      BY <1>1, <1>2, IdBoundAssumption DEF IInv, TypeOK, Ids
    <3>2. promise[p][id] # "none"
      BY <1>1, <1>2, <1>5, <3>1 DEF IInv, IdsAreIssuedInOrder
    <3>3. promise[p][id] # "closed"
      BY <1>1, <1>2, <1>6 DEF KInv, Issued
    <3> QED BY <1>1, <1>2, <3>2, <3>3 DEF IInv, TypeOK
  <2>2. CASE promise[p][id] = "pending"
    <3>1. id \in Unanswered(p)
      BY <1>1, <1>2, <1>4, <1>6, <2>2 DEF IInv, PendingIsTracked, KInv, NothingIsLost
    <3>2. id \in Open(q) \/ id \in IdsOf(InFlight(q), "response")
      BY <1>1, <1>3, <3>1 DEF Unanswered
    <3>3. FlowOK(InFlight(q), nextRequestId[q], responder[q], responder[Other(q)])
      BY DEF IInv, Flow
    <3>4. \A k \in IdsOf(InFlight(q), "response") : responder[q][k] \in Results
      BY <3>3 DEF FlowOK, IdsOf
    <3> QED BY <3>2, <3>4 DEF Open, Results
  <2>3. CASE promise[p][id] \in Results
    BY <1>1, <1>2, <2>3 DEF IInv, AnswersAreAuthentic, Results
  <2> QED BY <2>1, <2>2, <2>3
<1>7. Issued'
  <2>1. ASSUME NEW k \in Ids, responder[q][k] = "none" PROVE controller'[q][k] = "none"
    <3>1. k \notin incomingRequests[q]
      BY <1>4, <2>1, Registered
    <3> QED BY <1>4, <2>1, <3>1 DEF KInv, Issued
  <2>2. \A s \in Peers, k \in Ids : responder'[s][k] = "none" => controller'[s][k] = "none"
    BY <1>1, <1>4, <2>1 DEF KInv, Issued
  <2> QED BY <1>4, <2>2 DEF KInv, Issued
<1>8. Unanswered(p)' = Unanswered(p) /\ Unanswered(q)' = Unanswered(q)
  BY <1>1, <1>2, <1>4 DEF Unanswered, Open, p
<1>9. NothingIsLost'
  <2>1. ASSUME ~aborted[p]
        PROVE  /\ pendingResponses'[p] \subseteq Unanswered(p)'
               /\ \A k \in cancellationSent'[p] : Told(p, k)' \/ k \in IdsOf(InFlight(p)', "cancel")
    <3>1. cancellationSent[p] \subseteq Ids
      BY <1>1 DEF IInv, TypeOK
    <3>2. ASSUME NEW k \in Ids, Told(p, k) PROVE Told(p, k)'
      BY <1>1, <1>4, <3>2 DEF Told
    <3>3. ASSUME NEW k \in Ids, k = id PROVE Told(p, k)'
      <4>1. responder[q][id] \in {"open"} \cup Results
        BY <1>2, <1>6, <2>1 DEF IInv, TypeOK
      <4>2. responder[q][id] = "open" => controller'[q][id] = "aborted"
        BY <1>2, <1>4, Registered
      <4> QED BY <1>1, <1>4, <3>3, <4>1, <4>2 DEF Told
    <3> QED BY <1>1, <1>2, <1>4, <1>8, <2>1, <3>1, <3>2, <3>3 DEF KInv, NothingIsLost
  <2>2. ASSUME ~aborted[p]
        PROVE  /\ pendingResponses'[q] \subseteq Unanswered(q)'
               /\ \A k \in cancellationSent'[q] : Told(q, k)' \/ k \in IdsOf(InFlight(q)', "cancel")
    <3>1. \A k : Told(q, k)' <=> Told(q, k)
      BY <1>4 DEF Told, p
    <3> QED BY <1>2, <1>4, <1>8, <2>2, <3>1 DEF KInv, NothingIsLost, p
  <2> QED BY <1>1, <1>4, <2>1, <2>2 DEF NothingIsLost, p
<1> QED BY <1>3, <1>7, <1>9 DEF KInv

LEMMA ReceiveResponseLoses == ASSUME IInv, JInv, KInv, NEW p \in Peers, ReceiveResponse(p) PROVE KInv'
<1> DEFINE q  == Other(p)
           id == Head(wire[q]).id
           r  == Head(wire[q]).result
<1>1. q \in Peers /\ q # p /\ Other(q) = p /\ \A s \in Peers : s = p \/ s = q
  BY OtherPeer
<1>2. /\ id \in Ids /\ InFlight(p)' = InFlight(p)
      /\ \A k : IdsOf(InFlight(q), k) =
                   IdsOf(InFlight(q)', k) \cup (IF "response" = k THEN {id} ELSE {})
  BY ReceivedOnce DEF ReceiveResponse
<1>3. r \in Results
  BY Received DEF ReceiveResponse
<1>4. \A s \in Peers : CancelsBehind(InFlight(s)')
  BY BehindReceived DEF ReceiveResponse
<1>5. /\ UNCHANGED <<aborted, nextRequestId, cancellationSent, controller, responder>>
      /\ pendingResponses'[p] = pendingResponses[p] \ {id}
      /\ pendingResponses'[q] = pendingResponses[q]
      /\ promise'[p] = Settle(promise[p], PendingFor(p, id), r) /\ promise'[q] = promise[q]
      /\ listeners'[p] \subseteq listeners[p] /\ listeners'[q] = listeners[q]
  BY <1>1 DEF ReceiveResponse, calleeVars, PendingFor, Cleanup, IInv, TypeOK
<1> HIDE DEF id, q, r
<1>6. Issued'
  <2>1. \A k \in Ids : promise'[p][k] \in {promise[p][k], r}
    BY <1>5 DEF Settle
  <2>2. r # "closed"
    BY <1>3 DEF Results
  <2>3. \A s \in Peers : ~aborted[s] => \A k \in Ids : promise'[s][k] # "closed"
    BY <1>1, <1>5, <2>1, <2>2 DEF KInv, Issued
  <2>4. \A s \in Peers : listeners'[s] \subseteq listeners[s]
    BY <1>1, <1>5
  <2> QED BY <1>5, <2>3, <2>4 DEF KInv, Issued
<1>7. /\ Unanswered(p) \subseteq Unanswered(p)' \cup {id} /\ Unanswered(q)' = Unanswered(q)
  BY <1>1, <1>2, <1>5 DEF Unanswered, Open, q
<1>8. \A s \in Peers : IdsOf(InFlight(s)', "cancel") = IdsOf(InFlight(s), "cancel")
  BY <1>1, <1>2
<1>9. \A s \in Peers, k \in Ids : Told(s, k)' <=> Told(s, k)
  BY <1>5 DEF Told
<1>10. NothingIsLost'
  <2> SUFFICES ASSUME NEW s \in Peers, ~aborted[s], ~aborted[Other(s)]
               PROVE  /\ pendingResponses'[s] \subseteq Unanswered(s)'
                      /\ \A k \in cancellationSent[s] :
                            Told(s, k)' \/ k \in IdsOf(InFlight(s)', "cancel")
    BY <1>5 DEF NothingIsLost
  <2>1. /\ pendingResponses[s] \subseteq Unanswered(s)
        /\ \A k \in cancellationSent[s] : Told(s, k) \/ k \in IdsOf(InFlight(s), "cancel")
    BY DEF KInv, NothingIsLost
  <2>2. pendingResponses'[s] \subseteq Unanswered(s)'
    BY <1>1, <1>5, <1>7, <2>1
  <2>3. cancellationSent[s] \subseteq Ids
    BY DEF IInv, TypeOK
  <2> QED BY <1>8, <1>9, <2>1, <2>2, <2>3
<1> QED BY <1>4, <1>6, <1>10 DEF KInv

-----------------------------------------------------------------------------
LEMMA InitImpliesKInv == Init => KInv
<1> SUFFICES ASSUME Init PROVE KInv
  OBVIOUS
<1>1. \A p \in Peers : InFlight(p) = <<>>
  BY DEF Init, InFlight, Unwritten
<1>2. CancelsBehind(<<>>)
  BY DEF CancelsBehind
<1>3. Issued
  BY DEF Init, Issued
<1>4. NothingIsLost
  BY DEF Init, NothingIsLost
<1> QED BY <1>1, <1>2, <1>3, <1>4 DEF KInv

LEMMA NextKeepsKInv == IInv /\ JInv /\ KInv /\ [Next]_vars => KInv'
<1> SUFFICES ASSUME IInv, JInv, KInv, [Next]_vars PROVE KInv'
  OBVIOUS
<1>1. ASSUME NEW p \in Peers, NEW signalAborted \in BOOLEAN, SendRequest(p, signalAborted)
      PROVE  KInv'
  BY <1>1, SendRequestLoses
<1>2. ASSUME NEW p \in Peers, NEW id \in Ids, CancelRequest(p, id) PROVE KInv'
  BY <1>2, CancelRequestLoses
<1>3. ASSUME NEW p \in Peers, NEW id \in Ids, NEW r \in Results, Respond(p, id, r) PROVE KInv'
  BY <1>3, RespondLoses
<1>4. ASSUME NEW p \in Peers, Write(p) PROVE KInv'
  BY <1>4, WriteLoses
<1>5. ASSUME NEW p \in Peers, FailWrite(p) PROVE KInv'
  BY <1>5, FailWriteLoses
<1>6. ASSUME NEW p \in Peers, Receive(p) PROVE KInv'
  BY <1>6, ReceiveRequestLoses, ReceiveCancelLoses, ReceiveResponseLoses DEF Receive
<1>7. ASSUME NEW p \in Peers, Close(p) PROVE KInv'
  BY <1>7, CloseLoses
<1>8. CASE UNCHANGED vars
  <2>1. UNCHANGED <<aborted, nextRequestId, pendingResponses, listeners, cancellationSent, promise,
                    controller, responder>>
    BY <1>8 DEF vars, callerVars, calleeVars
  <2>2. \A p \in Peers : InFlight(p)' = InFlight(p)
    BY <1>8 DEF vars, writeVars, InFlight, Unwritten
  <2> QED BY <2>1, <2>2, Undisturbed DEF KInv
<1> QED BY <1>1, <1>2, <1>3, <1>4, <1>5, <1>6, <1>7, <1>8 DEF Next

(* What a caller waits for is in one of its stages while its callee is     *)
(* open, and it is the very answer of the handler if that has answered;    *)
(* a cancellation is under way until it has stopped its request or come    *)
(* too late.                                                               *)
ArrivesOrIsUnderWay ==
    \A p \in Peers, id \in Ids : ~aborted[Other(p)] =>
        /\ promise[p][id] = "pending" => id \in Unanswered(p)
        /\ promise[p][id] = "pending" /\ responder[Other(p)][id] \in Results =>
              Response(id, responder[Other(p)][id]) \in Entries(InFlight(Other(p)))
        /\ ~aborted[p] /\ id \in cancellationSent[p] =>
              Told(p, id) \/ id \in IdsOf(InFlight(p), "cancel")

LEMMA KInvSaysSo == IInv /\ KInv => ArrivesOrIsUnderWay
<1> SUFFICES ASSUME IInv, KInv, NEW p \in Peers, NEW id \in Ids, ~aborted[Other(p)]
             PROVE  /\ promise[p][id] = "pending" => id \in Unanswered(p)
                    /\ promise[p][id] = "pending" /\ responder[Other(p)][id] \in Results =>
                          Response(id, responder[Other(p)][id]) \in Entries(InFlight(Other(p)))
                    /\ ~aborted[p] /\ id \in cancellationSent[p] =>
                          Told(p, id) \/ id \in IdsOf(InFlight(p), "cancel")
  BY DEF ArrivesOrIsUnderWay
<1> DEFINE q == Other(p)
           F == InFlight(p)
           G == InFlight(q)
<1>1. q \in Peers /\ Other(q) = p
  BY OtherPeer
<1>2. /\ F \in Seq(Messages) /\ FlowOK(F, nextRequestId[p], responder[p], responder[q])
      /\ G \in Seq(Messages) /\ FlowOK(G, nextRequestId[q], responder[q], responder[p])
  BY <1>1, FlightType DEF IInv, Flow
<1>3. promise[p][id] = "pending" => id \in Unanswered(p)
  BY <1>1 DEF IInv, PendingIsTracked, KInv, NothingIsLost
<1>4. ~aborted[p] /\ id \in cancellationSent[p] => Told(p, id) \/ id \in IdsOf(F, "cancel")
  BY DEF KInv, NothingIsLost
<1> HIDE DEF F, G
<1>5. ASSUME promise[p][id] = "pending", responder[q][id] \in Results
      PROVE  Response(id, responder[q][id]) \in Entries(G)
  <2>1. id \notin IdsOf(F, "request")
    <3>1. \A k \in IdsOf(F, "request") : responder[q][k] = "none"
      BY <1>2 DEF FlowOK, IdsOf
    <3> QED BY <1>5, <3>1 DEF Results
  <2>2. id \in IdsOf(G, "response")
    BY <1>3, <1>5, <2>1 DEF Unanswered, Open, Results, F, G
  <2>3. PICK i \in 1 .. Len(G) : G[i].kind = "response" /\ G[i].id = id
    BY <2>2 DEF IdsOf
  <2>4. G[i].result = responder[q][id]
    BY <1>2, <2>3 DEF FlowOK
  <2>5. G[i] \in Messages
    BY <1>2, <2>3
  <2>6. G[i] = Response(id, responder[q][id])
    BY <2>3, <2>4, <2>5 DEF Messages, Response
  <2> QED BY <2>3, <2>6 DEF Entries
<1> QED BY <1>3, <1>4, <1>5 DEF F, G

(* However calls, cancellations, failing writes and closes cross: while    *)
(* both connections are open, no request, no answer and no cancellation is *)
(* dropped between them, whatever number of requests there are.            *)
THEOREM NoAnswerIsLost == Spec => []ArrivesOrIsUnderWay
<1>1. Spec => []IInv
  BY Invariance
<1>2. IInv /\ JInv /\ [Next]_vars => JInv'
  BY NextKeepsJInv
<1>3. IInv /\ JInv /\ KInv /\ [Next]_vars => KInv'
  BY NextKeepsKInv
<1>4. IInv /\ KInv => ArrivesOrIsUnderWay
  BY KInvSaysSo
<1> QED BY <1>1, <1>2, <1>3, <1>4, InitImpliesJInv, InitImpliesKInv, PTL DEF Spec
=============================================================================
