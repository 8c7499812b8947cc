-------------------------- MODULE RpcDispatch_proof --------------------------
(***************************************************************************)
(* Proofs of the safety properties of RpcDispatch, for any messages, ids   *)
(* and handlers, and of RpcBatch, for any batches and members.             *)
(***************************************************************************)
EXTENDS RpcMessages, FiniteSetTheorems, SequenceTheorems, TLAPS

(* The runs there may be, of what is running and what is queued.           *)
TaskRecords ==
    [msg : Messages, attempt : Nat, rest : Seq(Handlers) \ {<<>>}, retry : BOOLEAN]

Queued == Range(retryQueue)
Running == {t.msg : t \in tasks}
Registered == Range(dynamicHandlers) \cup disposed

(* A message is in one place at most: it has one run, or is queued once,   *)
(* or was claimed; and it is in none before it arrived.                    *)
OnePlace ==
    /\ \A t, u \in tasks : t.msg = u.msg => t = u
    /\ \A i, j \in DOMAIN retryQueue : retryQueue[i] = retryQueue[j] => i = j
    /\ Running \cap Queued = {} /\ claimed \cap (Running \cup Queued) = {}
    /\ \A m \in Messages : attempts[m] = 0 =>
          m \notin Running \cup Queued \cup claimed /\ offered[m] = {}

(* A static handler was offered the message of a run, or is ahead in it.   *)
RestIsLeft == \A t \in tasks : Range(StaticHandlers) \subseteq offered[t.msg] \cup Range(Tail(t.rest))

NoneLost ==
    ~aborted => \A m \in Requests : attempts[m] > 0 =>
        m \in Running \cup Queued \cup claimed \/ Responded(m)

(* A response is on its way when there is one, to a request that arrived.  *)
ResponsesFit ==
    \A m \in Requests :
        /\ response[m].by = "nobody" <=> response[m].at = "none"
        /\ attempts[m] = 0 => response[m].by = "nobody"

(* An entry is that of a request with its id; a closed connection has none.*)
EntriesFit ==
    /\ \A id \in RequestIds : incomingRequests[id] # NoRequest =>
          IdOf[incomingRequests[id]] = id /\ attempts[incomingRequests[id]] > 0
    /\ aborted => \A id \in RequestIds : incomingRequests[id] = NoRequest

IInv ==
    /\ TypeOK /\ IsFiniteSet(Registered)
    /\ OnePlace /\ RestIsLeft /\ NoneLost /\ NotFoundIsLastResort
    /\ ResponsesFit /\ EntriesFit /\ RegistryIsExact

-----------------------------------------------------------------------------
(* Sequences.                                                              *)

LEMMA HeadAndTail ==
    ASSUME NEW S, NEW s \in Seq(S), s # <<>>
    PROVE  /\ Head(s) \in S /\ Tail(s) \in Seq(S)
           /\ Range(s) = {Head(s)} \cup Range(Tail(s))
<1>1. /\ Head(s) \in S /\ Tail(s) \in Seq(S) /\ Len(Tail(s)) = Len(s) - 1
      /\ Head(s) = s[1] /\ \A i \in 1 .. Len(Tail(s)) : Tail(s)[i] = s[i + 1]
  BY HeadTailProperties
<1>2. /\ Len(s) \in Nat \ {0} /\ DOMAIN s = 1 .. Len(s)
      /\ DOMAIN Tail(s) = 1 .. Len(s) - 1
  BY <1>1, LenProperties, EmptySeq
<1>3. ASSUME NEW x \in Range(s) PROVE x \in {Head(s)} \cup Range(Tail(s))
  <2>1. PICK i \in DOMAIN s : x = s[i]
    BY DEF Range
  <2>2. CASE i = 1
    BY <1>1, <2>1, <2>2
  <2>3. CASE i # 1
    <3>1. i - 1 \in DOMAIN Tail(s) /\ Tail(s)[i - 1] = s[i]
      BY <1>1, <1>2, <2>3
    <3> QED BY <2>1, <3>1 DEF Range
  <2> QED BY <2>2, <2>3
<1>4. ASSUME NEW x \in Range(Tail(s)) PROVE x \in Range(s)
  <2>1. PICK i \in DOMAIN Tail(s) : x = Tail(s)[i]
    BY DEF Range
  <2>2. i + 1 \in DOMAIN s /\ x = s[i + 1]
    BY <1>1, <1>2, <2>1
  <2> QED BY <2>2 DEF Range
<1>5. Head(s) \in Range(s)
  BY <1>1, <1>2 DEF Range
<1> QED BY <1>1, <1>3, <1>4, <1>5

LEMMA Appending ==
    ASSUME NEW S, NEW s \in Seq(S), NEW e \in S
    PROVE  /\ Append(s, e) \in Seq(S) /\ Append(s, e) # <<>>
           /\ Range(Append(s, e)) = Range(s) \cup {e}
           /\ (\A i, j \in DOMAIN s : s[i] = s[j] => i = j) /\ e \notin Range(s) =>
                 \A i, j \in DOMAIN Append(s, e) : Append(s, e)[i] = Append(s, e)[j] => i = j
<1>1. /\ Append(s, e) \in Seq(S) /\ Len(Append(s, e)) = Len(s) + 1
      /\ \A i \in 1 .. Len(s) : Append(s, e)[i] = s[i]
      /\ Append(s, e)[Len(s) + 1] = e
  BY AppendProperties
<1>2. /\ Len(s) \in Nat /\ DOMAIN s = 1 .. Len(s) /\ DOMAIN Append(s, e) = 1 .. Len(s) + 1
  BY <1>1, LenProperties
<1>3. Append(s, e) # <<>>
  BY <1>1, <1>2, EmptySeq
<1>4. Range(Append(s, e)) = Range(s) \cup {e}
  <2>1. ASSUME NEW x \in Range(Append(s, e)) PROVE x \in Range(s) \cup {e}
    <3>1. PICK i \in 1 .. Len(s) + 1 : x = Append(s, e)[i]
      BY <1>2 DEF Range
    <3>2. CASE i \in 1 .. Len(s)
      BY <1>1, <1>2, <3>1, <3>2 DEF Range
    <3>3. CASE i = Len(s) + 1
      BY <1>1, <3>1, <3>3
    <3> QED BY <1>2, <3>2, <3>3
  <2>2. ASSUME NEW x \in Range(s) PROVE x \in Range(Append(s, e))
    <3>1. PICK i \in 1 .. Len(s) : x = s[i]
      BY <1>2 DEF Range
    <3>2. i \in DOMAIN Append(s, e) /\ x = Append(s, e)[i]
      BY <1>1, <1>2, <3>1
    <3> QED BY <3>2 DEF Range
  <2>3. e \in Range(Append(s, e))
    BY <1>1, <1>2 DEF Range
  <2> QED BY <2>1, <2>2, <2>3
<1>5. ASSUME \A i, j \in DOMAIN s : s[i] = s[j] => i = j, e \notin Range(s),
             NEW i \in DOMAIN Append(s, e), NEW j \in DOMAIN Append(s, e),
             Append(s, e)[i] = Append(s, e)[j]
      PROVE  i = j
  <2>1. \A k \in DOMAIN s : s[k] # e
    BY <1>5 DEF Range
  <2> QED BY <1>1, <1>2, <1>5, <2>1
<1> QED BY <1>1, <1>3, <1>4, <1>5

(* What is left of a sequence without repetitions when one is taken out. *)
LEMMA TakingOut ==
    ASSUME NEW S, NEW s \in Seq(S), NEW i \in 1 .. Len(s)
    PROVE  LET left == SubSeq(s, 1, i - 1) \o SubSeq(s, i + 1, Len(s))
           IN  /\ left \in Seq(S)
               /\ Range(left) \cup {s[i]} = Range(s)
<1> DEFINE a == SubSeq(s, 1, i - 1)
           b == SubSeq(s, i + 1, Len(s))
<1>1. Len(s) \in Nat /\ DOMAIN s = 1 .. Len(s) /\ i \in Nat /\ 1 <= i /\ i <= Len(s)
  BY LenProperties
<1>2. /\ a \in Seq(S) /\ Len(a) = i - 1
      /\ \A k \in 1 .. i - 1 : a[k] = s[k]
  BY <1>1, SubSeqProperties
<1>3. /\ b \in Seq(S) /\ Len(b) = Len(s) - i
      /\ \A k \in 1 .. Len(s) - i : b[k] = s[i + k]
  <2>1. \A k \in i + 1 .. Len(s) : s[k] \in S
    BY <1>1, ElementOfSeq
  <2>2. /\ b \in Seq(S)
        /\ Len(b) = IF i + 1 <= Len(s) THEN Len(s) - (i + 1) + 1 ELSE 0
        /\ \A k \in 1 .. Len(s) - (i + 1) + 1 : b[k] = s[(i + 1) + k - 1]
    BY <1>1, <2>1, SubSeqProperties
  <2> HIDE DEF b
  <2>3. Len(b) = Len(s) - i
    <3>1. CASE i < Len(s)
      <4>1. i + 1 <= Len(s)
        BY <1>1, <3>1
      <4>2. Len(b) = Len(s) - (i + 1) + 1
        BY <2>2, <4>1
      <4> QED BY <1>1, <4>2
    <3>2. CASE i = Len(s)
      <4>1. ~(i + 1 <= Len(s))
        BY <1>1, <3>2
      <4>2. Len(b) = 0
        BY <2>2, <4>1
      <4> QED BY <1>1, <3>2, <4>2
    <3>3. i < Len(s) \/ i = Len(s)
      <4>1. \A n \in Nat : \A k \in 1 .. n : k < n \/ k = n
        OBVIOUS
      <4> QED BY <1>1, <4>1, Zenon
    <3> QED BY <3>1, <3>2, <3>3
  <2>4. ASSUME NEW k \in 1 .. Len(s) - i PROVE b[k] = s[i + k]
    <3>1. k \in 1 .. Len(s) - (i + 1) + 1 /\ (i + 1) + k - 1 = i + k
      BY <1>1
    <3> QED BY <2>2, <3>1
  <2> QED BY <2>2, <2>3, <2>4
<1> HIDE DEF a, b
<1>4. a \o b \in Seq(S) /\ Range(a \o b) = Range(a) \cup Range(b)
  <2>1. a \o b \in Seq(S)
    BY <1>2, <1>3, ConcatProperties
  <2>2. Range(a \o b) = Range(a) \cup Range(b)
    BY <1>2, <1>3, RangeConcatenation
  <2> QED BY <2>1, <2>2
<1>5. DOMAIN a = 1 .. i - 1 /\ DOMAIN b = 1 .. Len(s) - i
  <2>1. DOMAIN a = 1 .. Len(a) /\ DOMAIN b = 1 .. Len(b)
    BY <1>2, <1>3, LenProperties
  <2> QED BY <1>2, <1>3, <2>1
<1>6. Range(a) \subseteq Range(s) /\ Range(b) \subseteq Range(s) /\ s[i] \in Range(s)
  <2>1. Range(a) \subseteq Range(s)
    BY <1>1, <1>2, <1>5 DEF Range
  <2>2. \A k \in 1 .. Len(s) - i : i + k \in DOMAIN s
    BY <1>1
  <2>3. Range(b) \subseteq Range(s)
    BY <1>3, <1>5, <2>2 DEF Range
  <2> QED BY <1>1, <2>1, <2>3 DEF Range
<1>7. ASSUME NEW x \in Range(s) PROVE x \in Range(a) \cup Range(b) \cup {s[i]}
  <2>1. PICK k \in 1 .. Len(s) : x = s[k]
    BY <1>1 DEF Range
  <2>2. CASE k < i
    <3>1. k \in 1 .. i - 1
      BY <1>1, <2>2
    <3> QED BY <1>2, <1>5, <2>1, <3>1 DEF Range
  <2>3. CASE k = i
    BY <2>1, <2>3
  <2>4. CASE k > i
    <3>1. k - i \in 1 .. Len(s) - i /\ i + (k - i) = k
      BY <1>1, <2>4
    <3>2. b[k - i] = s[k]
      BY <1>3, <3>1
    <3> QED BY <1>5, <2>1, <3>1, <3>2 DEF Range
  <2> QED BY <1>1, <2>2, <2>3, <2>4
<1>8. Range(a \o b) \cup {s[i]} = Range(s)
  BY <1>4, <1>6, <1>7
<1> QED BY <1>4, <1>8 DEF a, b

(* A snapshot of the handlers has all static ones.                         *)
LEMMA Snapshot ==
    ASSUME NEW s \in Seq(DynamicHandlers)
    PROVE  /\ StaticHandlers \o s \in Seq(Handlers)
           /\ Range(StaticHandlers \o s) = Range(StaticHandlers) \cup Range(s)
           /\ s # <<>> => StaticHandlers \o s # <<>>
           /\ StaticHandlers \o s = <<>> => Range(StaticHandlers) = {}
<1>1. StaticHandlers \in Seq(Handlers) /\ s \in Seq(Handlers)
  <2>1. Range(StaticHandlers) \subseteq Handlers /\ DynamicHandlers \subseteq Handlers
    BY DEF Handlers
  <2> QED BY <2>1, StaticHandlersAssumption, SeqMonotonic
<1>2. /\ StaticHandlers \o s \in Seq(Handlers)
      /\ Len(StaticHandlers \o s) = Len(StaticHandlers) + Len(s)
  BY <1>1, ConcatProperties
<1>3. Range(StaticHandlers \o s) = Range(StaticHandlers) \cup Range(s)
  BY <1>1, RangeConcatenation
<1>4. Len(StaticHandlers) \in Nat /\ Len(s) \in Nat
  BY <1>1, LenProperties
<1>5. s # <<>> => StaticHandlers \o s # <<>>
  <2>1. s # <<>> => Len(s) > 0
    BY <1>1, EmptySeq
  <2>2. Len(<<>>) = 0
    BY EmptySeq
  <2> QED BY <1>2, <1>4, <2>1, <2>2
<1>6. StaticHandlers \o s = <<>> => Range(StaticHandlers) = {}
  <2>1. Range(<<>>) = {}
    BY DEF Range
  <2> QED BY <1>3, <2>1
<1> QED BY <1>2, <1>3, <1>5, <1>6

-----------------------------------------------------------------------------
(* The end of the handler chain.                                           *)

LEMMA AnswerTypes ==
    ASSUME TypeOK, NEW m \in Requests, NEW who \in {"handler", "methodNotFound", "error"}
    PROVE  /\ AnswerBy(m, who) \in [Requests -> [by : {"nobody", "handler", "methodNotFound", "error"},
                                                at : {"none", "sending", "landed", "settled"}]]
           /\ AnswerBy(m, who)[m] = [by |-> who, at |-> IF aborted THEN "settled" ELSE "sending"]
           /\ \A n \in Requests \ {m} : AnswerBy(m, who)[n] = response[n]
BY DEF TypeOK, AnswerBy

(* Either the message is queued again, once more, or it has an answer if   *)
(* it is a request.                                                        *)
LEMMA EndOfChainFacts ==
    ASSUME TypeOK, NEW m \in Messages, NEW retry \in BOOLEAN, EndOfChain(m, retry)
    PROVE  /\ retryQueue' \in Seq(Messages)
           /\ Queued' = IF retry THEN Queued \cup {m} ELSE Queued
           /\ (\A i, j \in DOMAIN retryQueue : retryQueue[i] = retryQueue[j] => i = j)
                 /\ m \notin Queued =>
                 \A i, j \in DOMAIN retryQueue' : retryQueue'[i] = retryQueue'[j] => i = j
           /\ response' \in [Requests -> [by : {"nobody", "handler", "methodNotFound", "error"},
                                         at : {"none", "sending", "landed", "settled"}]]
           /\ \A n \in Requests \ {m} : response'[n] = response[n]
           /\ retry => response' = response
           /\ ~retry /\ m \in Requests => response'[m].by # "nobody"
<1>1. CASE retry
  <2>1. retryQueue' = Append(retryQueue, m) /\ response' = response
    BY <1>1 DEF EndOfChain
  <2>2. retryQueue \in Seq(Messages)
    BY DEF TypeOK
  <2>3. /\ Append(retryQueue, m) \in Seq(Messages)
        /\ Range(Append(retryQueue, m)) = Range(retryQueue) \cup {m}
        /\ (\A i, j \in DOMAIN retryQueue : retryQueue[i] = retryQueue[j] => i = j)
              /\ m \notin Range(retryQueue) =>
              \A i, j \in DOMAIN Append(retryQueue, m) :
                  Append(retryQueue, m)[i] = Append(retryQueue, m)[j] => i = j
    BY <2>2, Appending
  <2>4. Queued' = Queued \cup {m} /\ retryQueue' \in Seq(Messages)
    BY <2>1, <2>3 DEF Queued
  <2>5. (\A i, j \in DOMAIN retryQueue : retryQueue[i] = retryQueue[j] => i = j)
           /\ m \notin Queued =>
           \A i, j \in DOMAIN retryQueue' : retryQueue'[i] = retryQueue'[j] => i = j
    BY <2>1, <2>3 DEF Queued
  <2>6. response' \in [Requests -> [by : {"nobody", "handler", "methodNotFound", "error"},
                                   at : {"none", "sending", "landed", "settled"}]]
    BY <2>1 DEF TypeOK
  <2> QED BY <1>1, <2>1, <2>4, <2>5, <2>6
<1>2. CASE ~retry
  <2>1. /\ retryQueue' = retryQueue
        /\ response' = IF m \in Requests /\ ~Responded(m)
                       THEN AnswerBy(m, "methodNotFound") ELSE response
    BY <1>2 DEF EndOfChain
  <2>2. CASE m \in Requests /\ ~Responded(m)
    BY <1>2, <2>1, <2>2, AnswerTypes DEF Queued, TypeOK
  <2>3. CASE ~(m \in Requests /\ ~Responded(m))
    BY <1>2, <2>1, <2>3 DEF Queued, TypeOK, Responded
  <2> QED BY <2>2, <2>3
<1> QED BY <1>1, <1>2

-----------------------------------------------------------------------------
(* Types.                                                                  *)

LEMMA TaskTypes ==
    ASSUME TypeOK, NEW m \in Messages, NEW handlers \in Seq(Handlers), handlers # <<>>
    PROVE  /\ Task(m, handlers) \in [msg : Messages, attempt : Nat,
                                     rest : Seq(Handlers) \ {<<>>}, retry : BOOLEAN]
           /\ Head(handlers) \in Handlers
BY HeadAndTail DEF TypeOK, Task

(* Handlers are only added to those there were.                            *)
LEMMA SameBound ==
    ASSUME TypeOK, UNCHANGED <<dynamicHandlers, disposed>>
    PROVE  AttemptBound' = AttemptBound
BY DEF AttemptBound

LEMMA ReceiveTypes ==
    ASSUME TypeOK, IsFiniteSet(Registered), NEW m \in Messages, Receive(m)
    PROVE  TypeOK'
<1> DEFINE handlers == StaticHandlers \o dynamicHandlers
<1>1. handlers \in Seq(Handlers)
  BY Snapshot DEF TypeOK
<1> HIDE DEF handlers
<1>2. /\ attempts' \in [Messages -> Nat] /\ \A n \in Messages : attempts'[n] <= AttemptBound'
  <2>1. attempts' = [attempts EXCEPT ![m] = 1] /\ AttemptBound' = AttemptBound
    BY SameBound DEF Receive
  <2>2. AttemptBound \in Nat /\ AttemptBound >= 1
    BY FS_CardinalityType DEF AttemptBound, Registered
  <2> QED BY <2>1, <2>2 DEF TypeOK
<1>3. incomingRequests' \in [RequestIds -> Requests \cup {NoRequest}]
      /\ controller' \in [Requests -> {"none", "live", "aborted"}]
  BY DEF Receive, TypeOK, RequestIds
<1>4. UNCHANGED <<aborted, dynamicHandlers, disposed, claimed, owed>>
  BY DEF Receive
<1>5. CASE handlers = <<>>
  <2>1. EndOfChain(m, FALSE) /\ UNCHANGED <<tasks, offered>>
    BY <1>5 DEF Receive, handlers
  <2>2. /\ retryQueue' \in Seq(Messages)
        /\ response' \in [Requests -> [by : {"nobody", "handler", "methodNotFound", "error"},
                                      at : {"none", "sending", "landed", "settled"}]]
    BY <2>1, EndOfChainFacts
  <2> QED BY <1>2, <1>3, <1>4, <2>1, <2>2 DEF TypeOK
<1>6. CASE handlers # <<>>
  <2>1. /\ tasks' = tasks \cup {Task(m, handlers)}
        /\ offered' = [offered EXCEPT ![m] = @ \cup {Head(handlers)}]
        /\ UNCHANGED <<retryQueue, response>>
    BY <1>6 DEF Receive, handlers
  <2>2. Task(m, handlers) \in TaskRecords /\ Head(handlers) \in Handlers
    BY <1>1, <1>6, TaskTypes DEF TaskRecords
  <2>3. offered' \in [Messages -> SUBSET Handlers]
    BY <2>1, <2>2 DEF TypeOK
  <2>4. tasks' \subseteq TaskRecords
    BY <2>1, <2>2 DEF TypeOK, TaskRecords
  <2> QED BY <1>2, <1>3, <1>4, <2>1, <2>3, <2>4 DEF TypeOK, TaskRecords
<1> QED BY <1>5, <1>6

LEMMA DeclineTypes ==
    ASSUME TypeOK, NEW t \in tasks, NEW askRetry \in BOOLEAN, HandlerDeclines(t, askRetry)
    PROVE  TypeOK'
<1> DEFINE retry == t.retry \/ askRetry
           rest  == Tail(t.rest)
<1>1. t \in TaskRecords /\ t.msg \in Messages /\ retry \in BOOLEAN /\ rest \in Seq(Handlers)
  BY HeadAndTail DEF TypeOK, TaskRecords
<1>2. UNCHANGED <<aborted, dynamicHandlers, disposed, attempts, incomingRequests, controller,
                 claimed>>
      /\ owed' \subseteq Messages \X DynamicHandlers /\ AttemptBound' = AttemptBound
  BY SameBound DEF HandlerDeclines, TypeOK
<1>3. CASE rest = <<>>
  <2>1. tasks' = tasks \ {t} /\ EndOfChain(t.msg, retry) /\ UNCHANGED offered
    BY <1>3 DEF HandlerDeclines, NextHandlers
  <2> HIDE DEF retry, rest
  <2>2. /\ retryQueue' \in Seq(Messages)
        /\ response' \in [Requests -> [by : {"nobody", "handler", "methodNotFound", "error"},
                                      at : {"none", "sending", "landed", "settled"}]]
    BY <1>1, <2>1, EndOfChainFacts
  <2> QED BY <1>2, <2>1, <2>2 DEF TypeOK
<1>4. CASE rest # <<>>
  <2>1. UNCHANGED <<retryQueue, response>>
    BY <1>4 DEF HandlerDeclines, NextHandlers
  <2>2. CASE DispatchStops
    BY <1>2, <1>4, <2>1, <2>2 DEF HandlerDeclines, NextHandlers, TypeOK
  <2>3. CASE ~DispatchStops
    <3>1. /\ tasks' = (tasks \ {t}) \cup {[t EXCEPT !.rest = rest, !.retry = retry]}
          /\ offered' = [offered EXCEPT ![t.msg] = @ \cup {Head(rest)}]
      BY <1>4, <2>3 DEF HandlerDeclines, NextHandlers
    <3> HIDE DEF retry, rest
    <3>2. [t EXCEPT !.rest = rest, !.retry = retry] \in TaskRecords /\ Head(rest) \in Handlers
      BY <1>1, <1>4, HeadAndTail DEF TaskRecords
    <3>3. tasks' \subseteq TaskRecords
      BY <3>1, <3>2 DEF TypeOK, TaskRecords
    <3>4. offered' \in [Messages -> SUBSET Handlers]
      BY <1>1, <3>1, <3>2 DEF TypeOK
    <3> QED BY <1>2, <2>1, <3>3, <3>4 DEF TypeOK, TaskRecords
  <2> QED BY <2>2, <2>3
<1> QED BY <1>3, <1>4

LEMMA AddTypes ==
    ASSUME TypeOK, IsFiniteSet(Registered), NEW h \in DynamicHandlers, AddDynamicHandler(h)
    PROVE  TypeOK' /\ IsFiniteSet(Registered')
<1> DEFINE added    == Append(dynamicHandlers, h)
           handlers == StaticHandlers \o added
<1>1. added \in Seq(DynamicHandlers) /\ added # <<>> /\ Range(added) = Range(dynamicHandlers) \cup {h}
  BY Appending DEF TypeOK
<1> HIDE DEF added
<1>2. handlers \in Seq(Handlers) /\ handlers # <<>>
  BY <1>1, Snapshot
<1> HIDE DEF handlers
<1>3. Queued \subseteq Messages
  BY RangeOfSeq DEF Queued, TypeOK
<1>4. /\ dynamicHandlers' = added /\ h \notin Registered
      /\ retryQueue' = <<>> /\ <<>> \in Seq(Messages)
      /\ UNCHANGED <<aborted, disposed, requestVars, claimed>>
  BY EmptySeq DEF AddDynamicHandler, NeverRegistered, Registered, QueueAfterSplice, added
<1>5. Registered' = Registered \cup {h}
  BY <1>1, <1>4 DEF Registered
<1>6. /\ IsFiniteSet(Registered')
      /\ AttemptBound \in Nat /\ AttemptBound' = AttemptBound + 1
  <2>1. IsFiniteSet(Registered') /\ Cardinality(Registered') = Cardinality(Registered) + 1
    BY <1>4, <1>5, FS_AddElement
  <2>2. Cardinality(Registered) \in Nat
    BY FS_CardinalityType
  <2>3. AttemptBound = 1 + Cardinality(Registered) /\ AttemptBound' = 1 + Cardinality(Registered')
    BY DEF AttemptBound, Registered
  <2> QED BY <2>1, <2>2, <2>3
<1>7. owed' \subseteq Messages \X DynamicHandlers
  BY <1>3 DEF AddDynamicHandler, TypeOK, Queued
<1>8. CASE aborted
  <2>1. UNCHANGED <<tasks, attempts, offered>>
    BY <1>8 DEF AddDynamicHandler
  <2> QED BY <1>1, <1>4, <1>6, <1>7, <2>1 DEF TypeOK, requestVars
<1>9. CASE ~aborted
  <2>1. /\ tasks' = tasks \cup {Task(m, handlers) : m \in Queued}
        /\ attempts' = [m \in Messages |-> attempts[m] + (IF m \in Queued THEN 1 ELSE 0)]
        /\ offered' = [m \in Messages |->
                 IF m \in Queued THEN offered[m] \cup {Head(handlers)} ELSE offered[m]]
    BY <1>9 DEF AddDynamicHandler, Queued, handlers, added
  <2>2. Head(handlers) \in Handlers /\ \A m \in Queued : Task(m, handlers) \in TaskRecords
    BY <1>2, <1>3, TaskTypes, HeadAndTail DEF TaskRecords
  <2>3. tasks' \subseteq TaskRecords
    BY <2>1, <2>2 DEF TypeOK, TaskRecords
  <2>4. attempts' \in [Messages -> Nat] /\ \A m \in Messages : attempts'[m] <= AttemptBound'
    BY <1>6, <2>1 DEF TypeOK
  <2>5. offered' \in [Messages -> SUBSET Handlers]
    BY <2>1, <2>2 DEF TypeOK
  <2> QED BY <1>1, <1>4, <1>6, <1>7, <2>3, <2>4, <2>5 DEF TypeOK, TaskRecords, requestVars
<1> QED BY <1>8, <1>9

LEMMA TypeStep ==
    ASSUME TypeOK, IsFiniteSet(Registered), [Next]_vars
    PROVE  TypeOK' /\ IsFiniteSet(Registered')
<1> USE DEF dispatchVars, requestVars, historyVars
<1>1. ASSUME UNCHANGED <<dynamicHandlers, disposed>>
      PROVE  Registered' = Registered /\ AttemptBound' = AttemptBound
  BY <1>1 DEF Registered, AttemptBound
<1>2. ASSUME NEW m \in Messages, Receive(m) PROVE TypeOK' /\ IsFiniteSet(Registered')
  BY <1>1, <1>2, ReceiveTypes DEF Receive
<1>3. ASSUME NEW t \in tasks, HandlerClaims(t) PROVE TypeOK' /\ IsFiniteSet(Registered')
  BY <1>1, <1>3 DEF HandlerClaims, TypeOK
<1>4. ASSUME NEW t \in tasks, NEW askRetry \in BOOLEAN, HandlerDeclines(t, askRetry)
      PROVE  TypeOK' /\ IsFiniteSet(Registered')
  BY <1>1, <1>4, DeclineTypes DEF HandlerDeclines
<1>5. ASSUME NEW t \in tasks, HandlerThrows(t) PROVE TypeOK' /\ IsFiniteSet(Registered')
  <2>1. response' \in [Requests -> [by : {"nobody", "handler", "methodNotFound", "error"},
                                   at : {"none", "sending", "landed", "settled"}]]
    BY <1>5, AnswerTypes DEF HandlerThrows, UnansweredRequest, TypeOK
  <2> QED BY <1>1, <1>5, <2>1 DEF HandlerThrows, TypeOK
<1>6. ASSUME NEW h \in DynamicHandlers, AddDynamicHandler(h)
      PROVE  TypeOK' /\ IsFiniteSet(Registered')
  BY <1>6, AddTypes
<1>7. ASSUME NEW h \in DynamicHandlers, DisposeHandler(h)
      PROVE  TypeOK' /\ IsFiniteSet(Registered')
  <2>1. dynamicHandlers' \in Seq(DynamicHandlers)
        /\ Range(dynamicHandlers') \cup {h} = Range(dynamicHandlers)
    <3>1. PICK i \in 1 .. Len(dynamicHandlers) :
             /\ dynamicHandlers[i] = h
             /\ dynamicHandlers' = SubSeq(dynamicHandlers, 1, i - 1)
                                       \o SubSeq(dynamicHandlers, i + 1, Len(dynamicHandlers))
      BY <1>7 DEF DisposeHandler
    <3>2. dynamicHandlers \in Seq(DynamicHandlers)
      BY DEF TypeOK
    <3> QED BY <3>1, <3>2, TakingOut
  <2>2. Registered' = Registered
    BY <1>7, <2>1 DEF Registered, DisposeHandler
  <2>3. AttemptBound' = AttemptBound
    BY <2>2 DEF AttemptBound, Registered
  <2> QED BY <1>7, <2>1, <2>2, <2>3 DEF DisposeHandler, TypeOK
<1>8. ASSUME NEW m \in Requests, Respond(m) PROVE TypeOK' /\ IsFiniteSet(Registered')
  BY <1>1, <1>8, AnswerTypes DEF Respond, TypeOK
<1>9. ASSUME NEW m \in Requests, LandResponse(m) PROVE TypeOK' /\ IsFiniteSet(Registered')
  BY <1>1, <1>9 DEF LandResponse, TypeOK
<1>10. ASSUME NEW m \in Requests, FinishRequest(m) PROVE TypeOK' /\ IsFiniteSet(Registered')
  BY <1>1, <1>10 DEF FinishRequest, TypeOK
<1>11. ASSUME NEW id \in RequestIds, ReceiveCancel(id) PROVE TypeOK' /\ IsFiniteSet(Registered')
  BY <1>1, <1>11 DEF ReceiveCancel, TypeOK
<1>12. CASE Close
  BY <1>1, <1>12 DEF Close, TypeOK
<1>13. CASE UNCHANGED vars
  BY <1>1, <1>13 DEF vars, TypeOK
<1> QED
  BY <1>2, <1>3, <1>4, <1>5, <1>6, <1>7, <1>8, <1>9, <1>10, <1>11, <1>12, <1>13
  DEF Next, HandlerSettles

-----------------------------------------------------------------------------
(* Dispatching.                                                            *)

Dispatched == OnePlace /\ RestIsLeft /\ NoneLost /\ NotFoundIsLastResort

Unrepeated == \A i, j \in DOMAIN retryQueue : retryQueue[i] = retryQueue[j] => i = j

(* Actions that leave the dispatch alone: responses are only added, and    *)
(* none of them is "method not found".                                     *)
LEMMA DispatchElsewhere ==
    ASSUME TypeOK, Dispatched,
           UNCHANGED <<retryQueue, tasks, attempts, offered, claimed>>, aborted => aborted',
           \A m \in Requests : /\ response'[m].by = "methodNotFound" => response[m].by = "methodNotFound"
                               /\ Responded(m) => Responded(m)'
    PROVE  Dispatched'
<1>1. Running' = Running /\ Queued' = Queued
  BY DEF Running, Queued
<1>2. OnePlace' /\ RestIsLeft'
  <2>1. OnePlace'
    BY <1>1 DEF Dispatched, OnePlace
  <2>2. RestIsLeft'
    BY DEF Dispatched, RestIsLeft
  <2> QED BY <2>1, <2>2
<1>3. NoneLost'
  BY <1>1 DEF Dispatched, NoneLost
<1>4. NotFoundIsLastResort'
  BY <1>1 DEF Dispatched, NotFoundIsLastResort, Running, Queued
<1> QED BY <1>2, <1>3, <1>4 DEF Dispatched

(* A run ends: its message runs no more, and nothing else does either.     *)
LEMMA RunEnds ==
    ASSUME OnePlace, NEW t \in tasks, tasks' = tasks \ {t}
    PROVE  Running' = Running \ {t.msg} /\ t.msg \in Running
BY DEF OnePlace, Running

LEMMA ReceiveDispatches ==
    ASSUME TypeOK, TypeOK', Dispatched, ResponsesFit, NEW m \in Messages, Receive(m)
    PROVE  Dispatched'
<1> DEFINE handlers == StaticHandlers \o dynamicHandlers
<1>1. /\ handlers \in Seq(Handlers)
      /\ Range(StaticHandlers) \subseteq Range(handlers)
      /\ handlers = <<>> => Range(StaticHandlers) = {}
  BY Snapshot DEF TypeOK
<1> HIDE DEF handlers
<1>2. /\ ~aborted /\ attempts[m] = 0 /\ attempts' = [attempts EXCEPT ![m] = 1]
      /\ UNCHANGED <<aborted, claimed>>
  BY DEF Receive
<1>3. /\ m \notin Running \cup Queued \cup claimed /\ offered[m] = {}
      /\ m \in Requests => response[m].by = "nobody"
  BY <1>2 DEF Dispatched, OnePlace, ResponsesFit
<1>4. \A n \in Messages : n # m => attempts'[n] = attempts[n]
  BY <1>2 DEF TypeOK
<1>5. attempts'[m] = 1
  BY <1>2 DEF TypeOK
<1>6. CASE handlers = <<>>
  <2>1. EndOfChain(m, FALSE) /\ UNCHANGED <<tasks, offered>>
    BY <1>6 DEF Receive, handlers
  <2>2. /\ \A n \in Requests \ {m} : response'[n] = response[n]
        /\ m \in Requests => response'[m].by # "nobody"
    BY <2>1, EndOfChainFacts
  <2>3. retryQueue' = retryQueue /\ Queued' = Queued /\ Running' = Running
    BY <2>1 DEF EndOfChain, Queued, Running
  <2>4. OnePlace'
    BY <1>2, <1>4, <1>5, <2>1, <2>3 DEF Dispatched, OnePlace
  <2>5. RestIsLeft'
    BY <2>1 DEF Dispatched, RestIsLeft
  <2>6. NoneLost'
    BY <1>2, <1>4, <2>2, <2>3 DEF Dispatched, NoneLost, Responded
  <2>7. NotFoundIsLastResort'
    <3>1. ASSUME NEW n \in Requests, response'[n].by = "methodNotFound"
          PROVE  /\ Range(StaticHandlers) \subseteq offered'[n]
                 /\ n \notin claimed' /\ n \notin Queued' \cup Running'
      <4>1. CASE n = m
        BY <1>1, <1>2, <1>3, <1>6, <2>3, <4>1
      <4>2. CASE n # m
        BY <1>2, <2>1, <2>2, <2>3, <3>1, <4>2
        DEF Dispatched, NotFoundIsLastResort, Queued, Running
      <4> QED BY <4>1, <4>2
    <3> QED BY <3>1 DEF NotFoundIsLastResort, Queued, Running
  <2> QED BY <2>4, <2>5, <2>6, <2>7 DEF Dispatched
<1>7. CASE handlers # <<>>
  <2>1. /\ tasks' = tasks \cup {Task(m, handlers)}
        /\ offered' = [offered EXCEPT ![m] = @ \cup {Head(handlers)}]
        /\ UNCHANGED <<retryQueue, response>>
    BY <1>7 DEF Receive, handlers
  <2>2. Task(m, handlers).msg = m /\ Task(m, handlers).rest = handlers
    BY DEF Task
  <2>3. /\ offered'[m] = {Head(handlers)}
        /\ \A n \in Messages : n # m => offered'[n] = offered[n]
    BY <1>3, <2>1 DEF TypeOK
  <2>4. Queued' = Queued /\ Running' = Running \cup {m}
    BY <2>1, <2>2 DEF Queued, Running
  <2>5. \A t \in tasks : t.msg \in Messages /\ t.msg # m
    BY <1>3 DEF Running, TypeOK
  <2>6. OnePlace'
    <3>1. \A t, u \in tasks' : t.msg = u.msg => t = u
      BY <2>1, <2>2, <2>5 DEF Dispatched, OnePlace
    <3>2. Unrepeated'
      BY <2>1 DEF Dispatched, OnePlace, Unrepeated
    <3>3. Running' \cap Queued' = {} /\ claimed' \cap (Running' \cup Queued') = {}
      BY <1>2, <1>3, <2>4 DEF Dispatched, OnePlace
    <3>4. \A n \in Messages : attempts'[n] = 0 =>
              n \notin Running' \cup Queued' \cup claimed' /\ offered'[n] = {}
      BY <1>2, <1>4, <1>5, <2>3, <2>4 DEF Dispatched, OnePlace
    <3> QED BY <3>1, <3>2, <3>3, <3>4 DEF OnePlace, Unrepeated
  <2>7. RestIsLeft'
    <3>1. Range(StaticHandlers) \subseteq offered'[m] \cup Range(Tail(handlers))
      BY <1>1, <1>7, <2>3, HeadAndTail
    <3>2. \A t \in tasks : Range(StaticHandlers) \subseteq offered'[t.msg] \cup Range(Tail(t.rest))
      BY <2>3, <2>5 DEF Dispatched, RestIsLeft
    <3> QED BY <2>1, <2>2, <3>1, <3>2 DEF RestIsLeft
  <2>8. NoneLost'
    BY <1>2, <1>4, <2>1, <2>4 DEF Dispatched, NoneLost, Responded
  <2>9. NotFoundIsLastResort'
    <3>1. ASSUME NEW n \in Requests, response'[n].by = "methodNotFound"
          PROVE  /\ Range(StaticHandlers) \subseteq offered'[n]
                 /\ n \notin claimed' /\ n \notin Queued' \cup Running'
      <4>1. n # m /\ n \in Messages
        BY <1>3, <2>1, <3>1 DEF Messages
      <4> QED BY <1>2, <2>1, <2>3, <2>4, <3>1, <4>1
              DEF Dispatched, NotFoundIsLastResort, Queued, Running
    <3> QED BY <3>1 DEF NotFoundIsLastResort, Queued, Running
  <2> QED BY <2>6, <2>7, <2>8, <2>9 DEF Dispatched
<1> QED BY <1>6, <1>7

LEMMA ClaimDispatches ==
    ASSUME TypeOK, Dispatched, NEW t \in tasks, HandlerClaims(t)
    PROVE  Dispatched'
<1>1. /\ tasks' = tasks \ {t} /\ claimed' = claimed \cup {t.msg}
      /\ UNCHANGED <<aborted, retryQueue, attempts, response, offered>>
  BY DEF HandlerClaims, requestVars
<1>2. Queued' = Queued /\ Running' = Running \ {t.msg} /\ t.msg \in Running
  BY <1>1, RunEnds DEF Queued, Dispatched
<1>3. OnePlace'
  BY <1>1, <1>2 DEF Dispatched, OnePlace
<1>4. RestIsLeft'
  BY <1>1 DEF Dispatched, RestIsLeft
<1>5. NoneLost'
  BY <1>1, <1>2 DEF Dispatched, NoneLost, Responded
<1>6. NotFoundIsLastResort'
  BY <1>1, <1>2 DEF Dispatched, NotFoundIsLastResort, Queued, Running
<1> QED BY <1>3, <1>4, <1>5, <1>6 DEF Dispatched

LEMMA ThrowDispatches ==
    ASSUME TypeOK, Dispatched, NEW t \in tasks, HandlerThrows(t)
    PROVE  Dispatched'
<1>1. /\ tasks' = tasks \ {t}
      /\ response' = IF UnansweredRequest(t.msg) THEN AnswerBy(t.msg, "error") ELSE response
      /\ UNCHANGED <<aborted, retryQueue, attempts, offered, claimed>>
  BY DEF HandlerThrows, historyVars
<1>2. Queued' = Queued /\ Running' = Running \ {t.msg} /\ t.msg \in Running
  BY <1>1, RunEnds DEF Queued, Dispatched
<1>3. \A n \in Requests :
         /\ response'[n].by = "methodNotFound" => response[n].by = "methodNotFound"
         /\ Responded(n) => response'[n].by # "nobody"
         /\ ~aborted /\ n = t.msg => response'[n].by # "nobody"
  <2>1. CASE UnansweredRequest(t.msg)
    <3>1. t.msg \in Requests
      BY <2>1 DEF UnansweredRequest
    <3>2. /\ AnswerBy(t.msg, "error")[t.msg].by = "error"
          /\ \A n \in Requests \ {t.msg} : AnswerBy(t.msg, "error")[n] = response[n]
      BY <3>1, AnswerTypes
    <3> QED BY <1>1, <2>1, <3>1, <3>2 DEF Responded
  <2>2. CASE ~UnansweredRequest(t.msg)
    BY <1>1, <2>2 DEF UnansweredRequest, Responded
  <2> QED BY <2>1, <2>2
<1>4. OnePlace'
  BY <1>1, <1>2 DEF Dispatched, OnePlace
<1>5. RestIsLeft'
  BY <1>1 DEF Dispatched, RestIsLeft
<1>6. NoneLost'
  BY <1>1, <1>2, <1>3 DEF Dispatched, NoneLost, Responded
<1>7. NotFoundIsLastResort'
  BY <1>1, <1>2, <1>3 DEF Dispatched, NotFoundIsLastResort, Queued, Running
<1> QED BY <1>4, <1>5, <1>6, <1>7 DEF Dispatched

(* The chain of handlers has come to its end.                              *)
LEMMA LastDeclineDispatches ==
    ASSUME TypeOK, Dispatched, NEW t \in tasks, NEW retry \in BOOLEAN,
           Tail(t.rest) = <<>>, tasks' = tasks \ {t}, EndOfChain(t.msg, retry),
           UNCHANGED <<aborted, attempts, offered, claimed>>
    PROVE  Dispatched'
<1> DEFINE m == t.msg
<1>1. m \in Messages
  BY DEF TypeOK
<1> HIDE DEF m
<1>2. /\ Running' = Running \ {m}
      /\ m \in Running /\ m \notin Queued /\ m \notin claimed /\ attempts[m] # 0
  BY <1>1, RunEnds DEF Dispatched, OnePlace, m
<1>3. EndOfChain(m, retry)
  BY DEF m
<1>4. /\ Queued' = IF retry THEN Queued \cup {m} ELSE Queued
      /\ Unrepeated'
      /\ \A n \in Requests \ {m} : response'[n] = response[n]
      /\ retry => response' = response
      /\ ~retry /\ m \in Requests => response'[m].by # "nobody"
  BY <1>1, <1>2, <1>3, EndOfChainFacts DEF Dispatched, OnePlace, Unrepeated
<1>5. OnePlace'
  <2>1. \A u, v \in tasks' : u.msg = v.msg => u = v
    BY DEF Dispatched, OnePlace
  <2>2. Running' \cap Queued' = {} /\ claimed' \cap (Running' \cup Queued') = {}
    BY <1>2, <1>4 DEF Dispatched, OnePlace
  <2>3. \A n \in Messages : attempts'[n] = 0 =>
            n \notin Running' \cup Queued' \cup claimed' /\ offered'[n] = {}
    BY <1>2, <1>4 DEF Dispatched, OnePlace
  <2> QED BY <1>4, <2>1, <2>2, <2>3 DEF OnePlace, Unrepeated
<1>6. RestIsLeft'
  BY DEF Dispatched, RestIsLeft
<1>7. NoneLost'
  <2>1. ASSUME NEW n \in Requests, ~aborted, attempts[n] > 0
        PROVE  n \in Running' \cup Queued' \cup claimed' \/ response'[n].by # "nobody"
    <3>1. n \in Running \cup Queued \cup claimed \/ response[n].by # "nobody"
      BY <2>1 DEF Dispatched, NoneLost, Responded
    <3>2. CASE n # m
      BY <1>2, <1>4, <3>1, <3>2
    <3>3. CASE n = m
      BY <1>4, <3>3
    <3> QED BY <3>2, <3>3
  <2> QED BY <2>1 DEF NoneLost, Responded
<1>8. NotFoundIsLastResort'
  <2>1. ASSUME NEW n \in Requests, response'[n].by = "methodNotFound"
        PROVE  /\ Range(StaticHandlers) \subseteq offered'[n]
               /\ n \notin claimed' /\ n \notin Queued' \cup Running'
    <3>1. CASE n # m
      <4>1. response[n].by = "methodNotFound"
        BY <1>4, <2>1, <3>1
      <4>2. /\ Range(StaticHandlers) \subseteq offered[n]
            /\ n \notin claimed /\ n \notin Queued \cup Running
        BY <4>1 DEF Dispatched, NotFoundIsLastResort, Queued, Running
      <4> QED BY <1>2, <1>4, <3>1, <4>2
    <3>2. CASE n = m
      <4>1. ~retry
        <5>1. response[m].by # "methodNotFound"
          BY <1>2, <3>2 DEF Dispatched, NotFoundIsLastResort, Running
        <5> QED BY <1>4, <2>1, <3>2, <5>1
      <4>2. Range(StaticHandlers) \subseteq offered[m]
        <5>1. Range(StaticHandlers) \subseteq offered[m] \cup Range(Tail(t.rest))
          BY DEF Dispatched, RestIsLeft, m
        <5>2. Range(<<>>) = {}
          BY DEF Range
        <5> QED BY <5>1, <5>2
      <4> QED BY <1>2, <1>4, <3>2, <4>1, <4>2
    <3> QED BY <3>1, <3>2
  <2> QED BY <2>1 DEF NotFoundIsLastResort, Queued, Running
<1> QED BY <1>5, <1>6, <1>7, <1>8 DEF Dispatched

(* The next handler of the chain runs.                                     *)
LEMMA NextHandlerDispatches ==
    ASSUME TypeOK, Dispatched, NEW t \in tasks, NEW u \in TaskRecords, u.msg = t.msg,
           u.rest = Tail(t.rest), u.rest # <<>>, tasks' = (tasks \ {t}) \cup {u},
           offered' = [offered EXCEPT ![t.msg] = @ \cup {Head(u.rest)}],
           UNCHANGED <<aborted, retryQueue, attempts, response, claimed>>
    PROVE  Dispatched'
<1> DEFINE m == t.msg
<1>1. m \in Messages /\ t \in TaskRecords
  BY DEF TypeOK, TaskRecords
<1>2. Running' = Running /\ Queued' = Queued /\ m \in Running
  BY DEF Running, Queued
<1>3. /\ offered'[m] = offered[m] \cup {Head(u.rest)}
      /\ \A n \in Messages : n # m => offered'[n] = offered[n]
  BY <1>1 DEF TypeOK
<1>4. \A v \in tasks : v # t => v.msg # m /\ v.msg \in Messages
  BY DEF Dispatched, OnePlace, TypeOK
<1>5. OnePlace'
  <2>1. \A v, w \in tasks' : v.msg = w.msg => v = w
    BY <1>4 DEF Dispatched, OnePlace
  <2>2. \A n \in Messages : attempts'[n] = 0 =>
            n \notin Running' \cup Queued' \cup claimed' /\ offered'[n] = {}
    BY <1>2, <1>3 DEF Dispatched, OnePlace
  <2>3. Unrepeated'
    BY DEF Dispatched, OnePlace, Unrepeated
  <2>4. Running' \cap Queued' = {} /\ claimed' \cap (Running' \cup Queued') = {}
    BY <1>2 DEF Dispatched, OnePlace
  <2> QED BY <2>1, <2>2, <2>3, <2>4 DEF OnePlace, Unrepeated
<1>6. RestIsLeft'
  <2>1. Range(StaticHandlers) \subseteq offered'[u.msg] \cup Range(Tail(u.rest))
    <3>1. Range(StaticHandlers) \subseteq offered[m] \cup Range(u.rest)
      BY DEF Dispatched, RestIsLeft
    <3>2. Range(u.rest) = {Head(u.rest)} \cup Range(Tail(u.rest))
      BY HeadAndTail DEF TaskRecords
    <3> QED BY <1>3, <3>1, <3>2
  <2>2. \A v \in tasks \ {t} : Range(StaticHandlers) \subseteq offered'[v.msg] \cup Range(Tail(v.rest))
    BY <1>3, <1>4 DEF Dispatched, RestIsLeft
  <2> QED BY <2>1, <2>2 DEF RestIsLeft
<1>7. NoneLost'
  BY <1>2 DEF Dispatched, NoneLost, Responded
<1>8. NotFoundIsLastResort'
  <2>1. ASSUME NEW n \in Requests, response[n].by = "methodNotFound"
        PROVE  /\ Range(StaticHandlers) \subseteq offered'[n]
               /\ n \notin claimed' /\ n \notin Queued' \cup Running'
    <3>1. /\ Range(StaticHandlers) \subseteq offered[n] /\ n \in Messages
          /\ n \notin claimed /\ n \notin Queued \cup Running
      BY <2>1 DEF Dispatched, NotFoundIsLastResort, Queued, Running, Messages
    <3> QED BY <1>2, <1>3, <3>1
  <2> QED BY <2>1 DEF NotFoundIsLastResort, Queued, Running
<1> QED BY <1>5, <1>6, <1>7, <1>8 DEF Dispatched

LEMMA DeclineDispatches ==
    ASSUME TypeOK, Dispatched, NEW t \in tasks, NEW askRetry \in BOOLEAN,
           HandlerDeclines(t, askRetry)
    PROVE  Dispatched'
<1> DEFINE retry == t.retry \/ askRetry
           rest  == Tail(t.rest)
           u     == [t EXCEPT !.rest = rest, !.retry = retry]
<1>1. /\ t \in TaskRecords /\ retry \in BOOLEAN /\ rest \in Seq(Handlers)
      /\ UNCHANGED <<aborted, attempts, claimed>>
  BY HeadAndTail DEF TypeOK, TaskRecords, HandlerDeclines
<1>2. CASE rest = <<>>
  <2>1. tasks' = tasks \ {t} /\ EndOfChain(t.msg, retry) /\ UNCHANGED offered
    BY <1>2 DEF HandlerDeclines, NextHandlers
  <2> HIDE DEF retry
  <2> QED BY <1>1, <1>2, <2>1, LastDeclineDispatches
<1>3. CASE rest # <<>> /\ DispatchStops
  <2>1. /\ tasks' = tasks \ {t} /\ aborted
        /\ UNCHANGED <<retryQueue, response, offered>>
    BY <1>3 DEF HandlerDeclines, NextHandlers, DispatchStops
  <2>2. Queued' = Queued /\ Running' = Running \ {t.msg}
    BY <2>1, RunEnds DEF Queued, Dispatched
  <2>3. OnePlace' /\ RestIsLeft'
    BY <1>1, <2>1, <2>2 DEF Dispatched, OnePlace, RestIsLeft
  <2>4. NoneLost'
    BY <1>1, <2>1 DEF NoneLost
  <2>5. NotFoundIsLastResort'
    BY <1>1, <2>1, <2>2 DEF Dispatched, NotFoundIsLastResort, Queued, Running
  <2> QED BY <2>3, <2>4, <2>5 DEF Dispatched
<1>4. CASE rest # <<>> /\ ~DispatchStops
  <2>1. /\ tasks' = (tasks \ {t}) \cup {u}
        /\ offered' = [offered EXCEPT ![t.msg] = @ \cup {Head(rest)}]
        /\ UNCHANGED <<retryQueue, response>>
    BY <1>4 DEF HandlerDeclines, NextHandlers
  <2>2. u \in TaskRecords /\ u.msg = t.msg /\ u.rest = rest
    BY <1>1, <1>4 DEF TaskRecords
  <2> HIDE DEF u
  <2> QED BY <1>1, <1>4, <2>1, <2>2, NextHandlerDispatches
<1> QED BY <1>2, <1>3, <1>4

LEMMA AddDispatches ==
    ASSUME TypeOK, Dispatched, NEW h \in DynamicHandlers, AddDynamicHandler(h)
    PROVE  Dispatched'
<1> DEFINE added    == Append(dynamicHandlers, h)
           handlers == StaticHandlers \o added
<1>1. added \in Seq(DynamicHandlers) /\ added # <<>>
  BY Appending DEF TypeOK
<1> HIDE DEF added
<1>2. /\ handlers \in Seq(Handlers) /\ handlers # <<>>
      /\ Range(StaticHandlers) \subseteq Range(handlers)
  BY <1>1, Snapshot
<1>3. /\ retryQueue' = <<>> /\ UNCHANGED <<aborted, response, claimed>>
      /\ Queued \subseteq Messages
  BY RangeOfSeq DEF AddDynamicHandler, QueueAfterSplice, requestVars, Queued, TypeOK
<1>4. Queued' = {} /\ Unrepeated'
  BY <1>3 DEF Queued, Unrepeated, Range
<1>5. CASE aborted
  <2>1. UNCHANGED <<tasks, attempts, offered>>
    BY <1>5 DEF AddDynamicHandler
  <2>2. Running' = Running
    BY <2>1 DEF Running
  <2>3. OnePlace'
    BY <1>3, <1>4, <2>1, <2>2 DEF Dispatched, OnePlace, Unrepeated
  <2>4. RestIsLeft' /\ NoneLost'
    BY <1>3, <1>5, <2>1 DEF Dispatched, RestIsLeft, NoneLost
  <2>5. NotFoundIsLastResort'
    BY <1>3, <1>4, <2>1, <2>2 DEF Dispatched, NotFoundIsLastResort, Queued, Running
  <2> QED BY <2>3, <2>4, <2>5 DEF Dispatched
<1>6. CASE ~aborted
  <2>1. /\ tasks' = tasks \cup {Task(m, handlers) : m \in Queued}
        /\ attempts' = [m \in Messages |-> attempts[m] + (IF m \in Queued THEN 1 ELSE 0)]
        /\ offered' = [m \in Messages |->
                 IF m \in Queued THEN offered[m] \cup {Head(handlers)} ELSE offered[m]]
    BY <1>6 DEF AddDynamicHandler, Queued, added
  <2> HIDE DEF handlers
  <2>2. \A m \in Queued : Task(m, handlers).msg = m /\ Task(m, handlers).rest = handlers
    BY DEF Task
  <2>3. Running' = Running \cup Queued
    BY <2>1, <2>2 DEF Running
  <2>4. \A t \in tasks : t.msg \in Messages /\ t.msg \in Running
    BY DEF Running, TypeOK
  <2>5. OnePlace'
    <3>1. ASSUME NEW t \in tasks', NEW u \in tasks', t.msg = u.msg PROVE t = u
      <4>1. CASE t \in tasks /\ u \in tasks
        BY <3>1, <4>1 DEF Dispatched, OnePlace
      <4>2. CASE t \notin tasks /\ u \notin tasks
        BY <2>1, <2>2, <3>1, <4>2
      <4>3. ASSUME NEW v \in tasks, NEW w \in tasks' \ tasks PROVE v.msg # w.msg
        BY <2>1, <2>2, <2>4 DEF Dispatched, OnePlace
      <4> QED BY <3>1, <4>1, <4>2, <4>3
    <3>2. Running' \cap Queued' = {} /\ claimed' \cap (Running' \cup Queued') = {}
      BY <1>3, <1>4, <2>3 DEF Dispatched, OnePlace
    <3>3. ASSUME NEW n \in Messages, attempts'[n] = 0
          PROVE  n \notin Running' \cup Queued' \cup claimed' /\ offered'[n] = {}
      <4>1. n \notin Queued /\ attempts[n] = 0
        BY <2>1, <3>3 DEF TypeOK
      <4> QED BY <1>3, <1>4, <2>1, <2>3, <4>1 DEF Dispatched, OnePlace
    <3> QED BY <1>4, <3>1, <3>2, <3>3 DEF OnePlace, Unrepeated
  <2>6. RestIsLeft'
    <3>1. Range(handlers) = {Head(handlers)} \cup Range(Tail(handlers))
      BY <1>2, HeadAndTail
    <3>2. \A m \in Queued : Range(StaticHandlers) \subseteq offered'[m] \cup Range(Tail(handlers))
      BY <1>2, <1>3, <2>1, <3>1
    <3>3. \A t \in tasks : Range(StaticHandlers) \subseteq offered'[t.msg] \cup Range(Tail(t.rest))
      BY <2>1, <2>4 DEF Dispatched, RestIsLeft
    <3> QED BY <2>1, <2>2, <3>2, <3>3 DEF RestIsLeft
  <2>7. NoneLost'
    <3>1. ASSUME NEW n \in Requests, attempts'[n] > 0
          PROVE  n \in Running' \cup Queued' \cup claimed' \/ response'[n].by # "nobody"
      <4>1. n \in Queued \/ attempts[n] > 0
        BY <2>1, <3>1 DEF TypeOK, Messages
      <4> QED BY <1>3, <1>6, <2>3, <4>1 DEF Dispatched, NoneLost, Responded
    <3> QED BY <3>1 DEF NoneLost, Responded
  <2>8. NotFoundIsLastResort'
    <3>1. ASSUME NEW n \in Requests, response[n].by = "methodNotFound"
          PROVE  /\ Range(StaticHandlers) \subseteq offered'[n]
                 /\ n \notin claimed' /\ n \notin Queued' \cup Running'
      <4>1. /\ Range(StaticHandlers) \subseteq offered[n] /\ n \in Messages
            /\ n \notin claimed /\ n \notin Queued \cup Running
        BY <3>1 DEF Dispatched, NotFoundIsLastResort, Queued, Running, Messages
      <4> QED BY <1>3, <1>4, <2>1, <2>3, <4>1
    <3> QED BY <1>3, <3>1 DEF NotFoundIsLastResort, Queued, Running
  <2> QED BY <2>5, <2>6, <2>7, <2>8 DEF Dispatched
<1> QED BY <1>5, <1>6

-----------------------------------------------------------------------------
(* Requests and their registry.                                            *)

Requested == ResponsesFit /\ EntriesFit /\ RegistryIsExact

(* A request that arrived gets its one answer, or none.                    *)
LEMMA AnswerIsRegistered ==
    ASSUME TypeOK, TypeOK', Requested, NEW m \in Messages, attempts[m] # 0,
           NEW who \in {"handler", "methodNotFound", "error"},
           \/ response' = response
           \/ m \in Requests /\ ~Responded(m) /\ response' = AnswerBy(m, who),
           \A n \in Requests : attempts'[n] = 0 <=> attempts[n] = 0,
           UNCHANGED <<aborted, incomingRequests>>
    PROVE  Requested'
<1>1. \A n \in Requests : attempts[n] \in Nat /\ attempts'[n] \in Nat
  BY DEF TypeOK, Messages
<1>2. \A id \in RequestIds : incomingRequests[id] \in Requests \cup {NoRequest}
  BY DEF TypeOK
<1>3. EntriesFit'
  BY <1>1, <1>2 DEF Requested, EntriesFit
<1>4. CASE response' = response
  BY <1>1, <1>3, <1>4 DEF Requested, ResponsesFit, RegistryIsExact
<1>5. CASE m \in Requests /\ ~Responded(m) /\ response' = AnswerBy(m, who)
  <2>1. /\ response'[m] = [by |-> who, at |-> IF aborted THEN "settled" ELSE "sending"]
        /\ \A n \in Requests \ {m} : response'[n] = response[n]
    BY <1>5, AnswerTypes
  <2>2. /\ response[m].at = "none" /\ attempts[m] > 0 /\ IdOf[m] \in RequestIds
        /\ aborted => incomingRequests[IdOf[m]] # m
    BY <1>1, <1>5, NoRequestAssumption
    DEF Requested, ResponsesFit, Responded, EntriesFit, RequestIds
  <2>3. ResponsesFit'
    BY <2>1, <2>2 DEF Requested, ResponsesFit
  <2>4. RegistryIsExact'
    <3>1. ASSUME NEW n \in Requests
          PROVE  /\ ~aborted /\ attempts[n] > 0 /\ response'[n].at \in {"none", "sending"} =>
                       incomingRequests[IdOf[n]] = n
                 /\ incomingRequests[IdOf[n]] = n => response'[n].at # "settled"
      <4>1. CASE n = m
        BY <2>1, <2>2, <4>1 DEF Requested, RegistryIsExact
      <4>2. CASE n # m
        BY <2>1, <4>2 DEF Requested, RegistryIsExact
      <4> QED BY <4>1, <4>2
    <3> QED BY <1>1, <3>1 DEF RegistryIsExact
  <2> QED BY <1>3, <2>3, <2>4 DEF Requested
<1> QED BY <1>4, <1>5

LEMMA ReceiveRegisters ==
    ASSUME TypeOK, TypeOK', Requested, NEW m \in Messages, Receive(m)
    PROVE  Requested'
<1>1. /\ ~aborted /\ attempts[m] = 0 /\ attempts' = [attempts EXCEPT ![m] = 1]
      /\ UNCHANGED aborted
  BY DEF Receive
<1>2. attempts'[m] = 1 /\ \A n \in Messages : n # m => attempts'[n] = attempts[n]
  BY <1>1 DEF TypeOK
<1>3. \/ response' = response
      \/ m \in Requests /\ response' = AnswerBy(m, "methodNotFound")
  BY DEF Receive, EndOfChain
<1>4. CASE m \in Requests
  <2>1. /\ incomingRequests' = [incomingRequests EXCEPT ![IdOf[m]] = m]
        /\ \A n \in Requests \ {m} : IdOf[n] = IdOf[m] /\ attempts[n] > 0 =>
              response[n].at \in {"landed", "settled"}
    BY <1>4 DEF Receive
  <2>2. /\ IdOf[m] \in RequestIds /\ incomingRequests'[IdOf[m]] = m
        /\ \A id \in RequestIds : id # IdOf[m] => incomingRequests'[id] = incomingRequests[id]
    BY <1>4, <2>1 DEF TypeOK, RequestIds
  <2>3. /\ \A n \in Requests \ {m} : response'[n] = response[n]
        /\ response[m].by = "nobody" /\ response[m].at = "none"
        /\ \/ response'[m] = response[m]
           \/ response'[m].by = "methodNotFound" /\ response'[m].at = "sending"
    BY <1>1, <1>3, <1>4, AnswerTypes DEF Requested, ResponsesFit
  <2>4. ResponsesFit'
    BY <1>2, <2>3 DEF Requested, ResponsesFit, Messages
  <2>5. EntriesFit'
    <3>1. ASSUME NEW id \in RequestIds, incomingRequests'[id] # NoRequest
          PROVE  IdOf[incomingRequests'[id]] = id /\ attempts'[incomingRequests'[id]] > 0
      <4>1. CASE id = IdOf[m]
        BY <1>2, <2>2, <4>1
      <4>2. CASE id # IdOf[m]
        <5>1. /\ incomingRequests'[id] = incomingRequests[id]
              /\ incomingRequests[id] \in Requests
          BY <2>2, <3>1, <4>2 DEF TypeOK
        <5>2. IdOf[incomingRequests[id]] = id /\ attempts[incomingRequests[id]] > 0
          BY <3>1, <5>1 DEF Requested, EntriesFit
        <5> QED BY <1>1, <1>2, <5>1, <5>2 DEF Messages
      <4> QED BY <4>1, <4>2
    <3> QED BY <1>1, <3>1 DEF EntriesFit
  <2>6. RegistryIsExact'
    <3>1. ASSUME NEW n \in Requests
          PROVE  /\ attempts'[n] > 0 /\ response'[n].at \in {"none", "sending"} =>
                       incomingRequests'[IdOf[n]] = n
                 /\ incomingRequests'[IdOf[n]] = n => response'[n].at # "settled"
      <4>1. CASE n = m
        BY <2>2, <2>3, <4>1
      <4>2. CASE n # m
        <5>1. /\ response'[n] = response[n] /\ attempts'[n] = attempts[n]
              /\ IdOf[n] \in RequestIds
          BY <1>2, <2>3, <4>2 DEF Messages, RequestIds
        <5>2. CASE IdOf[n] = IdOf[m]
          BY <2>1, <2>2, <4>2, <5>1, <5>2
        <5>3. CASE IdOf[n] # IdOf[m]
          BY <1>1, <2>2, <5>1, <5>3 DEF Requested, RegistryIsExact
        <5> QED BY <5>2, <5>3
      <4> QED BY <4>1, <4>2
    <3> QED BY <3>1 DEF RegistryIsExact
  <2> QED BY <2>4, <2>5, <2>6 DEF Requested
<1>5. CASE m \notin Requests
  <2>1. UNCHANGED <<incomingRequests, response>>
    BY <1>3, <1>5 DEF Receive
  <2>2. \A n \in Requests : attempts'[n] = attempts[n]
    BY <1>2, <1>5 DEF Messages
  <2>3. \A id \in RequestIds : incomingRequests[id] \in Requests \cup {NoRequest}
    BY DEF TypeOK
  <2>4. ResponsesFit'
    BY <2>1, <2>2 DEF Requested, ResponsesFit
  <2>5. EntriesFit'
    BY <1>1, <2>1, <2>2, <2>3 DEF Requested, EntriesFit
  <2>6. RegistryIsExact'
    BY <1>1, <2>1, <2>2 DEF Requested, RegistryIsExact
  <2> QED BY <2>4, <2>5, <2>6 DEF Requested
<1> QED BY <1>4, <1>5

LEMMA LandKeepsRegistry ==
    ASSUME TypeOK, Requested, NEW m \in Requests, LandResponse(m)
    PROVE  Requested'
<1>1. /\ response[m].at = "sending" /\ response' = [response EXCEPT ![m].at = "landed"]
      /\ UNCHANGED <<aborted, incomingRequests, attempts>>
  BY DEF LandResponse, dispatchVars
<1>2. /\ response'[m].at = "landed" /\ response'[m].by = response[m].by
      /\ \A n \in Requests : n # m => response'[n] = response[n]
  BY <1>1 DEF TypeOK
<1>3. ResponsesFit'
  BY <1>1, <1>2 DEF Requested, ResponsesFit
<1>4. EntriesFit'
  BY <1>1 DEF Requested, EntriesFit
<1>5. RegistryIsExact'
  BY <1>1, <1>2 DEF Requested, RegistryIsExact
<1> QED BY <1>3, <1>4, <1>5 DEF Requested

LEMMA FinishKeepsRegistry ==
    ASSUME TypeOK, Requested, NEW m \in Requests, FinishRequest(m)
    PROVE  Requested'
<1>1. /\ response[m].at \in {"landed", "sending"}
      /\ response' = [response EXCEPT ![m].at = "settled"]
      /\ incomingRequests' = IF OwnEntry(m)
                             THEN [incomingRequests EXCEPT ![IdOf[m]] = NoRequest]
                             ELSE incomingRequests
      /\ UNCHANGED <<aborted, attempts>>
  BY DEF FinishRequest, dispatchVars
<1>2. /\ response'[m].at = "settled" /\ response'[m].by = response[m].by
      /\ \A n \in Requests : n # m => response'[n] = response[n]
  BY <1>1 DEF TypeOK
<1>3. ResponsesFit'
  BY <1>1, <1>2 DEF Requested, ResponsesFit
<1>4. /\ incomingRequests'[IdOf[m]] # m
      /\ \A id \in RequestIds : \/ incomingRequests'[id] = incomingRequests[id]
                                \/ incomingRequests'[id] = NoRequest /\ incomingRequests[id] = m
  BY <1>1, NoRequestAssumption DEF OwnEntry, TypeOK, RequestIds
<1>5. EntriesFit'
  BY <1>1, <1>4 DEF Requested, EntriesFit
<1>6. RegistryIsExact'
  <2>1. ASSUME NEW n \in Requests
        PROVE  /\ ~aborted /\ attempts[n] > 0 /\ response'[n].at \in {"none", "sending"} =>
                     incomingRequests'[IdOf[n]] = n
               /\ incomingRequests'[IdOf[n]] = n => response'[n].at # "settled"
    <3>1. CASE n = m
      BY <1>2, <1>4, <3>1
    <3>2. CASE n # m
      <4>1. IdOf[n] \in RequestIds /\ n # NoRequest /\ response'[n] = response[n]
        BY <1>2, <3>2, NoRequestAssumption DEF RequestIds
      <4> QED BY <1>4, <3>2, <4>1 DEF Requested, RegistryIsExact
    <3> QED BY <3>1, <3>2
  <2> QED BY <1>1, <2>1 DEF RegistryIsExact
<1> QED BY <1>3, <1>5, <1>6 DEF Requested

LEMMA CloseClearsRegistry ==
    ASSUME TypeOK, Requested, Close
    PROVE  Requested'
<1>1. /\ aborted' /\ \A id \in RequestIds : incomingRequests'[id] = NoRequest
      /\ UNCHANGED <<response, attempts>>
  BY DEF Close, dispatchVars
<1>2. ResponsesFit'
  BY <1>1 DEF Requested, ResponsesFit
<1>3. EntriesFit'
  BY <1>1 DEF EntriesFit
<1>4. RegistryIsExact'
  BY <1>1, NoRequestAssumption DEF RegistryIsExact, RequestIds
<1> QED BY <1>2, <1>3, <1>4 DEF Requested

-----------------------------------------------------------------------------
(* The invariant.                                                          *)

LEMMA Initially ==
    ASSUME Init
    PROVE  IInv
<1>1. /\ retryQueue = <<>> /\ tasks = {} /\ claimed = {} /\ dynamicHandlers = <<>> /\ disposed = {}
      /\ \A m \in Messages : attempts[m] = 0 /\ offered[m] = {}
      /\ \A m \in Requests : response[m] = [by |-> "nobody", at |-> "none"]
      /\ \A id \in RequestIds : incomingRequests[id] = NoRequest
      /\ ~aborted
  BY DEF Init
<1>2. Queued = {} /\ Running = {} /\ Registered = {}
  BY <1>1 DEF Queued, Running, Registered, Range
<1>3. IsFiniteSet(Registered) /\ Cardinality(Registered) = 0
  BY <1>2, FS_EmptySet
<1>4. \A m \in Requests : m \in Messages /\ IdOf[m] \in RequestIds
  BY DEF Messages, RequestIds
<1>5. TypeOK
  <2>1. <<>> \in Seq(DynamicHandlers) /\ <<>> \in Seq(Messages)
    BY EmptySeq
  <2>2. AttemptBound = 1
    BY <1>3 DEF AttemptBound, Registered
  <2>3. /\ aborted \in BOOLEAN /\ dynamicHandlers \in Seq(DynamicHandlers)
        /\ disposed \subseteq DynamicHandlers /\ retryQueue \in Seq(Messages)
        /\ claimed \subseteq Messages /\ owed \subseteq Messages \X DynamicHandlers
    BY <1>1, <2>1 DEF Init
  <2>4. /\ attempts \in [Messages -> Nat] /\ \A m \in Messages : attempts[m] <= AttemptBound
        /\ offered \in [Messages -> SUBSET Handlers]
    BY <2>2 DEF Init
  <2>5. /\ incomingRequests \in [RequestIds -> Requests \cup {NoRequest}]
        /\ controller \in [Requests -> {"none", "live", "aborted"}]
    BY DEF Init
  <2>6. response \in [Requests -> [by : {"nobody", "handler", "methodNotFound", "error"},
                                  at : {"none", "sending", "landed", "settled"}]]
    BY DEF Init
  <2> QED BY <1>1, <2>3, <2>4, <2>5, <2>6 DEF TypeOK
<1>6. Dispatched
  <2>1. OnePlace
    BY <1>1, <1>2 DEF OnePlace
  <2>2. RestIsLeft /\ NoneLost /\ NotFoundIsLastResort
    BY <1>1, <1>4 DEF RestIsLeft, NoneLost, NotFoundIsLastResort
  <2> QED BY <2>1, <2>2 DEF Dispatched
<1>7. Requested
  BY <1>1, <1>4, NoRequestAssumption DEF Requested, ResponsesFit, EntriesFit, RegistryIsExact
<1> QED BY <1>3, <1>5, <1>6, <1>7 DEF IInv, Dispatched, Requested

LEMMA Step ==
    ASSUME IInv, [Next]_vars
    PROVE  IInv'
<1> USE DEF dispatchVars, requestVars, historyVars
<1>1. /\ TypeOK /\ IsFiniteSet(Registered) /\ Dispatched /\ Requested
      /\ TypeOK' /\ IsFiniteSet(Registered')
  BY TypeStep DEF IInv, Dispatched, Requested
<1>2. \A t \in tasks : t.msg \in Messages /\ attempts[t.msg] # 0
  BY <1>1 DEF Dispatched, OnePlace, Running, TypeOK
<1>3. ASSUME NEW m \in Messages, Receive(m) PROVE Dispatched' /\ Requested'
  BY <1>1, <1>3, ReceiveDispatches, ReceiveRegisters DEF Requested
<1>4. ASSUME NEW t \in tasks, HandlerClaims(t) PROVE Dispatched' /\ Requested'
  <2>1. Dispatched'
    BY <1>1, <1>4, ClaimDispatches
  <2>2. response' = response /\ attempts' = attempts /\ UNCHANGED <<aborted, incomingRequests>>
    BY <1>4 DEF HandlerClaims
  <2>3. Requested'
    BY <1>1, <1>2, <2>2, AnswerIsRegistered
  <2> QED BY <2>1, <2>3
<1>5. ASSUME NEW t \in tasks, NEW askRetry \in BOOLEAN, HandlerDeclines(t, askRetry)
      PROVE  Dispatched' /\ Requested'
  <2>1. Dispatched'
    BY <1>1, <1>5, DeclineDispatches
  <2>2. /\ \/ response' = response
           \/ t.msg \in Requests /\ ~Responded(t.msg) /\ response' = AnswerBy(t.msg, "methodNotFound")
        /\ attempts' = attempts /\ UNCHANGED <<aborted, incomingRequests>>
    BY <1>5 DEF HandlerDeclines, EndOfChain
  <2>3. Requested'
    BY <1>1, <1>2, <2>2, AnswerIsRegistered
  <2> QED BY <2>1, <2>3
<1>6. ASSUME NEW t \in tasks, HandlerThrows(t) PROVE Dispatched' /\ Requested'
  <2>1. Dispatched'
    BY <1>1, <1>6, ThrowDispatches
  <2>2. /\ \/ response' = response
           \/ t.msg \in Requests /\ ~Responded(t.msg) /\ response' = AnswerBy(t.msg, "error")
        /\ attempts' = attempts /\ UNCHANGED <<aborted, incomingRequests>>
    BY <1>6 DEF HandlerThrows, UnansweredRequest
  <2>3. Requested'
    BY <1>1, <1>2, <2>2, AnswerIsRegistered
  <2> QED BY <2>1, <2>3
<1>7. ASSUME NEW h \in DynamicHandlers, AddDynamicHandler(h) PROVE Dispatched' /\ Requested'
  <2>1. Dispatched'
    BY <1>1, <1>7, AddDispatches
  <2>2. /\ UNCHANGED <<aborted, incomingRequests, response>>
        /\ Queued \subseteq Messages
        /\ \/ attempts' = attempts
           \/ attempts' = [m \in Messages |-> attempts[m] + (IF m \in Queued THEN 1 ELSE 0)]
    BY <1>1, <1>7, RangeOfSeq DEF AddDynamicHandler, Queued, TypeOK
  <2>3. \A m \in Requests : attempts'[m] = 0 <=> attempts[m] = 0
    <3>1. \A m \in Queued : attempts[m] # 0
      BY <1>1, <2>2 DEF Dispatched, OnePlace
    <3> QED BY <1>1, <2>2, <3>1 DEF TypeOK, Messages
  <2>4. Requested'
    <3>1. \A id \in RequestIds : incomingRequests[id] \in Requests \cup {NoRequest}
      BY <1>1 DEF TypeOK
    <3>2. \A m \in Requests : attempts[m] \in Nat /\ attempts'[m] \in Nat
      BY <1>1 DEF TypeOK, Messages
    <3>3. ResponsesFit'
      BY <1>1, <2>2, <2>3 DEF Requested, ResponsesFit
    <3>4. EntriesFit'
      BY <1>1, <2>2, <2>3, <3>1, <3>2 DEF Requested, EntriesFit
    <3>5. RegistryIsExact'
      BY <1>1, <2>2, <2>3, <3>2 DEF Requested, RegistryIsExact
    <3> QED BY <3>3, <3>4, <3>5 DEF Requested
  <2> QED BY <2>1, <2>4
<1>8. ASSUME NEW h \in DynamicHandlers, DisposeHandler(h) PROVE Dispatched' /\ Requested'
  <2>1. UNCHANGED <<aborted, retryQueue, tasks, attempts, incomingRequests, response, offered, claimed>>
    BY <1>8 DEF DisposeHandler
  <2>2. Dispatched'
    BY <1>1, <2>1, DispatchElsewhere DEF Responded
  <2>3. Requested'
    BY <2>1, <1>1 DEF Requested, ResponsesFit, EntriesFit, RegistryIsExact
  <2> QED BY <2>2, <2>3
<1>9. ASSUME NEW m \in Requests, Respond(m) PROVE Dispatched' /\ Requested'
  <2>1. /\ ~Responded(m) /\ response' = AnswerBy(m, "handler") /\ offered[m] # {}
        /\ UNCHANGED <<aborted, retryQueue, tasks, attempts, incomingRequests, offered, claimed>>
    BY <1>9 DEF Respond
  <2>2. /\ response'[m].by = "handler"
        /\ \A n \in Requests \ {m} : response'[n] = response[n]
    BY <1>1, <2>1, AnswerTypes
  <2>3. \A n \in Requests : /\ response'[n].by = "methodNotFound" => response[n].by = "methodNotFound"
                            /\ Responded(n) => Responded(n)'
    BY <2>2 DEF Responded
  <2>4. Dispatched'
    BY <1>1, <2>1, <2>3, DispatchElsewhere
  <2>5. m \in Messages /\ attempts[m] # 0
    BY <1>1, <2>1 DEF Dispatched, OnePlace, Messages
  <2>6. Requested'
    BY <1>1, <2>1, <2>5, AnswerIsRegistered
  <2> QED BY <2>4, <2>6
<1>10. ASSUME NEW m \in Requests, NEW at \in {"landed", "settled"},
              response' = [response EXCEPT ![m].at = at],
              UNCHANGED <<aborted, retryQueue, tasks, attempts, offered, claimed>>
       PROVE  Dispatched'
  <2>1. \A n \in Requests : response'[n].by = response[n].by
    BY <1>1, <1>10 DEF TypeOK
  <2> QED BY <1>1, <1>10, <2>1, DispatchElsewhere DEF Responded
<1>11. ASSUME NEW m \in Requests, LandResponse(m) PROVE Dispatched' /\ Requested'
  <2>1. Dispatched'
    BY <1>10, <1>11 DEF LandResponse
  <2> QED BY <1>1, <1>11, <2>1, LandKeepsRegistry
<1>12. ASSUME NEW m \in Requests, FinishRequest(m) PROVE Dispatched' /\ Requested'
  <2>1. Dispatched'
    BY <1>10, <1>12 DEF FinishRequest
  <2> QED BY <1>1, <1>12, <2>1, FinishKeepsRegistry
<1>13. ASSUME NEW id \in RequestIds, ReceiveCancel(id) PROVE Dispatched' /\ Requested'
  <2>1. UNCHANGED <<aborted, retryQueue, tasks, attempts, incomingRequests, response, offered, claimed>>
    BY <1>13 DEF ReceiveCancel
  <2>2. Dispatched'
    BY <1>1, <2>1, DispatchElsewhere DEF Responded
  <2>3. Requested'
    BY <2>1, <1>1 DEF Requested, ResponsesFit, EntriesFit, RegistryIsExact
  <2> QED BY <2>2, <2>3
<1>14. ASSUME Close PROVE Dispatched' /\ Requested'
  <2>1. Dispatched'
    BY <1>1, <1>14, DispatchElsewhere DEF Close, Responded
  <2> QED BY <1>1, <1>14, <2>1, CloseClearsRegistry
<1>15. ASSUME UNCHANGED vars PROVE Dispatched' /\ Requested'
  <2>1. Dispatched'
    BY <1>1, <1>15, DispatchElsewhere DEF vars, Responded
  <2>2. Requested'
    BY <1>15, <1>1 DEF vars, Requested, ResponsesFit, EntriesFit, RegistryIsExact
  <2> QED BY <2>1, <2>2
<1>16. Dispatched' /\ Requested'
  BY <1>3, <1>4, <1>5, <1>6, <1>7, <1>8, <1>9, <1>11, <1>12, <1>13, <1>14, <1>15
  DEF Next, HandlerSettles
<1> QED BY <1>1, <1>16 DEF IInv, Dispatched, Requested

(* The inductive invariant holds of every execution.                       *)
THEOREM Invariance == Spec => []IInv
BY Initially, Step, PTL DEF Spec

(* The variables of jsonrpc.ts's dispatch keep to their types, and a       *)
(* message is dispatched at most once more for each handler that is added. *)
THEOREM TypeCorrect == Spec => []TypeOK
<1>1. IInv => TypeOK
  BY DEF IInv
<1> QED BY <1>1, Invariance, PTL

(* The peer's requests are found by their ids: theorem of RegistryIsExact. *)
THEOREM RegistryKept == Spec => []RegistryIsExact
<1>1. IInv => RegistryIsExact
  BY DEF IInv
<1> QED BY <1>1, Invariance, PTL

LEMMA AtMostOnePlace ==
    ASSUME IInv
    PROVE  NothingDropped
<1>1. /\ OnePlace /\ NoneLost /\ NotFoundIsLastResort /\ retryQueue \in Seq(Messages)
  BY DEF IInv, TypeOK
<1>2. DOMAIN retryQueue = 1 .. Len(retryQueue)
  BY <1>1, LenProperties
<1>3. ~aborted => \A m \in Requests : attempts[m] > 0 =>
          \/ \E t \in tasks : t.msg = m
          \/ m \in Range(retryQueue)
          \/ m \in claimed
          \/ Responded(m)
  BY <1>1 DEF NoneLost, Running, Queued
<1>4. ASSUME NEW m \in Messages
      PROVE  Cardinality({t \in tasks : t.msg = m})
               + Cardinality({i \in 1 .. Len(retryQueue) : retryQueue[i] = m}) <= 1
  <2> DEFINE runs    == {t \in tasks : t.msg = m}
             entries == {i \in 1 .. Len(retryQueue) : retryQueue[i] = m}
  <2>1. runs = {} \/ \E t : runs = {t}
    <3>1. \A t, u \in runs : t = u
      BY <1>1 DEF OnePlace
    <3> HIDE DEF runs
    <3> QED BY <3>1
  <2>2. entries = {} \/ \E i : entries = {i}
    <3>1. \A i, j \in entries : i = j
      BY <1>1, <1>2 DEF OnePlace
    <3> HIDE DEF entries
    <3> QED BY <3>1
  <2>3. runs = {} \/ entries = {}
    <3>1. runs # {} => m \in Running
      BY DEF Running
    <3>2. entries # {} => m \in Queued
      BY <1>2 DEF Queued, Range
    <3> QED BY <1>1, <3>1, <3>2 DEF OnePlace
  <2> HIDE DEF runs, entries
  <2>4. /\ Cardinality(runs) \in {0, 1} /\ Cardinality(entries) \in {0, 1}
        /\ runs = {} => Cardinality(runs) = 0
        /\ entries = {} => Cardinality(entries) = 0
    BY <2>1, <2>2, FS_EmptySet, FS_Singleton
  <2>5. Cardinality(runs) + Cardinality(entries) <= 1
    BY <2>3, <2>4
  <2> QED BY <2>5 DEF runs, entries
<1> QED BY <1>1, <1>3, <1>4 DEF NothingDropped

(* An open connection neither drops nor doubles a request, and answers     *)
(* "method not found" only when every handler was offered it.              *)
THEOREM EveryRequestKept == Spec => []NothingDropped
BY AtMostOnePlace, Invariance, PTL

(* A dispatch is over, goes on as it was, or is one handler or more nearer *)
(* its end.                                                                *)
Nearer(t, u) == u = t \/ (u.attempt = t.attempt /\ Len(u.rest) < Len(t.rest))

DispatchesOnlyShorten == [][\A t \in tasks, u \in tasks' : u.msg = t.msg => Nearer(t, u)]_vars

(* However handlers are added and disposed, ask for retries and throw, a   *)
(* dispatch that is under way never gets longer and is never begun anew:   *)
(* what DispatchEnds asks for beyond handlers that settle, for any         *)
(* messages and handlers.                                                  *)
THEOREM DispatchesShorten == Spec => DispatchesOnlyShorten
<1>1. ASSUME IInv, [Next]_vars, NEW t \in tasks, NEW u \in tasks', u.msg = t.msg
      PROVE  Nearer(t, u)
  <2>1. \A v \in tasks : v.msg = t.msg => v = t
    BY <1>1 DEF IInv, OnePlace
  <2>2. t.msg \in Running /\ t.msg \notin Queued /\ t.msg \in Messages /\ attempts[t.msg] # 0
    BY <1>1 DEF IInv, TypeOK, OnePlace, Running
  <2>3. CASE u \in tasks
    BY <1>1, <2>1, <2>3 DEF Nearer
  <2>4. ASSUME u \notin tasks, NEW m \in Messages, Receive(m) PROVE Nearer(t, u)
    <3>1. attempts[m] = 0 /\ u = Task(m, StaticHandlers \o dynamicHandlers)
      BY <1>1, <2>4 DEF Receive
    <3>2. u.msg = m
      BY <3>1 DEF Task
    <3> QED BY <1>1, <2>2, <3>1, <3>2
  <2>5. ASSUME u \notin tasks, NEW v \in tasks, HandlerSettles(v) PROVE Nearer(t, u)
    <3>1. ~HandlerClaims(v) /\ ~HandlerThrows(v)
      BY <2>5 DEF HandlerClaims, HandlerThrows
    <3>2. PICK askRetry \in BOOLEAN : HandlerDeclines(v, askRetry)
      BY <2>5, <3>1 DEF HandlerSettles
    <3>3. \E retry : u = [v EXCEPT !.rest = Tail(v.rest), !.retry = retry]
      BY <1>1, <2>5, <3>2 DEF HandlerDeclines, NextHandlers
    <3>4. v \in TaskRecords
      BY <1>1, <2>5 DEF IInv, TypeOK, TaskRecords
    <3>5. u.msg = v.msg /\ u.attempt = v.attempt /\ u.rest = Tail(v.rest)
      BY <3>3, <3>4 DEF TaskRecords
    <3>6. v = t
      BY <1>1, <2>1, <2>5, <3>5
    <3>7. v.rest \in Seq(Handlers) /\ v.rest # <<>>
      BY <3>4 DEF TaskRecords
    <3>8. Len(Tail(v.rest)) = Len(v.rest) - 1 /\ Len(v.rest) \in Nat
      BY <3>7, HeadTailProperties, LenProperties
    <3> QED BY <3>5, <3>6, <3>8 DEF Nearer
  <2>6. ASSUME u \notin tasks, NEW h \in DynamicHandlers, AddDynamicHandler(h)
        PROVE  Nearer(t, u)
    <3>1. u.msg \in Range(retryQueue)
      BY <1>1, <2>6 DEF AddDynamicHandler, Task
    <3> QED BY <1>1, <2>2, <3>1 DEF Queued
  <2>7. CASE UNCHANGED tasks
    BY <1>1, <2>3, <2>7
  <2>8. ASSUME NEW h \in DynamicHandlers, DisposeHandler(h) PROVE UNCHANGED tasks
    BY <2>8 DEF DisposeHandler
  <2>9. ASSUME NEW m \in Requests, Respond(m) \/ LandResponse(m) \/ FinishRequest(m)
        PROVE  UNCHANGED tasks
    BY <2>9 DEF Respond, LandResponse, FinishRequest, dispatchVars
  <2>10. ASSUME NEW id \in RequestIds, ReceiveCancel(id) PROVE UNCHANGED tasks
    BY <2>10 DEF ReceiveCancel, dispatchVars
  <2>11. CASE Close \/ UNCHANGED vars
    BY <2>7, <2>11 DEF Close, vars, dispatchVars
  <2> QED BY <1>1, <2>3, <2>4, <2>5, <2>6, <2>7, <2>8, <2>9, <2>10, <2>11 DEF Next
<1>2. IInv /\ [Next]_vars => [\A t \in tasks, u \in tasks' : u.msg = t.msg => Nearer(t, u)]_vars
  BY <1>1
<1> QED BY <1>2, Invariance, PTL DEF Spec, DispatchesOnlyShorten

-----------------------------------------------------------------------------
(* The batches of RpcBatch, whose members are dispatched as above.         *)

Collected(b)   == Range(responses[b])
Uncollected(b) == Batch!Replied(b) \ Collected(b)
Unprocessed(b) == processing[b] \cup {i \in Batch!NotificationsOf(b) : i > cursor[b]}

BatchTypes ==
    /\ calleeAborted \in BOOLEAN
    /\ cursor \in [Batches -> Nat]
    /\ remaining \in [Batches -> Int] /\ remainingNotifications \in [Batches -> Int]
    /\ responses \in [Batches -> Seq(Nat)] /\ responseSent \in [Batches -> BOOLEAN]
    /\ open \in [Batches -> SUBSET Nat] /\ processing \in [Batches -> SUBSET Nat]

(* What the loop of receiveBatch has gone through is accounted for: the    *)
(* counters count what is missing, each response is collected once, and    *)
(* the reply is sent exactly when nothing is missing any more.             *)
Accounted(b) ==
    /\ cursor[b] <= Len(KindsOf[b])
    /\ open[b] \subseteq Batch!RequestsOf(b) \cap (1 .. cursor[b])
    /\ processing[b] \subseteq Batch!NotificationsOf(b) \cap (1 .. cursor[b])
    /\ Collected(b) \subseteq (Batch!Replied(b) \cap (1 .. cursor[b])) \ open[b]
    /\ Len(responses[b]) = Cardinality(Collected(b))
    /\ cursor[b] > 0 => /\ remaining[b] = Cardinality(Uncollected(b))
                        /\ remainingNotifications[b] = Cardinality(Unprocessed(b))
    /\ ~calleeAborted => Batch!Replied(b) \cap (1 .. cursor[b]) = open[b] \cup Collected(b)
    /\ responseSent[b] <=> /\ cursor[b] > 0 /\ responses[b] # <<>>
                           /\ remaining[b] = 0 /\ remainingNotifications[b] = 0

BatchInv == BatchTypes /\ \A b \in Batches : Accounted(b)

(* The library's operators are the same in both modules.                   *)
LEMMA SameOperators ==
    ASSUME NEW S
    PROVE  Batch!Cardinality(S) = Cardinality(S) /\ Batch!Range(S) = Range(S)
<1>1. Batch!Cardinality(S) = Cardinality(S)
  BY DEF Batch!Cardinality, Cardinality
<1>2. Batch!Range(S) = Range(S)
  BY DEF Batch!Range, Range
<1> QED BY <1>1, <1>2

LEMMA MemberFacts ==
    ASSUME Batch!KindsAreSequences, NEW b \in Batches
    PROVE  /\ Len(KindsOf[b]) \in Nat \ {0} /\ Batch!Members(b) = 1 .. Len(KindsOf[b])
           /\ Batch!Members(b) = Batch!Replied(b) \cup Batch!NotificationsOf(b)
           /\ Batch!Replied(b) \cap Batch!NotificationsOf(b) = {}
           /\ Batch!RequestsOf(b) \subseteq Batch!Replied(b)
           /\ Batch!Replied(b) \ Batch!RequestsOf(b) = Batch!OfKind(b, {"invalid"})
           /\ IsFiniteSet(Batch!Replied(b)) /\ IsFiniteSet(Batch!NotificationsOf(b))
           /\ \A i \in Batch!Replied(b) \cup Batch!NotificationsOf(b) : i \in Nat /\ i > 0
<1>1. KindsOf[b] \in Seq(Batch!Kinds) /\ KindsOf[b] # <<>>
  BY DEF Batch!KindsAreSequences
<1>2. Len(KindsOf[b]) \in Nat \ {0}
  BY <1>1, LenProperties, EmptySeq
<1>3. \A i \in 1 .. Len(KindsOf[b]) : KindsOf[b][i] \in Batch!Kinds
  BY <1>1, ElementOfSeq
<1>4. IsFiniteSet(1 .. Len(KindsOf[b]))
  BY <1>2, FS_Interval
<1>5. /\ Batch!Replied(b) \subseteq 1 .. Len(KindsOf[b])
      /\ Batch!NotificationsOf(b) \subseteq 1 .. Len(KindsOf[b])
  BY DEF Batch!Replied, Batch!NotificationsOf, Batch!OfKind, Batch!Members
<1>6. IsFiniteSet(Batch!Replied(b)) /\ IsFiniteSet(Batch!NotificationsOf(b))
  BY <1>4, <1>5, FS_Subset
<1>7. /\ Batch!Members(b) = Batch!Replied(b) \cup Batch!NotificationsOf(b)
      /\ Batch!Replied(b) \cap Batch!NotificationsOf(b) = {}
      /\ Batch!RequestsOf(b) \subseteq Batch!Replied(b)
      /\ Batch!Replied(b) \ Batch!RequestsOf(b) = Batch!OfKind(b, {"invalid"})
  BY <1>3 DEF Batch!Replied, Batch!NotificationsOf, Batch!RequestsOf, Batch!OfKind,
              Batch!Members, Batch!Kinds
<1>8. \A i \in Batch!Replied(b) \cup Batch!NotificationsOf(b) : i \in Nat /\ i > 0
  BY <1>2, <1>5
<1> QED BY <1>2, <1>6, <1>7, <1>8 DEF Batch!Members

LEMMA MissingAreFinite ==
    ASSUME Batch!KindsAreSequences, BatchTypes, NEW b \in Batches, Accounted(b)
    PROVE  /\ IsFiniteSet(Uncollected(b)) /\ IsFiniteSet(Unprocessed(b))
           /\ Unprocessed(b) \subseteq Batch!NotificationsOf(b)
           /\ IsFiniteSet(Collected(b))
           /\ cursor[b] = 0 => /\ Uncollected(b) = Batch!Replied(b) /\ responses[b] = <<>>
                               /\ Unprocessed(b) = Batch!NotificationsOf(b)
<1>1. /\ Uncollected(b) \subseteq Batch!Replied(b) /\ Collected(b) \subseteq Batch!Replied(b)
      /\ Unprocessed(b) \subseteq Batch!NotificationsOf(b)
  BY DEF Uncollected, Unprocessed, Accounted
<1>2. IsFiniteSet(Uncollected(b)) /\ IsFiniteSet(Unprocessed(b)) /\ IsFiniteSet(Collected(b))
  BY <1>1, MemberFacts, FS_Subset
<1>3. ASSUME cursor[b] = 0
      PROVE  /\ Uncollected(b) = Batch!Replied(b) /\ responses[b] = <<>>
             /\ Unprocessed(b) = Batch!NotificationsOf(b)
  <2>1. 1 .. cursor[b] = {}
    BY <1>3
  <2>2. Collected(b) = {} /\ processing[b] = {} /\ Len(responses[b]) = Cardinality(Collected(b))
    BY <2>1 DEF Accounted
  <2>3. Uncollected(b) = Batch!Replied(b)
    BY <2>2 DEF Uncollected
  <2>4. \A i \in Batch!NotificationsOf(b) : i > cursor[b]
    BY <1>3, MemberFacts
  <2>5. Unprocessed(b) = Batch!NotificationsOf(b)
    BY <2>2, <2>4 DEF Unprocessed
  <2>6. responses[b] = <<>>
    <3>1. Len(responses[b]) = 0 /\ responses[b] \in Seq(Nat)
      BY <2>2, FS_EmptySet DEF BatchTypes
    <3> QED BY <3>1, EmptySeq
  <2> QED BY <2>3, <2>5, <2>6
<1> QED BY <1>1, <1>2, <1>3

(* While something is missing the reply is not sent.                       *)
LEMMA NotSentYet ==
    ASSUME Batch!KindsAreSequences, BatchTypes, NEW b \in Batches, Accounted(b),
           Uncollected(b) # {} \/ Unprocessed(b) # {}
    PROVE  ~responseSent[b]
<1>1. Cardinality(Uncollected(b)) # 0 \/ Cardinality(Unprocessed(b)) # 0
  BY MissingAreFinite, FS_EmptySet
<1> QED BY <1>1 DEF Accounted

(* A batch of which nothing changes.                                       *)
LEMMA BatchElsewhere ==
    ASSUME NEW b \in Batches, Accounted(b), calleeAborted => calleeAborted',
           cursor'[b] = cursor[b], remaining'[b] = remaining[b],
           remainingNotifications'[b] = remainingNotifications[b],
           responses'[b] = responses[b], responseSent'[b] = responseSent[b],
           open'[b] = open[b], processing'[b] = processing[b]
    PROVE  Accounted(b)'
<1>1. /\ Collected(b)' = Collected(b) /\ Uncollected(b)' = Uncollected(b)
      /\ Unprocessed(b)' = Unprocessed(b)
  BY DEF Collected, Uncollected, Unprocessed
<1> QED BY <1>1 DEF Accounted

(* A response is collected: one is missing less, and the reply is sent if  *)
(* nothing is missing any more.                                            *)
LEMMA CollectFacts ==
    ASSUME Batch!KindsAreSequences, BatchTypes, NEW b \in Batches, Accounted(b),
           NEW i \in Uncollected(b), NEW n \in Int,
           Batch!CollectResponse(b, i, Cardinality(Uncollected(b)), n)
    PROVE  /\ responses' \in [Batches -> Seq(Nat)] /\ remaining' \in [Batches -> Int]
           /\ responseSent' \in [Batches -> BOOLEAN]
           /\ Collected(b)' = Collected(b) \cup {i}
           /\ Len(responses'[b]) = Cardinality(Collected(b)')
           /\ remaining'[b] = Cardinality(Uncollected(b)') /\ responses'[b] # <<>>
           /\ responseSent'[b] <=> remaining'[b] = 0 /\ n = 0
           /\ \A c \in Batches \ {b} : /\ responses'[c] = responses[c] /\ remaining'[c] = remaining[c]
                                       /\ responseSent'[c] = responseSent[c]
<1>1. i \in Batch!Replied(b) /\ i \notin Collected(b) /\ i \in Nat
  BY MemberFacts DEF Uncollected
<1>2. /\ responses' = [responses EXCEPT ![b] = Append(@, i)]
      /\ remaining' = [remaining EXCEPT ![b] = Cardinality(Uncollected(b)) - 1]
      /\ Batch!SendResponsesIfReady(b, Append(responses[b], i), Cardinality(Uncollected(b)) - 1, n)
  BY DEF Batch!CollectResponse
<1>3. responses[b] \in Seq(Nat)
  BY DEF BatchTypes
<1>4. /\ Append(responses[b], i) \in Seq(Nat) /\ Append(responses[b], i) # <<>>
      /\ Range(Append(responses[b], i)) = Range(responses[b]) \cup {i}
  BY <1>1, <1>3, Appending
<1>5. Len(Append(responses[b], i)) = Len(responses[b]) + 1
  BY <1>1, <1>3, AppendProperties
<1>6. /\ responses' \in [Batches -> Seq(Nat)] /\ responses'[b] = Append(responses[b], i)
      /\ \A c \in Batches \ {b} : responses'[c] = responses[c]
  BY <1>2, <1>4 DEF BatchTypes
<1>7. /\ Collected(b)' = Collected(b) \cup {i}
      /\ Uncollected(b)' = Uncollected(b) \ {i}
  BY <1>4, <1>6 DEF Collected, Uncollected
<1>8. Len(responses'[b]) = Cardinality(Collected(b)')
  <2>1. Cardinality(Collected(b) \cup {i}) = Cardinality(Collected(b)) + 1
    BY <1>1, MissingAreFinite, FS_AddElement
  <2>2. Len(responses[b]) = Cardinality(Collected(b))
    BY DEF Accounted
  <2> QED BY <1>5, <1>6, <1>7, <2>1, <2>2
<1>9. /\ Cardinality(Uncollected(b)') = Cardinality(Uncollected(b)) - 1
      /\ Cardinality(Uncollected(b)) \in Nat
  BY <1>7, MissingAreFinite, FS_RemoveElement, FS_CardinalityType
<1>10. /\ remaining' \in [Batches -> Int] /\ remaining'[b] = Cardinality(Uncollected(b)')
       /\ \A c \in Batches \ {b} : remaining'[c] = remaining[c]
  BY <1>2, <1>9 DEF BatchTypes
<1>11. ~responseSent[b]
  BY NotSentYet
<1>12. /\ responseSent' \in [Batches -> BOOLEAN]
       /\ responseSent'[b] <=> remaining'[b] = 0 /\ n = 0
       /\ \A c \in Batches \ {b} : responseSent'[c] = responseSent[c]
  <2>1. CASE Batch!ReplyReady(b, Append(responses[b], i), Cardinality(Uncollected(b)) - 1, n)
    <3>1. responseSent' = [responseSent EXCEPT ![b] = TRUE]
      BY <1>2, <2>1 DEF Batch!SendResponsesIfReady
    <3>2. remaining'[b] = 0 /\ n = 0
      BY <1>9, <1>10, <2>1 DEF Batch!ReplyReady
    <3> QED BY <3>1, <3>2 DEF BatchTypes
  <2>2. CASE ~Batch!ReplyReady(b, Append(responses[b], i), Cardinality(Uncollected(b)) - 1, n)
    <3>1. responseSent' = responseSent
      BY <1>2, <2>2 DEF Batch!SendResponsesIfReady
    <3>2. ~(remaining'[b] = 0 /\ n = 0)
      BY <1>4, <1>9, <1>10, <1>11, <2>2 DEF Batch!ReplyReady
    <3> QED BY <1>11, <3>1, <3>2 DEF BatchTypes
  <2> QED BY <2>1, <2>2
<1> QED BY <1>6, <1>7, <1>8, <1>10, <1>12, <1>4

LEMMA MemberIsAccounted ==
    ASSUME Batch!KindsAreSequences, BatchInv, NEW b \in Batches, Batch!ReceiveMember(b)
    PROVE  BatchInv'
<1> DEFINE i == cursor[b] + 1
           n == Cardinality(Unprocessed(b))
<1>1. BatchTypes /\ Accounted(b) /\ cursor[b] \in Nat /\ i \in Nat
  BY DEF BatchInv, BatchTypes
<1>2. /\ i \in Batch!Members(b) /\ i \notin 1 .. cursor[b] /\ 1 .. i = (1 .. cursor[b]) \cup {i}
      /\ cursor' = [cursor EXCEPT ![b] = i]
      /\ UNCHANGED calleeAborted
  <2>1. i \notin 1 .. cursor[b] /\ 1 .. i = (1 .. cursor[b]) \cup {i}
    BY <1>1
  <2> QED BY <2>1 DEF Batch!ReceiveMember
<1>3. n \in Int /\ Cardinality(Uncollected(b)) \in Int
  BY <1>1, MissingAreFinite, FS_CardinalityType
<1> DEFINE left  == IF i = 1 THEN Batch!ResponseCount(b) ELSE remaining[b]
           nLeft == IF i = 1 THEN Batch!Cardinality(Batch!NotificationsOf(b))
                    ELSE remainingNotifications[b]
<1>4. left = Cardinality(Uncollected(b)) /\ nLeft = n
  <2>1. CASE cursor[b] = 0
    <3>1. i = 1 /\ Uncollected(b) = Batch!Replied(b) /\ Unprocessed(b) = Batch!NotificationsOf(b)
      BY <1>1, <2>1, MissingAreFinite
    <3>2. left = Batch!ResponseCount(b) /\ nLeft = Batch!Cardinality(Batch!NotificationsOf(b))
      BY <3>1
    <3> HIDE DEF left, nLeft, i
    <3> QED BY <3>1, <3>2, SameOperators DEF Batch!ResponseCount
  <2>2. CASE cursor[b] # 0
    <3>1. cursor[b] > 0 /\ i # 1
      BY <1>1, <2>2
    <3> QED BY <1>1, <3>1 DEF Accounted
  <2> QED BY <2>1, <2>2
<1>5. /\ remainingNotifications' = [remainingNotifications EXCEPT ![b] = n]
      /\ IF i \in Batch!OfKind(b, {"invalid"})
         THEN Batch!CollectResponse(b, i, Cardinality(Uncollected(b)), n)
         ELSE /\ remaining' = [remaining EXCEPT ![b] = Cardinality(Uncollected(b))]
              /\ UNCHANGED <<responses, responseSent>>
      /\ open' = IF i \in Batch!RequestsOf(b) /\ ~calleeAborted
                 THEN [open EXCEPT ![b] = @ \cup {i}] ELSE open
      /\ processing' = IF i \in Batch!NotificationsOf(b)
                       THEN [processing EXCEPT ![b] = @ \cup {i}] ELSE processing
  <2>1. /\ remainingNotifications' = [remainingNotifications EXCEPT ![b] = nLeft]
        /\ IF i \in Batch!OfKind(b, {"invalid"})
           THEN Batch!CollectResponse(b, i, left, nLeft)
           ELSE /\ remaining' = [remaining EXCEPT ![b] = left]
                /\ UNCHANGED <<responses, responseSent>>
        /\ open' = IF i \in Batch!RequestsOf(b) /\ ~calleeAborted
                   THEN [open EXCEPT ![b] = @ \cup {i}] ELSE open
        /\ processing' = IF i \in Batch!NotificationsOf(b)
                         THEN [processing EXCEPT ![b] = @ \cup {i}] ELSE processing
    BY DEF Batch!ReceiveMember
  <2> HIDE DEF left, nLeft, n, i
  <2> QED BY <1>4, <2>1
<1>6. cursor' \in [Batches -> Nat] /\ cursor'[b] = i /\ \A c \in Batches \ {b} : cursor'[c] = cursor[c]
  BY <1>1, <1>2 DEF BatchTypes
<1> HIDE DEF i, n
<1>7. /\ remainingNotifications' \in [Batches -> Int] /\ remainingNotifications'[b] = n
      /\ \A c \in Batches \ {b} : remainingNotifications'[c] = remainingNotifications[c]
  BY <1>1, <1>3, <1>5 DEF BatchTypes
<1>8. /\ open' \in [Batches -> SUBSET Nat] /\ \A c \in Batches \ {b} : open'[c] = open[c]
      /\ open'[b] = IF i \in Batch!RequestsOf(b) /\ ~calleeAborted THEN open[b] \cup {i} ELSE open[b]
  BY <1>1, <1>5 DEF BatchTypes
<1>9. /\ processing' \in [Batches -> SUBSET Nat] /\ \A c \in Batches \ {b} : processing'[c] = processing[c]
      /\ processing'[b] = IF i \in Batch!NotificationsOf(b) THEN processing[b] \cup {i} ELSE processing[b]
  BY <1>1, <1>5 DEF BatchTypes
<1>10. Unprocessed(b)' = Unprocessed(b)
  <2>1. \A j \in Batch!NotificationsOf(b) : j \in Nat /\ (j > cursor[b] <=> j > i \/ j = i)
    BY <1>1, MemberFacts DEF i
  <2>2. i \in Batch!NotificationsOf(b) => i \in Unprocessed(b) /\ i \in processing'[b]
    BY <1>9, <2>1 DEF Unprocessed
  <2>3. \A j : j \in Unprocessed(b) <=> j \in processing[b] \/ (j \in Batch!NotificationsOf(b) /\ j > cursor[b])
    BY DEF Unprocessed
  <2>4. \A j : j \in Unprocessed(b)' <=> j \in processing'[b] \/ (j \in Batch!NotificationsOf(b) /\ j > i)
    BY <1>6 DEF Unprocessed
  <2>5. \A j : j \in Unprocessed(b)' <=> j \in Unprocessed(b)
    BY <1>9, <2>1, <2>2, <2>3, <2>4
  <2> QED BY <2>5
<1>11. /\ i \in Batch!Replied(b) => i \in Uncollected(b) /\ i \notin Collected(b)
       /\ i \in Batch!NotificationsOf(b) => i \in Unprocessed(b) /\ i \notin Batch!Replied(b)
       /\ i \in Batch!Replied(b) \cup Batch!NotificationsOf(b)
  <2>1. i \notin Collected(b)
    BY <1>1, <1>2 DEF Accounted
  <2>2. i > cursor[b]
    BY <1>1 DEF i
  <2> QED BY <1>2, <2>1, <2>2, MemberFacts DEF Uncollected, Unprocessed
<1>12. i <= Len(KindsOf[b])
  BY <1>1, <1>2, MemberFacts
<1>13. ASSUME responses' \in [Batches -> Seq(Nat)], remaining' \in [Batches -> Int],
              responseSent' \in [Batches -> BOOLEAN],
              \A c \in Batches \ {b} : /\ responses'[c] = responses[c] /\ remaining'[c] = remaining[c]
                                       /\ responseSent'[c] = responseSent[c],
              Accounted(b)'
       PROVE  BatchInv'
  <2>1. BatchTypes'
    BY <1>1, <1>2, <1>6, <1>7, <1>8, <1>9, <1>13 DEF BatchTypes
  <2>2. \A c \in Batches \ {b} : Accounted(c)'
    BY <1>2, <1>6, <1>7, <1>8, <1>9, <1>13, BatchElsewhere DEF BatchInv
  <2> QED BY <1>13, <2>1, <2>2 DEF BatchInv
<1>14. CASE i \in Batch!OfKind(b, {"invalid"})
  <2>1. i \in Batch!Replied(b) /\ i \notin Batch!RequestsOf(b) /\ i \notin Batch!NotificationsOf(b)
    BY <1>14, MemberFacts
  <2>2. Batch!CollectResponse(b, i, Cardinality(Uncollected(b)), n)
    BY <1>5, <1>14
  <2>3. /\ responses' \in [Batches -> Seq(Nat)] /\ remaining' \in [Batches -> Int]
        /\ responseSent' \in [Batches -> BOOLEAN]
        /\ Collected(b)' = Collected(b) \cup {i}
        /\ Len(responses'[b]) = Cardinality(Collected(b)')
        /\ remaining'[b] = Cardinality(Uncollected(b)') /\ responses'[b] # <<>>
        /\ responseSent'[b] <=> remaining'[b] = 0 /\ n = 0
        /\ \A c \in Batches \ {b} : /\ responses'[c] = responses[c] /\ remaining'[c] = remaining[c]
                                    /\ responseSent'[c] = responseSent[c]
    BY <1>1, <1>3, <1>11, <2>1, <2>2, CollectFacts
  <2>4. open'[b] = open[b] /\ processing'[b] = processing[b]
    BY <1>8, <1>9, <2>1
  <2>5. Accounted(b)'
    <3>1. /\ open'[b] \subseteq Batch!RequestsOf(b) \cap (1 .. cursor'[b])
          /\ processing'[b] \subseteq Batch!NotificationsOf(b) \cap (1 .. cursor'[b])
          /\ Collected(b)' \subseteq (Batch!Replied(b) \cap (1 .. cursor'[b])) \ open'[b]
      BY <1>1, <1>2, <1>6, <2>1, <2>3, <2>4 DEF Accounted
    <3>2. cursor'[b] > 0 /\ cursor'[b] <= Len(KindsOf[b])
      BY <1>1, <1>6, <1>12 DEF i
    <3>3. ~calleeAborted => Batch!Replied(b) \cap (1 .. cursor'[b]) = open'[b] \cup Collected(b)'
      BY <1>1, <1>2, <1>6, <2>1, <2>3, <2>4 DEF Accounted
    <3>4. remainingNotifications'[b] = Cardinality(Unprocessed(b)') /\ remainingNotifications'[b] = n
      BY <1>7, <1>10 DEF n
    <3> QED BY <1>2, <2>3, <3>1, <3>2, <3>3, <3>4 DEF Accounted
  <2> QED BY <1>13, <2>3, <2>5
<1>15. CASE i \notin Batch!OfKind(b, {"invalid"})
  <2>1. /\ remaining' = [remaining EXCEPT ![b] = Cardinality(Uncollected(b))]
        /\ UNCHANGED <<responses, responseSent>>
    BY <1>5, <1>15
  <2>2. /\ remaining' \in [Batches -> Int] /\ remaining'[b] = Cardinality(Uncollected(b))
        /\ \A c \in Batches \ {b} : remaining'[c] = remaining[c]
    BY <1>1, <1>3, <2>1 DEF BatchTypes
  <2>3. Collected(b)' = Collected(b) /\ Uncollected(b)' = Uncollected(b)
    BY <2>1 DEF Collected, Uncollected
  <2>4. i \in Batch!RequestsOf(b) \/ i \in Batch!NotificationsOf(b)
    BY <1>11, <1>15, MemberFacts
  <2>5. ~responseSent[b] /\ ~(remaining'[b] = 0 /\ n = 0)
    <3>1. Uncollected(b) # {} \/ Unprocessed(b) # {}
      BY <1>11
    <3>2. Cardinality(Uncollected(b)) # 0 \/ Cardinality(Unprocessed(b)) # 0
      BY <1>1, <3>1, MissingAreFinite, FS_EmptySet
    <3> QED BY <1>1, <2>2, <3>1, <3>2, NotSentYet DEF n
  <2>6. Accounted(b)'
    <3>1. /\ open'[b] \subseteq Batch!RequestsOf(b) \cap (1 .. cursor'[b])
          /\ processing'[b] \subseteq Batch!NotificationsOf(b) \cap (1 .. cursor'[b])
      BY <1>1, <1>2, <1>6, <1>8, <1>9 DEF Accounted
    <3>2. Collected(b)' \subseteq (Batch!Replied(b) \cap (1 .. cursor'[b])) \ open'[b]
      <4>1. Collected(b) \subseteq (Batch!Replied(b) \cap (1 .. cursor[b])) \ open[b]
        BY <1>1 DEF Accounted
      <4> QED BY <1>2, <1>6, <1>8, <2>3, <4>1
    <3>3. Len(responses'[b]) = Cardinality(Collected(b)')
      BY <1>1, <2>1, <2>3 DEF Accounted
    <3>4. cursor'[b] > 0 /\ cursor'[b] <= Len(KindsOf[b])
      BY <1>1, <1>6, <1>12 DEF i
    <3>5. ~calleeAborted => Batch!Replied(b) \cap (1 .. cursor'[b]) = open'[b] \cup Collected(b)'
      <4>1. ~calleeAborted => Batch!Replied(b) \cap (1 .. cursor[b]) = open[b] \cup Collected(b)
        BY <1>1 DEF Accounted
      <4>2. CASE i \in Batch!RequestsOf(b)
        BY <1>2, <1>6, <1>8, <2>3, <4>1, <4>2, MemberFacts
      <4>3. CASE i \in Batch!NotificationsOf(b)
        <5>1. i \notin Batch!Replied(b) /\ i \notin Batch!RequestsOf(b)
          BY <4>3, MemberFacts
        <5> QED BY <1>2, <1>6, <1>8, <2>3, <4>1, <5>1
      <4> QED BY <2>4, <4>2, <4>3
    <3>6. remaining'[b] = Cardinality(Uncollected(b)')
          /\ remainingNotifications'[b] = Cardinality(Unprocessed(b)') /\ remainingNotifications'[b] = n
      BY <1>7, <1>10, <2>2, <2>3 DEF n
    <3>7. ~responseSent'[b]
      BY <2>1, <2>5
    <3> QED BY <1>2, <2>5, <3>1, <3>2, <3>3, <3>4, <3>5, <3>6, <3>7 DEF Accounted
  <2>7. responses' \in [Batches -> Seq(Nat)] /\ responseSent' \in [Batches -> BOOLEAN]
    BY <1>1, <2>1 DEF BatchTypes
  <2> QED BY <1>13, <2>1, <2>2, <2>6, <2>7
<1> QED BY <1>14, <1>15

LEMMA ResponseIsAccounted ==
    ASSUME Batch!KindsAreSequences, BatchInv, NEW b \in Batches, NEW i \in Batch!RequestsOf(b),
           NEW r \in Batch!Results, Batch!Respond(b, i, r)
    PROVE  BatchInv'
<1>1. BatchTypes /\ Accounted(b)
  BY DEF BatchInv
<1>2. /\ i \in open[b] /\ open' = [open EXCEPT ![b] = @ \ {i}]
      /\ Batch!CollectResponse(b, i, remaining[b], remainingNotifications[b])
      /\ UNCHANGED <<calleeAborted, cursor, remainingNotifications, processing>>
  BY DEF Batch!Respond
<1>3. /\ i \in Batch!Replied(b) /\ i \in 1 .. cursor[b] /\ i \notin Collected(b)
      /\ i \in Uncollected(b)
  BY <1>1, <1>2, MemberFacts DEF Accounted, Uncollected
<1>4. cursor[b] \in Nat /\ cursor[b] > 0
  BY <1>1, <1>3 DEF BatchTypes
<1>5. /\ remaining[b] = Cardinality(Uncollected(b))
      /\ remainingNotifications[b] = Cardinality(Unprocessed(b))
      /\ remainingNotifications[b] \in Int
  BY <1>1, <1>4 DEF Accounted, BatchTypes
<1>6. /\ responses' \in [Batches -> Seq(Nat)] /\ remaining' \in [Batches -> Int]
      /\ responseSent' \in [Batches -> BOOLEAN]
      /\ Collected(b)' = Collected(b) \cup {i}
      /\ Len(responses'[b]) = Cardinality(Collected(b)')
      /\ remaining'[b] = Cardinality(Uncollected(b)') /\ responses'[b] # <<>>
      /\ responseSent'[b] <=> remaining'[b] = 0 /\ remainingNotifications[b] = 0
      /\ \A c \in Batches \ {b} : /\ responses'[c] = responses[c] /\ remaining'[c] = remaining[c]
                                  /\ responseSent'[c] = responseSent[c]
  BY <1>1, <1>2, <1>3, <1>5, CollectFacts
<1>7. /\ open' \in [Batches -> SUBSET Nat] /\ open'[b] = open[b] \ {i}
      /\ \A c \in Batches \ {b} : open'[c] = open[c]
  BY <1>1, <1>2 DEF BatchTypes
<1>8. Unprocessed(b)' = Unprocessed(b)
  BY <1>2 DEF Unprocessed
<1>9. Accounted(b)'
  <2>1. /\ open'[b] \subseteq Batch!RequestsOf(b) \cap (1 .. cursor'[b])
        /\ processing'[b] \subseteq Batch!NotificationsOf(b) \cap (1 .. cursor'[b])
        /\ Collected(b)' \subseteq (Batch!Replied(b) \cap (1 .. cursor'[b])) \ open'[b]
    BY <1>1, <1>2, <1>3, <1>6, <1>7 DEF Accounted
  <2>2. ~calleeAborted => Batch!Replied(b) \cap (1 .. cursor'[b]) = open'[b] \cup Collected(b)'
    BY <1>1, <1>2, <1>3, <1>6, <1>7 DEF Accounted
  <2>3. cursor'[b] <= Len(KindsOf[b]) /\ cursor'[b] > 0
    BY <1>1, <1>2, <1>4 DEF Accounted
  <2>4. remainingNotifications'[b] = Cardinality(Unprocessed(b)')
    BY <1>2, <1>5, <1>8
  <2> QED BY <1>2, <1>6, <2>1, <2>2, <2>3, <2>4 DEF Accounted
<1>10. BatchTypes'
  BY <1>1, <1>2, <1>6, <1>7 DEF BatchTypes
<1>11. \A c \in Batches \ {b} : Accounted(c)'
  BY <1>2, <1>6, <1>7, BatchElsewhere DEF BatchInv
<1> QED BY <1>9, <1>10, <1>11 DEF BatchInv

LEMMA NotificationIsAccounted ==
    ASSUME Batch!KindsAreSequences, BatchInv, NEW b \in Batches, NEW i \in Batch!NotificationsOf(b),
           Batch!NotificationProcessed(b, i)
    PROVE  BatchInv'
<1>1. BatchTypes /\ Accounted(b)
  BY DEF BatchInv
<1>2. /\ i \in processing[b] /\ processing' = [processing EXCEPT ![b] = @ \ {i}]
      /\ remainingNotifications' = [remainingNotifications EXCEPT ![b] = @ - 1]
      /\ Batch!SendResponsesIfReady(b, responses[b], remaining[b], remainingNotifications[b] - 1)
      /\ UNCHANGED <<remaining, responses, calleeAborted, cursor, open>>
  BY DEF Batch!NotificationProcessed
<1>3. i \in 1 .. cursor[b] /\ cursor[b] \in Nat /\ cursor[b] > 0 /\ ~(i > cursor[b])
  <2>1. i \in 1 .. cursor[b] /\ cursor[b] \in Nat
    BY <1>1, <1>2 DEF BatchTypes, Accounted
  <2> QED BY <2>1
<1>4. /\ remaining[b] = Cardinality(Uncollected(b)) /\ remaining[b] \in Int
      /\ remainingNotifications[b] = Cardinality(Unprocessed(b))
      /\ remainingNotifications[b] \in Int
  BY <1>1, <1>3 DEF Accounted, BatchTypes
<1>5. /\ processing' \in [Batches -> SUBSET Nat] /\ processing'[b] = processing[b] \ {i}
      /\ \A c \in Batches \ {b} : processing'[c] = processing[c]
  BY <1>1, <1>2 DEF BatchTypes
<1>6. /\ remainingNotifications' \in [Batches -> Int]
      /\ remainingNotifications'[b] = remainingNotifications[b] - 1
      /\ \A c \in Batches \ {b} : remainingNotifications'[c] = remainingNotifications[c]
  BY <1>1, <1>2 DEF BatchTypes
<1>7. i \in Unprocessed(b) /\ Unprocessed(b)' = Unprocessed(b) \ {i}
  BY <1>2, <1>3, <1>5 DEF Unprocessed
<1>8. remainingNotifications'[b] = Cardinality(Unprocessed(b)')
  BY <1>1, <1>4, <1>6, <1>7, MissingAreFinite, FS_RemoveElement
<1>9. Collected(b)' = Collected(b) /\ Uncollected(b)' = Uncollected(b)
  BY <1>2 DEF Collected, Uncollected
<1>10. ~responseSent[b]
  BY <1>1, <1>7, NotSentYet
<1>11. /\ responseSent' \in [Batches -> BOOLEAN]
       /\ \A c \in Batches \ {b} : responseSent'[c] = responseSent[c]
       /\ responseSent'[b] <=> /\ remaining[b] = 0 /\ remainingNotifications'[b] = 0
                               /\ responses[b] # <<>>
  <2>1. CASE Batch!ReplyReady(b, responses[b], remaining[b], remainingNotifications[b] - 1)
    <3>1. responseSent' = [responseSent EXCEPT ![b] = TRUE]
      BY <1>2, <2>1 DEF Batch!SendResponsesIfReady
    <3> QED BY <1>1, <1>6, <2>1, <3>1 DEF BatchTypes, Batch!ReplyReady
  <2>2. CASE ~Batch!ReplyReady(b, responses[b], remaining[b], remainingNotifications[b] - 1)
    <3>1. responseSent' = responseSent
      BY <1>2, <2>2 DEF Batch!SendResponsesIfReady
    <3> QED BY <1>1, <1>6, <1>10, <2>2, <3>1 DEF BatchTypes, Batch!ReplyReady
  <2> QED BY <2>1, <2>2
<1>12. Accounted(b)'
  <2>1. /\ open'[b] \subseteq Batch!RequestsOf(b) \cap (1 .. cursor'[b])
        /\ processing'[b] \subseteq Batch!NotificationsOf(b) \cap (1 .. cursor'[b])
        /\ Collected(b)' \subseteq (Batch!Replied(b) \cap (1 .. cursor'[b])) \ open'[b]
        /\ Len(responses'[b]) = Cardinality(Collected(b)')
        /\ cursor'[b] <= Len(KindsOf[b])
    BY <1>1, <1>2, <1>5, <1>9 DEF Accounted
  <2>2. ~calleeAborted => Batch!Replied(b) \cap (1 .. cursor'[b]) = open'[b] \cup Collected(b)'
    BY <1>1, <1>2, <1>9 DEF Accounted
  <2>3. cursor'[b] > 0 /\ remaining'[b] = Cardinality(Uncollected(b)')
    BY <1>2, <1>3, <1>4, <1>9
  <2> QED BY <1>2, <1>8, <1>11, <2>1, <2>2, <2>3 DEF Accounted
<1>13. BatchTypes'
  BY <1>1, <1>2, <1>5, <1>6, <1>11 DEF BatchTypes
<1>14. \A c \in Batches \ {b} : Accounted(c)'
  BY <1>2, <1>5, <1>6, <1>11, BatchElsewhere DEF BatchInv
<1> QED BY <1>12, <1>13, <1>14 DEF BatchInv

LEMMA BatchStep ==
    ASSUME Batch!KindsAreSequences, BatchInv, [Batch!Next]_(Batch!vars)
    PROVE  BatchInv'
<1>1. ASSUME UNCHANGED <<cursor, remaining, remainingNotifications, responses, responseSent,
                        open, processing>>,
             calleeAborted => calleeAborted', calleeAborted' \in BOOLEAN
      PROVE  BatchInv'
  <2>1. BatchTypes'
    BY <1>1 DEF BatchInv, BatchTypes
  <2>2. \A b \in Batches : Accounted(b)'
    BY <1>1, BatchElsewhere DEF BatchInv
  <2> QED BY <2>1, <2>2 DEF BatchInv
<1>2. calleeAborted \in BOOLEAN
  BY DEF BatchInv, BatchTypes
<1> USE DEF Batch!callerVars, Batch!collectVars, Batch!calleeVars
<1>3. ASSUME NEW b \in Batches, Batch!SendBatch(b) PROVE BatchInv'
  BY <1>1, <1>2, <1>3 DEF Batch!SendBatch
<1>4. ASSUME NEW b \in Batches, Batch!ReceiveReply(b) PROVE BatchInv'
  BY <1>1, <1>2, <1>4 DEF Batch!ReceiveReply
<1>5. ASSUME NEW b \in Batches, Batch!LandReply(b) PROVE BatchInv'
  BY <1>1, <1>2, <1>5 DEF Batch!LandReply
<1>6. CASE Batch!CloseCaller
  BY <1>1, <1>2, <1>6 DEF Batch!CloseCaller
<1>7. CASE Batch!CloseCallee
  BY <1>1, <1>7 DEF Batch!CloseCallee
<1>8. CASE UNCHANGED Batch!vars
  BY <1>1, <1>2, <1>8 DEF Batch!vars
<1> QED BY <1>3, <1>4, <1>5, <1>6, <1>7, <1>8, MemberIsAccounted, ResponseIsAccounted,
           NotificationIsAccounted DEF Batch!Next

LEMMA BatchInitially ==
    ASSUME Batch!KindsAreSequences, Batch!Init
    PROVE  BatchInv
<1>1. ASSUME NEW b \in Batches
      PROVE  /\ cursor[b] = 0 /\ responses[b] = <<>> /\ ~responseSent[b]
             /\ open[b] = {} /\ processing[b] = {} /\ remaining[b] = 0
  BY DEF Batch!Init
<1>2. BatchTypes
  <2>1. <<>> \in Seq(Nat)
    BY EmptySeq
  <2>2. calleeAborted \in BOOLEAN /\ cursor \in [Batches -> Nat]
    BY DEF Batch!Init
  <2>7. remaining \in [Batches -> Int]
    BY DEF Batch!Init
  <2>8. remainingNotifications \in [Batches -> Int]
    BY DEF Batch!Init
  <2>3. responses \in [Batches -> Seq(Nat)]
    BY <2>1 DEF Batch!Init
  <2>4. responseSent \in [Batches -> BOOLEAN]
    BY DEF Batch!Init
  <2>5. open \in [Batches -> SUBSET Nat]
    BY DEF Batch!Init
  <2>6. processing \in [Batches -> SUBSET Nat]
    BY DEF Batch!Init
  <2> QED BY <2>2, <2>3, <2>4, <2>5, <2>6, <2>7, <2>8 DEF BatchTypes
<1>3. ASSUME NEW b \in Batches PROVE Accounted(b)
  <2>1. Collected(b) = {}
    BY <1>1 DEF Collected, Range
  <2>2. Len(responses[b]) = Cardinality(Collected(b))
    BY <1>1, <2>1, FS_EmptySet, EmptySeq
  <2>3. 1 .. cursor[b] = {} /\ cursor[b] <= Len(KindsOf[b]) /\ ~(cursor[b] > 0)
    BY <1>1, MemberFacts
  <2> QED BY <1>1, <2>1, <2>2, <2>3 DEF Accounted
<1> QED BY <1>2, <1>3 DEF BatchInv

(* What is accounted for says when a reply is sent.                        *)
LEMMA AccountedReplies ==
    ASSUME Batch!KindsAreSequences, BatchInv
    PROVE  Batch!RepliedWhenComplete
<1>1. ASSUME NEW b \in Batches, responseSent[b]
      PROVE  /\ Batch!Replied(b) # {} /\ Range(responses[b]) = Batch!Replied(b)
             /\ Len(responses[b]) = Cardinality(Batch!Replied(b))
             /\ processing[b] = {} /\ cursor[b] = Len(KindsOf[b])
  <2>1. BatchTypes /\ Accounted(b) /\ cursor[b] \in Nat
    BY DEF BatchInv, BatchTypes
  <2>2. Uncollected(b) = {} /\ Unprocessed(b) = {}
    BY <1>1, <2>1, NotSentYet
  <2>3. Collected(b) = Batch!Replied(b) /\ processing[b] = {}
    BY <2>1, <2>2 DEF Accounted, Uncollected, Unprocessed
  <2>4. Batch!Replied(b) # {}
    <3>1. responses[b] # <<>> /\ responses[b] \in Seq(Nat)
      BY <1>1, <2>1 DEF Accounted, BatchTypes
    <3>2. Head(responses[b]) \in Range(responses[b])
      BY <3>1, HeadAndTail
    <3> QED BY <2>3, <3>2 DEF Collected
  <2>5. cursor[b] = Len(KindsOf[b])
    <3>1. Len(KindsOf[b]) \in Nat \ {0} /\ Len(KindsOf[b]) \in Batch!Members(b)
      BY MemberFacts
    <3>2. CASE Len(KindsOf[b]) \in Batch!Replied(b)
      <4>1. Len(KindsOf[b]) \in 1 .. cursor[b]
        BY <2>1, <2>3, <3>2 DEF Accounted
      <4> QED BY <2>1, <3>1, <4>1 DEF Accounted
    <3>3. CASE Len(KindsOf[b]) \in Batch!NotificationsOf(b)
      <4>1. ~(Len(KindsOf[b]) > cursor[b])
        BY <2>2, <3>3 DEF Unprocessed
      <4> QED BY <2>1, <3>1, <4>1 DEF Accounted
    <3> QED BY <3>1, <3>2, <3>3, MemberFacts
  <2>6. Len(responses[b]) = Cardinality(Batch!Replied(b))
    BY <2>1, <2>3 DEF Accounted
  <2> QED BY <2>3, <2>4, <2>5, <2>6 DEF Collected
<1>2. ASSUME NEW b \in Batches, ~calleeAborted, cursor[b] = Len(KindsOf[b]),
             open[b] = {}, processing[b] = {}, Batch!Replied(b) # {}
      PROVE  responseSent[b]
  <2>1. Accounted(b) /\ responses[b] \in Seq(Nat)
    BY DEF BatchInv, BatchTypes
  <2>2. Batch!Members(b) = 1 .. cursor[b] /\ cursor[b] > 0
    BY <1>2, MemberFacts
  <2>3. Collected(b) = Batch!Replied(b)
    BY <1>2, <2>1, <2>2, MemberFacts DEF Accounted
  <2>4. Uncollected(b) = {} /\ Unprocessed(b) = {}
    <3>1. \A i \in Batch!Members(b) : ~(i > cursor[b])
      BY <1>2, <2>2, MemberFacts
    <3> QED BY <1>2, <2>3, <3>1, MemberFacts DEF Uncollected, Unprocessed
  <2>5. remaining[b] = 0 /\ remainingNotifications[b] = 0
    BY <2>1, <2>2, <2>4, FS_EmptySet DEF Accounted
  <2>6. responses[b] # <<>>
    <3>1. Range(<<>>) = {}
      BY DEF Range
    <3> QED BY <1>2, <2>3, <3>1 DEF Collected
  <2> QED BY <2>1, <2>2, <2>5, <2>6 DEF Accounted
<1>3. ASSUME NEW b \in Batches
      PROVE  /\ responseSent[b] =>
                 /\ Batch!Replied(b) # {}
                 /\ Batch!Range(responses[b]) = Batch!Replied(b)
                 /\ Len(responses[b]) = Batch!Cardinality(Batch!Replied(b))
                 /\ processing[b] = {}
                 /\ cursor[b] = Len(KindsOf[b])
             /\ ~calleeAborted /\ (cursor[b] = Len(KindsOf[b]) /\ open[b] = {} /\ processing[b] = {})
                 /\ Batch!Replied(b) # {} => responseSent[b]
  BY <1>1, <1>2, <1>3, SameOperators
<1> QED BY <1>3 DEF Batch!RepliedWhenComplete

(* Whatever the batches hold and in whichever order their members are done *)
(* with, the callee replies to each once, when it is complete.             *)
THEOREM BatchesReplied == Batch!Spec => []RepliedWhenComplete
<1>1. Batch!Init => BatchInv
  BY BatchInitially, MembersAssumption
<1>2. BatchInv /\ [Batch!Next]_(Batch!vars) => BatchInv'
  BY BatchStep, MembersAssumption
<1>3. BatchInv => RepliedWhenComplete
  BY AccountedReplies, MembersAssumption DEF RepliedWhenComplete
<1> QED BY <1>1, <1>2, <1>3, PTL DEF Batch!Spec

(* So it does where nothing but batches arrives.                           *)
THEOREM BatchesAlone == BatchesSpec => []RepliedWhenComplete
<1>1. [BatchNext]_<<vars, batchVars>> => [Batch!Next]_(Batch!vars)
  BY Zenon DEF BatchNext, batchVars, Batch!vars, Batch!callerVars, Batch!collectVars, Batch!calleeVars
<1>2. BatchesSpec => Batch!Spec
  BY <1>1, PTL DEF BatchesSpec, Batch!Spec
<1> QED BY <1>2, BatchesReplied, PTL

-----------------------------------------------------------------------------
(* The caller of a batch, and the way of the reply to it.                  *)

CallerTypes ==
    /\ sent \in Seq(Batches)
    /\ callerAborted \in BOOLEAN
    /\ DOMAIN promise = Batches /\ DOMAIN answer = Batches
    /\ \A b \in Batches :
        /\ promise[b] \in
              [Batch!RequestsOf(b) -> {"none", "pending", "closed"} \cup Batch!Results]
        /\ answer[b] \in [Batch!RequestsOf(b) -> {"none"} \cup Batch!Results]
    /\ reply \in [Batches -> {"none", "sending", "landed", "received", "lost"}]

(* Who has answered a request has handed in its response; a reply is on    *)
(* its way once it was sent; and a promise has the answer of the callee,   *)
(* which came with the reply.                                              *)
ReplyFits(b) ==
    /\ cursor[b] > 0 => b \in Range(sent)
    /\ reply[b] # "none" <=> responseSent[b]
    /\ reply[b] = "lost" => calleeAborted
    /\ \A i \in Batch!RequestsOf(b) :
        /\ answer[b][i] \in Batch!Results <=> i \in Collected(b)
        /\ promise[b][i] \in Batch!Results =>
              reply[b] = "received" /\ promise[b][i] = answer[b][i]
        /\ promise[b][i] = "none" => b \notin Range(sent)
        /\ promise[b][i] = "closed" => callerAborted
        /\ promise[b][i] = "pending" => reply[b] # "received"

ReplyInv == CallerTypes /\ \A b \in Batches : ReplyFits(b)

(* A caller learns what the callee answered, and nothing else.  When all   *)
(* its requests are answered, and neither connection is closed, it has     *)
(* learned it, or the reply is under way, or a notification of the batch   *)
(* is still being processed.                                               *)
BatchCanReturn ==
    \A b \in Batches :
        /\ \A i \in Batch!RequestsOf(b) :
              promise[b][i] \in Batch!Results => promise[b][i] = answer[b][i]
        /\ /\ cursor[b] = Len(KindsOf[b]) /\ open[b] = {} /\ Batch!RequestsOf(b) # {}
           /\ ~callerAborted /\ ~calleeAborted
           => \/ processing[b] # {}
              \/ reply[b] \in {"sending", "landed"}
              \/ \A i \in Batch!RequestsOf(b) :
                    promise[b][i] = answer[b][i] /\ answer[b][i] \in Batch!Results

(* A batch whose state is as before, but that its callee may have closed.  *)
LEMMA ReplyElsewhere ==
    ASSUME NEW b \in Batches, ReplyFits(b), calleeAborted => calleeAborted',
           callerAborted => callerAborted', b \in Range(sent)' <=> b \in Range(sent),
           cursor'[b] = cursor[b], reply'[b] = reply[b], responseSent'[b] = responseSent[b],
           responses'[b] = responses[b], answer'[b] = answer[b], promise'[b] = promise[b]
    PROVE  ReplyFits(b)'
<1>1. Collected(b)' = Collected(b)
  BY DEF Collected
<1> QED BY <1>1 DEF ReplyFits

(* A reply that was sent has all the responses, so no responder is open.   *)
LEMMA SentRepliesAreWhole ==
    ASSUME Batch!KindsAreSequences, BatchInv, NEW b \in Batches, responseSent[b]
    PROVE  open[b] = {} /\ Batch!RequestsOf(b) \subseteq Collected(b) /\ cursor[b] > 0
<1>1. Accounted(b)
  BY DEF BatchInv
<1>2. Batch!Range(responses[b]) = Batch!Replied(b)
  BY AccountedReplies DEF Batch!RepliedWhenComplete
<1>3. Collected(b) = Batch!Replied(b)
  BY <1>2, SameOperators DEF Collected
<1>4. Batch!RequestsOf(b) \subseteq Batch!Replied(b)
  BY MemberFacts
<1> QED BY <1>1, <1>3, <1>4 DEF Accounted

(* sendResponsesIfReady begins a reply, once. *)
LEMMA SendingFacts ==
    ASSUME BatchTypes, CallerTypes, NEW b \in Batches, ReplyFits(b), NEW c, NEW l, NEW n,
           Batch!SendResponsesIfReady(b, c, l, n)
    PROVE  /\ reply' \in [Batches -> {"none", "sending", "landed", "received", "lost"}]
           /\ \A d \in Batches \ {b} : reply'[d] = reply[d] /\ responseSent'[d] = responseSent[d]
           /\ reply'[b] # "none" <=> responseSent'[b]
           /\ reply'[b] = "lost" => calleeAborted
           /\ reply'[b] = "received" <=> reply[b] = "received"
<1>1. CASE Batch!ReplyReady(b, c, l, n)
  <2>1. /\ responseSent' = [responseSent EXCEPT ![b] = TRUE]
        /\ reply' = [reply EXCEPT ![b] = IF calleeAborted THEN "lost" ELSE "sending"]
    BY <1>1 DEF Batch!SendResponsesIfReady
  <2>2. ~responseSent[b]
    BY <1>1 DEF Batch!ReplyReady
  <2>3. reply[b] = "none"
    BY <2>2 DEF ReplyFits
  <2>4. reply' \in [Batches -> {"none", "sending", "landed", "received", "lost"}]
    BY <2>1 DEF CallerTypes
  <2>5. \A d \in Batches \ {b} : reply'[d] = reply[d] /\ responseSent'[d] = responseSent[d]
    BY <2>1 DEF CallerTypes, BatchTypes
  <2>6. responseSent'[b] /\ reply'[b] = IF calleeAborted THEN "lost" ELSE "sending"
    BY <2>1 DEF CallerTypes, BatchTypes
  <2> QED BY <2>3, <2>4, <2>5, <2>6
<1>2. CASE ~Batch!ReplyReady(b, c, l, n)
  <2>1. UNCHANGED <<responseSent, reply>>
    BY <1>2 DEF Batch!SendResponsesIfReady
  <2> QED BY <2>1 DEF ReplyFits, CallerTypes
<1> QED BY <1>1, <1>2

LEMMA SendBatchKeepsReplies ==
    ASSUME Batch!KindsAreSequences, BatchInv, ReplyInv, NEW b \in Batches, Batch!SendBatch(b)
    PROVE  ReplyInv'
<1>1. /\ ~callerAborted /\ b \notin Range(sent) /\ sent' = Append(sent, b)
      /\ promise' = [promise EXCEPT ![b] = [i \in Batch!RequestsOf(b) |-> "pending"]]
      /\ UNCHANGED <<callerAborted, reply, responseSent, responses, cursor, answer, calleeAborted>>
  BY SameOperators DEF Batch!SendBatch, Batch!collectVars, Batch!calleeVars
<1>2. sent' \in Seq(Batches) /\ Range(sent') = Range(sent) \cup {b}
  BY <1>1, Appending DEF ReplyInv, CallerTypes
<1>3. /\ DOMAIN promise' = Batches /\ promise'[b] = [i \in Batch!RequestsOf(b) |-> "pending"]
      /\ \A c \in Batches \ {b} : promise'[c] = promise[c]
  BY <1>1 DEF ReplyInv, CallerTypes
<1>4. CallerTypes'
  <2>1. \A c \in Batches :
           promise'[c] \in [Batch!RequestsOf(c) -> {"none", "pending", "closed"} \cup Batch!Results]
    BY <1>3 DEF ReplyInv, CallerTypes
  <2> QED BY <1>1, <1>2, <1>3, <2>1 DEF ReplyInv, CallerTypes
<1>5. ASSUME NEW c \in Batches \ {b} PROVE ReplyFits(c)'
  <2>1. c \in Range(sent)' <=> c \in Range(sent)
    BY <1>2
  <2> QED BY <1>1, <1>3, <2>1, ReplyElsewhere DEF ReplyInv
<1>6. ReplyFits(b)'
  <2>1. ReplyFits(b)
    BY DEF ReplyInv
  <2>2. ~responseSent[b]
    BY <1>1, <2>1, SentRepliesAreWhole DEF ReplyFits
  <2>3. reply'[b] = "none" /\ Collected(b)' = Collected(b) /\ b \in Range(sent)'
    BY <1>1, <1>2, <2>1, <2>2 DEF ReplyFits, Collected
  <2>4. \A i \in Batch!RequestsOf(b) : promise'[b][i] = "pending"
    BY <1>3
  <2> QED BY <1>1, <2>1, <2>2, <2>3, <2>4 DEF ReplyFits, Batch!Results
<1> QED BY <1>4, <1>5, <1>6 DEF ReplyInv

LEMMA ReceiveReplyKeepsReplies ==
    ASSUME Batch!KindsAreSequences, BatchInv, ReplyInv, NEW b \in Batches, Batch!ReceiveReply(b)
    PROVE  ReplyInv'
<1>1. /\ ~callerAborted /\ reply[b] = "landed"
      /\ reply' = [reply EXCEPT ![b] = "received"]
      /\ UNCHANGED <<callerAborted, sent, responseSent, responses, cursor, answer, calleeAborted>>
  BY DEF Batch!ReceiveReply, Batch!calleeVars
<1>2. ReplyFits(b) /\ CallerTypes
  BY DEF ReplyInv
<1>3. responseSent[b]
  BY <1>1, <1>2 DEF ReplyFits
<1>4. Batch!RequestsOf(b) \subseteq Collected(b) /\ cursor[b] > 0
  BY <1>3, SentRepliesAreWhole
<1>5. promise' = [promise EXCEPT ![b] =
          [i \in Batch!RequestsOf(b) |->
              IF promise[b][i] = "pending" /\ i \in Collected(b)
              THEN answer[b][i] ELSE promise[b][i]]]
  <2>1. Batch!SettledByReply(b) = Collected(b)
    BY SameOperators DEF Batch!SettledByReply, Collected
  <2> QED BY <2>1 DEF Batch!ReceiveReply
<1>6. /\ DOMAIN promise' = Batches
      /\ \A c \in Batches \ {b} : promise'[c] = promise[c]
      /\ promise'[b] = [i \in Batch!RequestsOf(b) |->
              IF promise[b][i] = "pending" /\ i \in Collected(b)
              THEN answer[b][i] ELSE promise[b][i]]
  BY <1>2, <1>5 DEF CallerTypes
<1>7. ASSUME NEW i \in Batch!RequestsOf(b)
      PROVE  promise'[b][i] = answer[b][i] /\ answer[b][i] \in Batch!Results
  <2>1. promise[b][i] \in {"none", "pending", "closed"} \cup Batch!Results
    BY <1>2 DEF CallerTypes
  <2>2. i \in Collected(b) /\ answer[b][i] \in Batch!Results
    BY <1>2, <1>4 DEF ReplyFits
  <2>3. promise[b][i] = "pending"
    BY <1>1, <1>2, <1>4, <2>1 DEF ReplyFits
  <2> QED BY <1>6, <2>2, <2>3
<1>8. reply'[b] = "received" /\ \A c \in Batches \ {b} : reply'[c] = reply[c]
  BY <1>1, <1>2 DEF CallerTypes
<1>9. CallerTypes'
  <2>1. \A c \in Batches :
           promise'[c] \in [Batch!RequestsOf(c) -> {"none", "pending", "closed"} \cup Batch!Results]
    BY <1>2, <1>6, <1>7 DEF CallerTypes
  <2>2. reply' \in [Batches -> {"none", "sending", "landed", "received", "lost"}]
    BY <1>1, <1>2 DEF CallerTypes
  <2> QED BY <1>1, <1>2, <1>6, <2>1, <2>2 DEF CallerTypes
<1>10. ASSUME NEW c \in Batches \ {b} PROVE ReplyFits(c)'
  BY <1>1, <1>6, <1>8, ReplyElsewhere DEF ReplyInv
<1>11. ReplyFits(b)'
  <2>1. Collected(b)' = Collected(b) /\ Range(sent)' = Range(sent)
    BY <1>1 DEF Collected
  <2>2. \A i \in Batch!RequestsOf(b) : promise'[b][i] \notin {"none", "pending", "closed"}
    BY <1>7 DEF Batch!Results
  <2> QED BY <1>1, <1>2, <1>3, <1>7, <1>8, <2>1, <2>2 DEF ReplyFits
<1> QED BY <1>9, <1>10, <1>11 DEF ReplyInv

LEMMA CloseCallerKeepsReplies ==
    ASSUME ReplyInv, Batch!CloseCaller PROVE ReplyInv'
<1>1. /\ callerAborted' = TRUE
      /\ promise' = [b \in Batches |-> [i \in Batch!RequestsOf(b) |->
             IF promise[b][i] = "pending" THEN "closed" ELSE promise[b][i]]]
      /\ UNCHANGED <<sent, reply, responseSent, responses, cursor, answer, calleeAborted>>
  BY DEF Batch!CloseCaller, Batch!collectVars, Batch!calleeVars
<1>2. ASSUME NEW b \in Batches
      PROVE  /\ promise'[b] \in
                   [Batch!RequestsOf(b) -> {"none", "pending", "closed"} \cup Batch!Results]
             /\ ReplyFits(b)'
  <2>1. ReplyFits(b) /\ Collected(b)' = Collected(b) /\ Range(sent)' = Range(sent)
    BY <1>1 DEF ReplyInv, Collected
  <2>2. promise'[b] = [i \in Batch!RequestsOf(b) |->
             IF promise[b][i] = "pending" THEN "closed" ELSE promise[b][i]]
    BY <1>1
  <2>3. promise[b] \in [Batch!RequestsOf(b) -> {"none", "pending", "closed"} \cup Batch!Results]
    BY DEF ReplyInv, CallerTypes
  <2>4. promise'[b] \in [Batch!RequestsOf(b) -> {"none", "pending", "closed"} \cup Batch!Results]
    BY <2>2, <2>3
  <2>5. "closed" \notin Batch!Results
    BY DEF Batch!Results
  <2>6. \A i \in Batch!RequestsOf(b) :
           promise'[b][i] = IF promise[b][i] = "pending" THEN "closed" ELSE promise[b][i]
    BY <2>2
  <2> QED BY <1>1, <2>1, <2>4, <2>5, <2>6 DEF ReplyFits
<1>3. CallerTypes'
  BY <1>1, <1>2 DEF ReplyInv, CallerTypes
<1> QED BY <1>2, <1>3 DEF ReplyInv

LEMMA LandReplyKeepsReplies ==
    ASSUME ReplyInv, NEW b \in Batches, Batch!LandReply(b) PROVE ReplyInv'
<1>1. /\ reply[b] = "sending"
      /\ reply' = [reply EXCEPT ![b] = IF calleeAborted THEN "lost" ELSE "landed"]
      /\ UNCHANGED <<callerAborted, sent, promise, responseSent, responses, cursor, answer,
                     calleeAborted>>
  BY DEF Batch!LandReply, Batch!callerVars, Batch!calleeVars
<1>2. /\ reply' \in [Batches -> {"none", "sending", "landed", "received", "lost"}]
      /\ reply'[b] = IF calleeAborted THEN "lost" ELSE "landed"
      /\ \A c \in Batches \ {b} : reply'[c] = reply[c]
  BY <1>1 DEF ReplyInv, CallerTypes
<1>3. CallerTypes'
  BY <1>1, <1>2 DEF ReplyInv, CallerTypes
<1>4. ASSUME NEW c \in Batches \ {b} PROVE ReplyFits(c)'
  BY <1>1, <1>2, ReplyElsewhere DEF ReplyInv
<1>5. ReplyFits(b)'
  <2>1. ReplyFits(b) /\ Collected(b)' = Collected(b) /\ Range(sent)' = Range(sent)
    BY <1>1 DEF ReplyInv, Collected
  <2> QED BY <1>1, <1>2, <2>1 DEF ReplyFits
<1> QED BY <1>3, <1>4, <1>5 DEF ReplyInv

LEMMA MemberKeepsReplies ==
    ASSUME Batch!KindsAreSequences, BatchInv, ReplyInv, NEW b \in Batches, Batch!ReceiveMember(b)
    PROVE  ReplyInv'
<1> DEFINE i == cursor[b] + 1
           left == IF i = 1 THEN Batch!ResponseCount(b) ELSE remaining[b]
           nLeft == IF i = 1 THEN Batch!Cardinality(Batch!NotificationsOf(b))
                    ELSE remainingNotifications[b]
<1>1. /\ \E k \in 1 .. Len(sent) : sent[k] = b
      /\ cursor' = [cursor EXCEPT ![b] = i]
      /\ UNCHANGED <<callerAborted, sent, promise, calleeAborted, answer>>
      /\ \/ /\ i \in Batch!OfKind(b, {"invalid"})
            /\ Batch!CollectResponse(b, i, left, nLeft)
         \/ UNCHANGED <<responses, responseSent, reply>>
  BY DEF Batch!ReceiveMember, Batch!callerVars
<1>2. b \in Range(sent)
  <2>1. sent \in Seq(Batches)
    BY DEF ReplyInv, CallerTypes
  <2> QED BY <1>1, <2>1 DEF Range
<1>3. ReplyFits(b) /\ CallerTypes /\ BatchTypes /\ Range(sent)' = Range(sent)
  BY <1>1 DEF ReplyInv, BatchInv
<1> HIDE DEF i, left, nLeft
<1>4. /\ \A c \in Batches \ {b} : cursor'[c] = cursor[c]
  BY <1>1, <1>3 DEF BatchTypes
<1>5. CASE UNCHANGED <<responses, responseSent, reply>>
  <2>1. CallerTypes'
    BY <1>1, <1>3, <1>5 DEF CallerTypes
  <2>2. ReplyFits(b)'
    <3>1. Collected(b)' = Collected(b)
      BY <1>5 DEF Collected
    <3> QED BY <1>1, <1>2, <1>3, <1>5, <3>1 DEF ReplyFits
  <2>3. ASSUME NEW c \in Batches \ {b} PROVE ReplyFits(c)'
    BY <1>1, <1>3, <1>4, <1>5, ReplyElsewhere DEF ReplyInv
  <2> QED BY <2>1, <2>2, <2>3 DEF ReplyInv
<1>6. CASE i \in Batch!OfKind(b, {"invalid"}) /\ Batch!CollectResponse(b, i, left, nLeft)
  <2>1. /\ responses' = [responses EXCEPT ![b] = Append(@, i)]
        /\ Batch!SendResponsesIfReady(b, Append(responses[b], i), left - 1, nLeft)
    BY <1>6 DEF Batch!CollectResponse
  <2>2. /\ reply' \in [Batches -> {"none", "sending", "landed", "received", "lost"}]
        /\ \A d \in Batches \ {b} : reply'[d] = reply[d] /\ responseSent'[d] = responseSent[d]
        /\ reply'[b] # "none" <=> responseSent'[b]
        /\ reply'[b] = "lost" => calleeAborted
        /\ reply'[b] = "received" <=> reply[b] = "received"
    BY <1>3, <2>1, SendingFacts
  <2>3. i \in Nat /\ i \notin Batch!RequestsOf(b)
    <3>1. i \in Batch!Replied(b) \ Batch!RequestsOf(b)
      BY <1>6, MemberFacts
    <3> QED BY <3>1, MemberFacts
  <2>4. /\ Collected(b)' = Collected(b) \cup {i}
        /\ \A c \in Batches \ {b} : responses'[c] = responses[c]
    <3>1. responses[b] \in Seq(Nat)
      BY <1>3 DEF BatchTypes
    <3>2. /\ responses'[b] = Append(responses[b], i)
          /\ \A c \in Batches \ {b} : responses'[c] = responses[c]
      BY <1>3, <2>1 DEF BatchTypes
    <3> QED BY <2>3, <3>1, <3>2, Appending DEF Collected
  <2>5. CallerTypes'
    BY <1>1, <1>3, <2>2 DEF CallerTypes
  <2>6. ReplyFits(b)'
    BY <1>1, <1>2, <1>3, <2>2, <2>3, <2>4 DEF ReplyFits
  <2>7. ASSUME NEW c \in Batches \ {b} PROVE ReplyFits(c)'
    BY <1>1, <1>3, <1>4, <2>2, <2>4, ReplyElsewhere DEF ReplyInv
  <2> QED BY <2>5, <2>6, <2>7 DEF ReplyInv
<1> QED BY <1>1, <1>5, <1>6

LEMMA RespondKeepsReplies ==
    ASSUME Batch!KindsAreSequences, BatchInv, ReplyInv, NEW b \in Batches,
           NEW i \in Batch!RequestsOf(b), NEW r \in Batch!Results, Batch!Respond(b, i, r)
    PROVE  ReplyInv'
<1>1. /\ i \in open[b] /\ answer' = [answer EXCEPT ![b][i] = r]
      /\ responses' = [responses EXCEPT ![b] = Append(@, i)]
      /\ Batch!SendResponsesIfReady(b, Append(responses[b], i), remaining[b] - 1,
                                    remainingNotifications[b])
      /\ UNCHANGED <<callerAborted, sent, promise, calleeAborted, cursor>>
  BY DEF Batch!Respond, Batch!CollectResponse, Batch!callerVars
<1>2. ReplyFits(b) /\ CallerTypes /\ BatchTypes /\ Range(sent)' = Range(sent)
  BY <1>1 DEF ReplyInv, BatchInv
<1>3. /\ reply' \in [Batches -> {"none", "sending", "landed", "received", "lost"}]
      /\ \A d \in Batches \ {b} : reply'[d] = reply[d] /\ responseSent'[d] = responseSent[d]
      /\ reply'[b] # "none" <=> responseSent'[b]
      /\ reply'[b] = "lost" => calleeAborted
      /\ reply'[b] = "received" <=> reply[b] = "received"
  BY <1>1, <1>2, SendingFacts
<1>4. reply[b] # "received"
  <2>1. ~responseSent[b]
    BY <1>1, SentRepliesAreWhole
  <2> QED BY <1>2, <2>1 DEF ReplyFits
<1>5. /\ Collected(b)' = Collected(b) \cup {i}
      /\ \A c \in Batches \ {b} : responses'[c] = responses[c]
  <2>1. responses[b] \in Seq(Nat) /\ i \in Nat
    BY <1>2, MemberFacts DEF BatchTypes
  <2>2. /\ responses'[b] = Append(responses[b], i)
        /\ \A c \in Batches \ {b} : responses'[c] = responses[c]
    BY <1>1, <1>2 DEF BatchTypes
  <2> QED BY <2>1, <2>2, Appending DEF Collected
<1>6. /\ DOMAIN answer' = Batches /\ \A c \in Batches \ {b} : answer'[c] = answer[c]
      /\ answer'[b] = [answer[b] EXCEPT ![i] = r]
  BY <1>1, <1>2 DEF CallerTypes
<1>7. /\ answer'[b] \in [Batch!RequestsOf(b) -> {"none"} \cup Batch!Results]
      /\ \A j \in Batch!RequestsOf(b) : answer'[b][j] = IF j = i THEN r ELSE answer[b][j]
  <2>1. answer[b] \in [Batch!RequestsOf(b) -> {"none"} \cup Batch!Results]
    BY <1>2 DEF CallerTypes
  <2> QED BY <1>6, <2>1
<1>8. CallerTypes'
  <2>1. \A c \in Batches : answer'[c] \in [Batch!RequestsOf(c) -> {"none"} \cup Batch!Results]
    BY <1>2, <1>6, <1>7 DEF CallerTypes
  <2> QED BY <1>1, <1>2, <1>3, <1>6, <2>1 DEF CallerTypes
<1>9. ReplyFits(b)'
  BY <1>1, <1>2, <1>3, <1>4, <1>5, <1>7 DEF ReplyFits
<1>10. ASSUME NEW c \in Batches \ {b} PROVE ReplyFits(c)'
  BY <1>1, <1>2, <1>3, <1>5, <1>6, ReplyElsewhere DEF ReplyInv
<1> QED BY <1>8, <1>9, <1>10 DEF ReplyInv

LEMMA NotificationKeepsReplies ==
    ASSUME BatchInv, ReplyInv, NEW b \in Batches, NEW i \in Batch!NotificationsOf(b),
           Batch!NotificationProcessed(b, i)
    PROVE  ReplyInv'
<1>1. /\ Batch!SendResponsesIfReady(b, responses[b], remaining[b], remainingNotifications[b] - 1)
      /\ UNCHANGED <<callerAborted, sent, promise, calleeAborted, cursor, answer, responses>>
  BY DEF Batch!NotificationProcessed, Batch!callerVars
<1>2. ReplyFits(b) /\ CallerTypes /\ BatchTypes /\ Range(sent)' = Range(sent)
  BY <1>1 DEF ReplyInv, BatchInv
<1>3. /\ reply' \in [Batches -> {"none", "sending", "landed", "received", "lost"}]
      /\ \A d \in Batches \ {b} : reply'[d] = reply[d] /\ responseSent'[d] = responseSent[d]
      /\ reply'[b] # "none" <=> responseSent'[b]
      /\ reply'[b] = "lost" => calleeAborted
      /\ reply'[b] = "received" <=> reply[b] = "received"
  BY <1>1, <1>2, SendingFacts
<1>4. CallerTypes'
  BY <1>1, <1>2, <1>3 DEF CallerTypes
<1>5. ReplyFits(b)'
  <2>1. Collected(b)' = Collected(b)
    BY <1>1 DEF Collected
  <2> QED BY <1>1, <1>2, <1>3, <2>1 DEF ReplyFits
<1>6. ASSUME NEW c \in Batches \ {b} PROVE ReplyFits(c)'
  BY <1>1, <1>2, <1>3, ReplyElsewhere DEF ReplyInv
<1> QED BY <1>4, <1>5, <1>6 DEF ReplyInv

LEMMA ReplyInitially == ASSUME Batch!Init PROVE ReplyInv
<1>1. /\ sent = <<>> /\ callerAborted = FALSE
      /\ promise = [b \in Batches |-> [i \in Batch!RequestsOf(b) |-> "none"]]
      /\ answer = [b \in Batches |-> [i \in Batch!RequestsOf(b) |-> "none"]]
      /\ reply = [b \in Batches |-> "none"] /\ cursor = [b \in Batches |-> 0]
      /\ responses = [b \in Batches |-> <<>>] /\ responseSent = [b \in Batches |-> FALSE]
  BY DEF Batch!Init
<1>2. CallerTypes
  BY <1>1, EmptySeq DEF CallerTypes
<1>3. ASSUME NEW b \in Batches PROVE ReplyFits(b)
  <2>1. Collected(b) = {} /\ Range(sent) = {}
    BY <1>1 DEF Collected, Range
  <2>2. "none" \notin Batch!Results
    BY DEF Batch!Results
  <2>3. \A i \in Batch!RequestsOf(b) : promise[b][i] = "none" /\ answer[b][i] = "none"
    BY <1>1
  <2>4. cursor[b] = 0 /\ reply[b] = "none" /\ responseSent[b] = FALSE
    BY <1>1
  <2> QED BY <2>1, <2>2, <2>3, <2>4 DEF ReplyFits
<1> QED BY <1>2, <1>3 DEF ReplyInv

LEMMA ReplyStep ==
    ASSUME Batch!KindsAreSequences, BatchInv, ReplyInv, [Batch!Next]_(Batch!vars)
    PROVE  ReplyInv'
<1>1. CASE Batch!CloseCallee
  <2>1. /\ calleeAborted' = TRUE
        /\ UNCHANGED <<callerAborted, sent, promise, reply, responseSent, responses, cursor, answer>>
    BY <1>1 DEF Batch!CloseCallee, Batch!callerVars, Batch!collectVars
  <2>2. CallerTypes'
    BY <2>1 DEF ReplyInv, CallerTypes
  <2> QED BY <2>1, <2>2, ReplyElsewhere DEF ReplyInv
<1>2. CASE UNCHANGED Batch!vars
  <2>1. UNCHANGED <<callerAborted, sent, promise, reply, responseSent, responses, cursor, answer,
                    calleeAborted>>
    BY <1>2 DEF Batch!vars, Batch!callerVars, Batch!collectVars, Batch!calleeVars
  <2>2. CallerTypes'
    BY <2>1 DEF ReplyInv, CallerTypes
  <2> QED BY <2>1, <2>2, ReplyElsewhere DEF ReplyInv
<1> QED BY <1>1, <1>2, SendBatchKeepsReplies, ReceiveReplyKeepsReplies, CloseCallerKeepsReplies,
           LandReplyKeepsReplies, MemberKeepsReplies, RespondKeepsReplies, NotificationKeepsReplies
        DEF Batch!Next

(* The counters of a batch whose first member was not received are as they *)
(* were made.                                                              *)
NothingCounted ==
    \A b \in Batches : cursor[b] = 0 => remaining[b] = 0 /\ remainingNotifications[b] = 0

LEMMA CountsStep ==
    ASSUME Batch!KindsAreSequences, BatchInv, NothingCounted, [Batch!Next]_(Batch!vars)
    PROVE  NothingCounted'
<1>1. BatchTypes /\ BatchTypes' /\ \A b \in Batches : Accounted(b)
  BY BatchStep DEF BatchInv
<1>2. CASE UNCHANGED <<cursor, remaining, remainingNotifications>>
  BY <1>2 DEF NothingCounted
<1>3. ASSUME NEW b \in Batches, cursor[b] >= 0, cursor'[b] > 0,
             \A c \in Batches \ {b} :
                /\ cursor'[c] = cursor[c] /\ remaining'[c] = remaining[c]
                /\ remainingNotifications'[c] = remainingNotifications[c]
      PROVE  NothingCounted'
  <2>1. ASSUME NEW c \in Batches, cursor'[c] = 0
        PROVE  remaining'[c] = 0 /\ remainingNotifications'[c] = 0
    <3>1. c # b
      BY <1>1, <1>3, <2>1 DEF BatchTypes
    <3> QED BY <1>3, <2>1, <3>1 DEF NothingCounted
  <2> QED BY <2>1 DEF NothingCounted
<1>4. ASSUME NEW b \in Batches, NEW S, S \subseteq Nat \cap (1 .. cursor[b]), NEW i \in S
      PROVE  cursor[b] > 0
  BY <1>1, <1>4 DEF BatchTypes
<1>5. ASSUME NEW b \in Batches, Batch!ReceiveMember(b) PROVE NothingCounted'
  <2>1. /\ cursor' = [cursor EXCEPT ![b] = cursor[b] + 1]
        /\ \E n : remainingNotifications' = [remainingNotifications EXCEPT ![b] = n]
        /\ \E n : remaining' = [remaining EXCEPT ![b] = n]
    BY <1>5 DEF Batch!ReceiveMember, Batch!CollectResponse
  <2>2. cursor[b] \in Nat
    BY <1>1 DEF BatchTypes
  <2>3. cursor[b] >= 0 /\ cursor'[b] > 0
    BY <1>1, <2>1, <2>2 DEF BatchTypes
  <2>4. \A c \in Batches \ {b} :
           /\ cursor'[c] = cursor[c] /\ remaining'[c] = remaining[c]
           /\ remainingNotifications'[c] = remainingNotifications[c]
    BY <1>1, <2>1 DEF BatchTypes
  <2> QED BY <1>3, <2>3, <2>4
<1>6. ASSUME NEW b \in Batches, NEW i \in Batch!RequestsOf(b), NEW r \in Batch!Results,
             Batch!Respond(b, i, r)
      PROVE  NothingCounted'
  <2>1. /\ UNCHANGED <<cursor, remainingNotifications>> /\ i \in open[b]
        /\ \E n : remaining' = [remaining EXCEPT ![b] = n]
    BY <1>6 DEF Batch!Respond, Batch!CollectResponse
  <2>2. cursor[b] \in Nat /\ i \in 1 .. cursor[b]
    BY <1>1, <2>1 DEF BatchTypes, Accounted
  <2>3. cursor[b] >= 0 /\ cursor'[b] > 0
    BY <2>1, <2>2
  <2>4. \A c \in Batches \ {b} : remaining'[c] = remaining[c]
    BY <1>1, <2>1 DEF BatchTypes
  <2> QED BY <1>3, <2>1, <2>3, <2>4
<1>7. ASSUME NEW b \in Batches, NEW i \in Batch!NotificationsOf(b),
             Batch!NotificationProcessed(b, i)
      PROVE  NothingCounted'
  <2>1. /\ UNCHANGED <<cursor, remaining>> /\ i \in processing[b]
        /\ \E n : remainingNotifications' = [remainingNotifications EXCEPT ![b] = n]
    BY <1>7 DEF Batch!NotificationProcessed
  <2>2. cursor[b] \in Nat /\ i \in 1 .. cursor[b]
    BY <1>1, <2>1 DEF BatchTypes, Accounted
  <2>3. cursor[b] >= 0 /\ cursor'[b] > 0
    BY <2>1, <2>2
  <2>4. \A c \in Batches \ {b} : remainingNotifications'[c] = remainingNotifications[c]
    BY <1>1, <2>1 DEF BatchTypes
  <2> QED BY <1>3, <2>1, <2>3, <2>4
<1> USE DEF Batch!callerVars, Batch!collectVars, Batch!calleeVars
<1>8. ASSUME NEW b \in Batches,
             Batch!SendBatch(b) \/ Batch!ReceiveReply(b) \/ Batch!LandReply(b)
      PROVE  NothingCounted'
  BY <1>2, <1>8 DEF Batch!SendBatch, Batch!ReceiveReply, Batch!LandReply
<1>9. CASE Batch!CloseCaller \/ Batch!CloseCallee \/ UNCHANGED Batch!vars
  BY <1>2, <1>9 DEF Batch!CloseCaller, Batch!CloseCallee, Batch!vars
<1> QED BY <1>5, <1>6, <1>7, <1>8, <1>9 DEF Batch!Next

(* What the counters of a batch count is missing of its members.           *)
LEMMA CountsAreBounded ==
    ASSUME Batch!KindsAreSequences, BatchInv, NothingCounted, NEW b \in Batches
    PROVE  /\ remaining[b] \in 0 .. Cardinality(Batch!Replied(b))
           /\ remainingNotifications[b] \in 0 .. Cardinality(Batch!NotificationsOf(b))
<1>1. Accounted(b) /\ BatchTypes
  BY DEF BatchInv
<1>2. Uncollected(b) \subseteq Batch!Replied(b)
  BY DEF Uncollected
<1>3. /\ Cardinality(Uncollected(b)) \in Nat /\ Cardinality(Batch!Replied(b)) \in Nat
      /\ Cardinality(Uncollected(b)) <= Cardinality(Batch!Replied(b))
  BY <1>2, MemberFacts, FS_Subset, FS_CardinalityType
<1>4. Unprocessed(b) \subseteq Batch!NotificationsOf(b)
  BY <1>1, MissingAreFinite
<1>5. /\ Cardinality(Unprocessed(b)) \in Nat /\ Cardinality(Batch!NotificationsOf(b)) \in Nat
      /\ Cardinality(Unprocessed(b)) <= Cardinality(Batch!NotificationsOf(b))
  BY <1>4, MemberFacts, FS_Subset, FS_CardinalityType
<1>6. CASE cursor[b] = 0
  <2>1. remaining[b] = 0 /\ remainingNotifications[b] = 0
    BY <1>6 DEF NothingCounted
  <2> QED BY <1>3, <1>5, <2>1
<1>7. CASE cursor[b] > 0
  <2>1. /\ remaining[b] = Cardinality(Uncollected(b))
        /\ remainingNotifications[b] = Cardinality(Unprocessed(b))
    BY <1>1, <1>7 DEF Accounted
  <2> QED BY <1>3, <1>5, <2>1
<1>8. cursor[b] \in Nat
  BY <1>1 DEF BatchTypes
<1> QED BY <1>6, <1>7, <1>8


THEOREM BatchInvariance == Batch!Spec => [](BatchInv /\ ReplyInv /\ NothingCounted)
<1>1. Batch!Init => BatchInv /\ ReplyInv /\ NothingCounted
  <2>1. Batch!Init => NothingCounted
    BY DEF Batch!Init, NothingCounted
  <2> QED BY <2>1, BatchInitially, ReplyInitially, MembersAssumption
<1>2. BatchInv /\ ReplyInv /\ NothingCounted /\ [Batch!Next]_(Batch!vars)
      => BatchInv' /\ ReplyInv' /\ NothingCounted'
  BY BatchStep, ReplyStep, CountsStep, MembersAssumption
<1> QED BY <1>1, <1>2, PTL DEF Batch!Spec

LEMMA ElementsMakeASeq ==
    ASSUME NEW S, NEW T, NEW seq \in Seq(S), \A k \in 1 .. Len(seq) : seq[k] \in T
    PROVE  seq \in Seq(T)
<1>1. Len(seq) \in Nat /\ seq \in [1 .. Len(seq) -> S]
  BY LenProperties
<1>2. seq \in [1 .. Len(seq) -> T]
  BY <1>1
<1>3. seq \in UNION {[1 .. n -> T] : n \in Nat}
  BY <1>1, <1>2, Zenon
<1> QED BY <1>3, SeqDef, Zenon

(* The variables of two connections that exchange batches keep their       *)
(* types, for any number of batches of any length.                         *)
THEOREM BatchTypeCorrect == Batch!Spec => []Batch!TypeOK
<1>1. BatchInv /\ ReplyInv /\ NothingCounted => Batch!TypeOK
  <2> SUFFICES ASSUME BatchInv, ReplyInv, NothingCounted PROVE Batch!TypeOK
    OBVIOUS
  <2>1. ASSUME NEW b \in Batches
        PROVE  /\ cursor[b] \in 0 .. Len(KindsOf[b])
               /\ remaining[b] \in 0 .. Batch!Cardinality(Batch!Replied(b))
               /\ remainingNotifications[b] \in 0 .. Batch!Cardinality(Batch!NotificationsOf(b))
               /\ responses[b] \in Seq(Batch!Replied(b))
               /\ responseSent[b] \in BOOLEAN
               /\ open[b] \subseteq Batch!RequestsOf(b)
               /\ processing[b] \subseteq Batch!NotificationsOf(b)
    <3>1. Accounted(b) /\ BatchTypes
      BY DEF BatchInv
    <3>2. cursor[b] \in 0 .. Len(KindsOf[b])
      BY <3>1, MemberFacts, MembersAssumption DEF Accounted, BatchTypes
    <3>3. /\ remaining[b] \in 0 .. Batch!Cardinality(Batch!Replied(b))
          /\ remainingNotifications[b] \in 0 .. Batch!Cardinality(Batch!NotificationsOf(b))
      BY CountsAreBounded, SameOperators, MembersAssumption
    <3>4. responses[b] \in Seq(Batch!Replied(b))
      <4>1. Collected(b) \subseteq Batch!Replied(b)
        BY <3>1 DEF Accounted
      <4>2. /\ responses[b] \in Seq(Nat) /\ DOMAIN responses[b] = 1 .. Len(responses[b])
            /\ Len(responses[b]) \in Nat
        BY <3>1, LenProperties DEF BatchTypes
      <4>3. \A k \in 1 .. Len(responses[b]) : responses[b][k] \in Batch!Replied(b)
        BY <4>1, <4>2 DEF Collected, Range
      <4> QED BY <3>1, <4>3, ElementsMakeASeq DEF BatchTypes
    <3>5. /\ responseSent[b] \in BOOLEAN /\ open[b] \subseteq Batch!RequestsOf(b)
          /\ processing[b] \subseteq Batch!NotificationsOf(b)
      BY <3>1 DEF Accounted, BatchTypes
    <3> QED BY <3>2, <3>3, <3>4, <3>5
  <2> QED BY <2>1 DEF ReplyInv, CallerTypes, BatchInv, BatchTypes, Batch!TypeOK
<1> QED BY <1>1, BatchInvariance, PTL

(* However the answers, the notifications and the two connections' ends    *)
(* meet: a caller is told the callee's own answers, and once its requests  *)
(* are answered nothing but the processing of notifications, which ends,   *)
(* is between it and the reply.  The safety part of BatchReturns, for any  *)
(* number of batches of any length.                                        *)
THEOREM BatchesCanReturn == Batch!Spec => []BatchCanReturn
<1>1. BatchInv /\ ReplyInv => BatchCanReturn
  <2> SUFFICES ASSUME BatchInv, ReplyInv, NEW b \in Batches
      PROVE  /\ \A i \in Batch!RequestsOf(b) :
                    promise[b][i] \in Batch!Results => promise[b][i] = answer[b][i]
             /\ /\ cursor[b] = Len(KindsOf[b]) /\ open[b] = {} /\ Batch!RequestsOf(b) # {}
                /\ ~callerAborted /\ ~calleeAborted
                => \/ processing[b] # {}
                   \/ reply[b] \in {"sending", "landed"}
                   \/ \A i \in Batch!RequestsOf(b) :
                         promise[b][i] = answer[b][i] /\ answer[b][i] \in Batch!Results
    BY DEF BatchCanReturn
  <2>1. ReplyFits(b)
    BY DEF ReplyInv
  <2>2. ASSUME cursor[b] = Len(KindsOf[b]), open[b] = {}, Batch!RequestsOf(b) # {},
               ~callerAborted, ~calleeAborted, processing[b] = {},
               reply[b] \notin {"sending", "landed"}, NEW i \in Batch!RequestsOf(b)
        PROVE  promise[b][i] = answer[b][i] /\ answer[b][i] \in Batch!Results
    <3>1. Batch!Replied(b) # {}
      BY <2>2, MemberFacts, MembersAssumption
    <3>2. responseSent[b]
      BY <2>2, <3>1, AccountedReplies, MembersAssumption DEF Batch!RepliedWhenComplete
    <3>3. reply[b] = "received"
      BY <2>1, <2>2, <3>2 DEF ReplyFits, ReplyInv, CallerTypes
    <3>4. b \in Range(sent)
      BY <2>1, <3>2, SentRepliesAreWhole, MembersAssumption DEF ReplyFits
    <3>5. promise[b][i] \in {"none", "pending", "closed"} \cup Batch!Results
      BY DEF ReplyInv, CallerTypes
    <3> QED BY <2>1, <2>2, <3>3, <3>4, <3>5 DEF ReplyFits
  <2> QED BY <2>1, <2>2 DEF ReplyFits
<1> QED BY <1>1, BatchInvariance, PTL
=============================================================================
