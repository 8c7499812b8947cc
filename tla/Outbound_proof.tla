-------------------------- MODULE Outbound_proof --------------------------
(***************************************************************************)
(* Proofs that the invariants of OutboundMailbox hold for any number of    *)
(* leases and messages, by themselves and under the responses of           *)
(* SseResponse, which cost a message each at most; and those of            *)
(* OutboundChannel for any number of messages.                             *)
(***************************************************************************)
EXTENDS Outbound, SequenceTheorems, FiniteSetTheorems, TLAPS

USE NoLeaseAssumption, MaxMessagesAssumption

(* The inductive invariant: besides the properties, that an aborted        *)
(* mailbox is finished, which is why a receiver that waits need not be     *)
(* woken by anything else.                                                 *)
IInv ==
    /\ TypeOK
    /\ isAborted => isFinished
    /\ InOrderOnceEach
    /\ NoLostWakeup
    /\ CountIsExact
    /\ OneHolder

-----------------------------------------------------------------------------
(* Waking changes a receiver that waits, and no other. *)
LEMMA WakeType ==
    ASSUME NEW l, reader \in [Leases -> {"idle", "waiting", "woken"}]
    PROVE  /\ Wake(l) \in [Leases -> {"idle", "waiting", "woken"}]
           /\ \A k \in Leases : Wake(l)[k] = "waiting" => k # l /\ reader[k] = "waiting"
BY DEF Wake

(* One round of the loop of receive() preserves order and count, and it    *)
(* waits only where there is nothing to take.                              *)
LEMMA LookKeepsIInv ==
    ASSUME IInv, NEW l \in Leases, Look(l),
           UNCHANGED <<activeLease, isFinished, isAborted, leases, stopped, accepted>>
    PROVE  IInv'
<1> USE DEF IInv, TypeOK
<1>1. CASE activeLease # l \/ isAborted \/ (queue = <<>> /\ isFinished)
  <2>1. /\ reader' = [reader EXCEPT ![l] = "idle"]
        /\ UNCHANGED <<queue, buffered, taken>>
    BY <1>1 DEF Look, Over, AllButFirst
  <2>2. InOrderOnceEach' /\ CountIsExact' /\ OneHolder'
    BY <2>1 DEF InOrderOnceEach, CountIsExact, OneHolder
  <2>3. NoLostWakeup'
    BY <2>1 DEF NoLostWakeup
  <2> QED BY <2>1, <2>2, <2>3
<1>2. CASE activeLease = l /\ ~isAborted /\ queue = <<>> /\ ~isFinished
  <2>1. /\ reader' = [reader EXCEPT ![l] = "waiting"]
        /\ UNCHANGED <<queue, buffered, taken>>
    BY <1>2 DEF Look, Over, AllButFirst
  <2>2. InOrderOnceEach' /\ CountIsExact' /\ OneHolder'
    BY <2>1 DEF InOrderOnceEach, CountIsExact, OneHolder
  <2>3. NoLostWakeup'
    BY <2>1, <1>2 DEF NoLostWakeup
  <2> QED BY <2>1, <2>2, <2>3
<1>3. CASE activeLease = l /\ ~isAborted /\ queue # <<>>
  <2>1. /\ reader' = [reader EXCEPT ![l] = "idle"]
        /\ taken' = Append(taken, Head(queue))
        /\ queue' = Tail(queue)
        /\ buffered' = buffered - 1
    BY <1>3 DEF Look, Over, AllButFirst
  <2>2. /\ Len(queue) \in Nat \ {0} /\ Head(queue) = queue[1]
        /\ Len(queue') = Len(queue) - 1
        /\ \A i \in 1 .. Len(queue') : queue'[i] = queue[i + 1]
    BY <2>1, <1>3
  <2>3. /\ Len(taken') = Len(taken) + 1
        /\ taken'[Len(taken) + 1] = queue[1]
        /\ \A i \in 1 .. Len(taken) : taken'[i] = taken[i]
    BY <2>1, <2>2
  <2>4. InOrderOnceEach'
    <3>1. ASSUME NEW i \in 1 .. Len(taken') PROVE taken'[i] = i
      <4>1. queue[1] = Len(taken) + 1
        BY <2>2 DEF InOrderOnceEach
      <4>2. CASE i = Len(taken) + 1
        BY <4>1, <4>2, <2>3
      <4>3. CASE i \in 1 .. Len(taken)
        BY <4>3, <2>3 DEF InOrderOnceEach
      <4> QED BY <4>2, <4>3, <2>3
    <3>2. ASSUME NEW i \in 1 .. Len(queue') PROVE queue'[i] = Len(taken') + i
      <4>1. i + 1 \in 1 .. Len(queue)
        BY <2>2
      <4>2. queue[i + 1] = Len(taken) + (i + 1)
        BY <4>1 DEF InOrderOnceEach
      <4> QED BY <4>1, <4>2, <2>2, <2>3
    <3>3. ~isAborted' /\ accepted' = Len(taken') + Len(queue')
      BY <1>3, <2>2, <2>3 DEF InOrderOnceEach
    <3> QED BY <3>1, <3>2, <3>3 DEF InOrderOnceEach
  <2>5. NoLostWakeup'
    BY <2>1, <1>3 DEF NoLostWakeup
  <2>6. CountIsExact' /\ OneHolder'
    BY <2>1, <2>2 DEF CountIsExact, OneHolder
  <2>7. TypeOK'
    BY <2>1, <2>2, <1>3
  <2> QED BY <2>4, <2>5, <2>6, <2>7
<1> QED BY <1>1, <1>2, <1>3

-----------------------------------------------------------------------------
LEMMA InitImpliesIInv == Init => IInv
<1> SUFFICES ASSUME Init PROVE IInv
  OBVIOUS
<1>1. TypeOK
  <2>1. /\ <<>> \in Seq(1 .. MaxMessages)
        /\ 0 \in 0 .. MaxMessages
    OBVIOUS
  <2>2. /\ queue \in Seq(1 .. MaxMessages)
        /\ taken \in Seq(1 .. MaxMessages)
        /\ accepted \in 0 .. MaxMessages
    BY <2>1 DEF Init
  <2>3. /\ leases \in [Leases -> {"unused", "held", "released"}]
        /\ reader \in [Leases -> {"idle", "waiting", "woken"}]
    BY DEF Init
  <2>4. isFinished \in BOOLEAN /\ isAborted \in BOOLEAN
    BY Zenon DEF Init
  <2>5. buffered \in Int /\ stopped \subseteq Leases
    BY DEF Init
  <2>6. activeLease \in Leases \cup {NoLease}
    BY DEF Init
  <2> QED BY <2>2, <2>3, <2>4, <2>5, <2>6 DEF TypeOK
<1>2. InOrderOnceEach /\ CountIsExact
  BY DEF Init, InOrderOnceEach, CountIsExact
<1>3. NoLostWakeup /\ OneHolder
  BY DEF Init, NoLostWakeup, OneHolder
<1> QED BY <1>1, <1>2, <1>3 DEF Init, IInv

LEMMA NextKeepsIInv == IInv /\ [Next]_vars => IInv'
<1> SUFFICES ASSUME IInv, [Next]_vars PROVE IInv'
  OBVIOUS
<1> USE DEF IInv, TypeOK
<1>1. CASE Push
  <2>1. /\ queue' = Append(queue, accepted + 1)
        /\ ~isFinished /\ ~isAborted
        /\ accepted' = accepted + 1 /\ accepted' \in 1 .. MaxMessages
        /\ buffered' = buffered + 1
        /\ reader' = Wake(activeLease)
        /\ UNCHANGED <<activeLease, isFinished, isAborted, leases, stopped, taken>>
    BY <1>1 DEF Push
  <2>2. /\ Len(queue') = Len(queue) + 1
        /\ queue'[Len(queue) + 1] = accepted + 1
        /\ \A i \in 1 .. Len(queue) : queue'[i] = queue[i]
    BY <2>1
  <2>3. InOrderOnceEach'
    <3>1. ASSUME NEW i \in 1 .. Len(queue') PROVE queue'[i] = Len(taken) + i
      <4>1. CASE i = Len(queue) + 1
        BY <4>1, <2>1, <2>2 DEF InOrderOnceEach
      <4>2. CASE i \in 1 .. Len(queue)
        BY <4>2, <2>2 DEF InOrderOnceEach
      <4> QED BY <4>1, <4>2, <2>2
    <3> QED BY <3>1, <2>1, <2>2 DEF InOrderOnceEach
  <2>4. NoLostWakeup'
    BY <2>1, WakeType DEF NoLostWakeup
  <2>5. CountIsExact' /\ OneHolder'
    BY <2>1, <2>2 DEF CountIsExact, OneHolder
  <2>6. TypeOK'
    BY <2>1, WakeType
  <2> QED BY <2>1, <2>3, <2>4, <2>5, <2>6
<1>2. CASE Finish
  BY <1>2, WakeType DEF Finish, InOrderOnceEach, NoLostWakeup, CountIsExact, OneHolder
<1>3. CASE Abort
  <2>1. TypeOK'
    BY <1>3, WakeType DEF Abort, Holder, Dropped
  <2>2. InOrderOnceEach' /\ CountIsExact'
    BY <1>3 DEF Abort, Holder, Dropped, InOrderOnceEach, CountIsExact
  <2>3. NoLostWakeup' /\ OneHolder'
    BY <1>3, WakeType DEF Abort, Holder, Dropped, NoLostWakeup, OneHolder
  <2> QED BY <1>3, <2>1, <2>2, <2>3 DEF Abort, Holder, Dropped
<1>4. ASSUME NEW l \in Leases, TryAcquire(l) PROVE IInv'
  BY <1>4 DEF TryAcquire, Acquirable, InOrderOnceEach, NoLostWakeup, CountIsExact, OneHolder
<1>5. ASSUME NEW l \in Leases, Receive(l) PROVE IInv'
  BY <1>5, LookKeepsIInv DEF Receive
<1>6. ASSUME NEW l \in Leases, Resume(l) PROVE IInv'
  BY <1>6, LookKeepsIInv DEF Resume
<1>7. ASSUME NEW l \in Leases, Release(l) PROVE IInv'
  <2>1. TypeOK' /\ NoLostWakeup'
    BY <1>7, WakeType DEF Release, NoLostWakeup
  <2>2. InOrderOnceEach' /\ CountIsExact' /\ OneHolder'
    BY <1>7 DEF Release, InOrderOnceEach, CountIsExact, OneHolder
  <2> QED BY <1>7, <2>1, <2>2 DEF Release
<1>8. CASE UNCHANGED vars
  BY <1>8 DEF vars, InOrderOnceEach, NoLostWakeup, CountIsExact, OneHolder
<1> QED BY <1>1, <1>2, <1>3, <1>4, <1>5, <1>6, <1>7, <1>8 DEF Next

(* In every behaviour of a mailbox the inductive invariant holds. *)
THEOREM Invariance == Spec => []IInv
BY InitImpliesIInv, NextKeepsIInv, PTL DEF Spec

(* The variables keep their types. *)
THEOREM TypeCorrect == Spec => []TypeOK
BY Invariance, PTL DEF IInv

(* A receiver never sleeps through a message, a finish or an abort. *)
THEOREM NoWakeupIsLost == Spec => []NoLostWakeup
BY Invariance, PTL DEF IInv

(* Whoever receives, messages come out in order, once each, none missing. *)
THEOREM FifoAcrossLeases == Spec => []InOrderOnceEach
BY Invariance, PTL DEF IInv

(* The observer's count of what is queued is exact at all times. *)
THEOREM AccountingIsExact == Spec => []CountIsExact
BY Invariance, PTL DEF IInv

(* There is one holder at most, and it learns of an abort. *)
THEOREM SingleHolder == Spec => []OneHolder
BY Invariance, PTL DEF IInv

-----------------------------------------------------------------------------
(* The responses to GET requests that drain a mailbox (SseResponse).       *)

(* The values the variables of the bodies and their readers take. *)
SseTypes ==
    /\ body \in [Leases -> {"none", "open", "closed", "errored", "cancelled"}]
    /\ isReaderWaiting \subseteq Leases
    /\ receiving \in [Leases -> {"no", "pending", "message", "done", "error"}]
    /\ result \in [Leases -> 0 .. MaxMessages]
    /\ chunks \in [Leases -> Seq(1 .. MaxMessages)]
    /\ http \in [Leases -> {"none", "next", "reading", "chunk", "draining", "over"}]
    /\ chunk \in [Leases -> 0 .. MaxMessages]
    /\ res \in [Leases -> {"open", "ended", "closed"}]
    /\ delivered \in Seq(1 .. MaxMessages)

(* A body that still may write: there is one such body at most, the one    *)
(* with the lease, or the one that had it when the mailbox was aborted.    *)
IsLive(l) == body[l] \in {"open", "errored"}

OneIsLive ==
    /\ \A k, l \in Leases : IsLive(k) /\ IsLive(l) => k = l
    /\ \A l \in Leases :
        /\ body[l] = "open" <=> activeLease = l
        /\ body[l] = "none" <=> leases[l] = "unused"
        /\ body[l] = "errored" \/ receiving[l] = "error" \/ l \in stopped => isAborted

(* A receiver that sleeps belongs to a deliver() that waits for it; a      *)
(* reader that waits is there; a body that is not live has nothing to hand *)
(* out; and deliver() does not run while a message waits to be written.    *)
ReaderFits(l) ==
    /\ reader[l] # "idle" => receiving[l] = "pending"
    /\ body[l] = "open" /\ l \in isReaderWaiting => http[l] = "reading"
    /\ body[l] = "none" => l \notin isReaderWaiting
    /\ receiving[l] = "message" => result[l] # KeepAlive
    /\ http[l] # "chunk" => chunk[l] = KeepAlive
    /\ body[l] \in {"none", "closed"} => receiving[l] = "no"
    /\ ~IsLive(l) \/ receiving[l] # "no" => chunk[l] = KeepAlive /\ chunks[l] = <<>>
    /\ chunk[l] # KeepAlive => chunks[l] = <<>>

ReadersFit == \A l \in Leases : ReaderFits(l)

(* A body has a message that it may still write. *)
HasOne(l) ==
    \/ chunk[l] # KeepAlive
    \/ chunks[l] # <<>>
    \/ body[l] = "open" /\ receiving[l] = "message"

(* That message is the newest taken, and nothing that was taken later, nor *)
(* it itself, has been written.                                            *)
NewestIsHeld ==
    \A l \in Leases :
        /\ chunk[l] # KeepAlive => chunk[l] = Len(taken)
        /\ chunks[l] # <<>> => chunks[l] = <<Len(taken)>>
        /\ body[l] = "open" /\ receiving[l] = "message" => result[l] = Len(taken)
        /\ HasOne(l) => \A i \in 1 .. Len(delivered) : delivered[i] < Len(taken)

WrittenInOrder ==
    /\ \A i \in 1 .. Len(delivered) : delivered[i] <= Len(taken)
    /\ \A i, j \in 1 .. Len(delivered) : i < j => delivered[i] < delivered[j]

(* The responses that may have cost a message. *)
AtRisk == {l \in Leases : InTransit(l)}

FewAtRisk ==
    /\ IsFiniteSet(AtRisk)
    /\ Len(taken) - Len(delivered) <= Cardinality(AtRisk)

SseInv ==
    /\ IInv
    /\ SseTypes
    /\ OneIsLive
    /\ ReadersFit
    /\ NewestIsHeld
    /\ WrittenInOrder
    /\ FewAtRisk

-----------------------------------------------------------------------------
(* What may be at risk, as one lease changes and the others do not.        *)

(* A step that changes nothing but of a lease whether it is at risk. *)
LEMMA OneLeaseChanges ==
    ASSUME NEW S, NEW T, NEW l, IsFiniteSet(S), T \ {l} = S \ {l}
    PROVE  /\ IsFiniteSet(T)
           /\ Cardinality(S) \in Nat /\ Cardinality(T) \in Nat
           /\ Cardinality(T) >= Cardinality(S) - 1
           /\ l \in T => Cardinality(T) >= Cardinality(S)
           /\ l \notin S => Cardinality(T) >= Cardinality(S)
           /\ l \in T /\ l \notin S => Cardinality(T) = Cardinality(S) + 1
<1> DEFINE R == S \ {l}
<1>1. /\ IsFiniteSet(R)
      /\ Cardinality(R) = IF l \in S THEN Cardinality(S) - 1 ELSE Cardinality(S)
  BY FS_RemoveElement
<1>2. /\ Cardinality(R) \in Nat /\ Cardinality(S) \in Nat
  BY <1>1, FS_CardinalityType
<1>3. CASE l \in T
  <2>1. T = R \cup {l} /\ l \notin R
    BY <1>3
  <2>2. IsFiniteSet(T) /\ Cardinality(T) = Cardinality(R) + 1
    BY <2>1, <1>1, FS_AddElement
  <2> HIDE DEF R
  <2> QED BY <1>1, <1>2, <1>3, <2>2
<1>4. CASE l \notin T
  <2>1. T = R
    BY <1>4
  <2> HIDE DEF R
  <2> QED BY <1>1, <1>2, <1>4, <2>1
<1> QED BY <1>3, <1>4

(* The other leases are as much at risk as they were. *)
OthersAsBefore(l) == \A k \in Leases \ {l} : InTransit(k)' <=> InTransit(k)

LEMMA RiskOfOne ==
    ASSUME NEW l \in Leases, FewAtRisk, OthersAsBefore(l),
           Len(taken) \in Nat, Len(delivered) \in Nat, Len(taken)' \in Nat, Len(delivered)' \in Nat,
           \/ /\ Len(taken)' = Len(taken) /\ Len(delivered)' = Len(delivered)
              /\ InTransit(l) => InTransit(l)'
           \/ /\ Len(taken)' = Len(taken) + 1 /\ Len(delivered)' = Len(delivered)
              /\ ~InTransit(l) /\ InTransit(l)'
           \/ Len(taken)' = Len(taken) /\ Len(delivered)' = Len(delivered) + 1
    PROVE  FewAtRisk'
<1> DEFINE S == AtRisk
           T == AtRisk'
<1>1. T \ {l} = S \ {l}
  BY DEF AtRisk, OthersAsBefore
<1>2. (l \in S <=> InTransit(l)) /\ (l \in T <=> InTransit(l)')
  BY DEF AtRisk
<1>3. IsFiniteSet(S) /\ Len(taken) - Len(delivered) <= Cardinality(S)
  BY DEF FewAtRisk
<1> HIDE DEF S, T
<1>4. /\ IsFiniteSet(T)
      /\ Cardinality(S) \in Nat /\ Cardinality(T) \in Nat
      /\ Cardinality(T) >= Cardinality(S) - 1
      /\ l \in T => Cardinality(T) >= Cardinality(S)
      /\ l \notin S => Cardinality(T) >= Cardinality(S)
      /\ l \in T /\ l \notin S => Cardinality(T) = Cardinality(S) + 1
  BY <1>1, <1>3, OneLeaseChanges
<1>5. Len(taken)' - Len(delivered)' <= Cardinality(T)
  BY <1>2, <1>3, <1>4
<1> QED BY <1>4, <1>5 DEF FewAtRisk, T

(* The lengths are numbers, and the messages taken are numbered. *)
LEMMA Lengths ==
    ASSUME SseInv
    PROVE  /\ Len(taken) \in Nat /\ Len(delivered) \in Nat
           /\ \A i \in 1 .. Len(delivered) : delivered[i] \in Int
BY DEF SseInv, IInv, TypeOK, SseTypes

-----------------------------------------------------------------------------
LEMMA SseInitImpliesInv == SseInit => SseInv
<1> SUFFICES ASSUME SseInit PROVE SseInv
  OBVIOUS
<1>1. IInv
  BY InitImpliesIInv DEF SseInit
<1>2. SseTypes
  <2>1. <<>> \in Seq(1 .. MaxMessages) /\ 0 \in 0 .. MaxMessages
    OBVIOUS
  <2>2. chunks \in [Leases -> Seq(1 .. MaxMessages)] /\ delivered \in Seq(1 .. MaxMessages)
    BY <2>1 DEF SseInit
  <2>3. result \in [Leases -> 0 .. MaxMessages] /\ chunk \in [Leases -> 0 .. MaxMessages]
    BY <2>1 DEF SseInit, KeepAlive
  <2>4. /\ body \in [Leases -> {"none", "open", "closed", "errored", "cancelled"}]
        /\ receiving \in [Leases -> {"no", "pending", "message", "done", "error"}]
    BY DEF SseInit
  <2>5. /\ http \in [Leases -> {"none", "next", "reading", "chunk", "draining", "over"}]
        /\ res \in [Leases -> {"open", "ended", "closed"}]
        /\ isReaderWaiting \subseteq Leases
    BY DEF SseInit
  <2> QED BY <2>2, <2>3, <2>4, <2>5 DEF SseTypes
<1>3. OneIsLive
  BY DEF SseInit, Init, OneIsLive, IsLive
<1>4. ReadersFit
  BY DEF SseInit, Init, ReadersFit, ReaderFits
<1>5. NewestIsHeld /\ WrittenInOrder
  BY DEF SseInit, Init, NewestIsHeld, HasOne, WrittenInOrder
<1>6. FewAtRisk
  <2>1. AtRisk = {}
    BY DEF SseInit, AtRisk, InTransit
  <2>2. Len(taken) = 0 /\ Len(delivered) = 0
    BY DEF SseInit, Init
  <2> QED BY <2>1, <2>2, FS_EmptySet DEF FewAtRisk
<1> QED BY <1>1, <1>2, <1>3, <1>4, <1>5, <1>6 DEF SseInv

(* The parts of the invariant that are about the responses, where only the *)
(* mailbox changes and no message is taken.                                *)
LEMMA MailboxOnly ==
    ASSUME SseInv, UNCHANGED <<bodyVars, httpVars, taken>>
    PROVE  SseTypes' /\ NewestIsHeld' /\ WrittenInOrder' /\ FewAtRisk'
<1>1. SseTypes'
  BY DEF SseInv, SseTypes, bodyVars, httpVars
<1>2. NewestIsHeld'
  BY DEF SseInv, NewestIsHeld, HasOne, bodyVars, httpVars
<1>3. WrittenInOrder'
  BY DEF SseInv, WrittenInOrder, bodyVars, httpVars
<1>4. FewAtRisk'
  BY DEF SseInv, FewAtRisk, AtRisk, InTransit, bodyVars, httpVars
<1> QED BY <1>1, <1>2, <1>3, <1>4

LEMMA PushKeepsSseInv == SseInv /\ PushMessage => SseInv'
<1> SUFFICES ASSUME SseInv, PushMessage PROVE SseInv'
  OBVIOUS
<1>1. Push /\ UNCHANGED <<bodyVars, httpVars, taken>>
  BY DEF PushMessage, Push
<1>2. IInv'
  BY <1>1, NextKeepsIInv DEF SseInv, Next
<1>3. OneIsLive'
  BY <1>1 DEF SseInv, OneIsLive, IsLive, Push, bodyVars
<1>4. ReadersFit'
  BY <1>1, WakeType DEF SseInv, ReadersFit, ReaderFits, IsLive, Push, Wake, bodyVars,
                        httpVars, IInv, TypeOK
<1> QED BY <1>1, <1>2, <1>3, <1>4, MailboxOnly DEF SseInv

LEMMA FinishKeepsSseInv == SseInv /\ FinishMailbox => SseInv'
<1> SUFFICES ASSUME SseInv, FinishMailbox PROVE SseInv'
  OBVIOUS
<1>1. Finish /\ UNCHANGED <<bodyVars, httpVars, taken>>
  BY DEF FinishMailbox, Finish
<1>2. IInv'
  BY <1>1, NextKeepsIInv DEF SseInv, Next
<1>3. OneIsLive'
  BY <1>1 DEF SseInv, OneIsLive, IsLive, Finish, bodyVars
<1>4. ReadersFit'
  BY <1>1, WakeType DEF SseInv, ReadersFit, ReaderFits, IsLive, Finish, Wake, bodyVars,
                        httpVars, IInv, TypeOK
<1> QED BY <1>1, <1>2, <1>3, <1>4, MailboxOnly DEF SseInv

LEMMA AbortKeepsSseInv == SseInv /\ AbortMailbox => SseInv'
<1> SUFFICES ASSUME SseInv, AbortMailbox PROVE SseInv'
  OBVIOUS
<1> USE DEF SseInv, IInv, TypeOK
<1>1. CASE \E l \in Holder : l \notin isReaderWaiting
  <2>1. PICK l \in Leases : activeLease = l /\ l \notin isReaderWaiting
    BY <1>1 DEF Holder
  <2>2. /\ isAborted' = TRUE /\ isFinished' = TRUE
        /\ queue' = <<>> /\ buffered' = 0
        /\ stopped' = stopped \cup {l}
        /\ activeLease' = NoLease
        /\ leases' = [leases EXCEPT ![l] = "released"]
        /\ reader' = Wake(l)
        /\ body' = [body EXCEPT ![l] = "errored"]
        /\ chunks' = [chunks EXCEPT ![l] = <<>>]
        /\ UNCHANGED <<accepted, taken, isReaderWaiting, receiving, result, httpVars>>
    BY <1>1, <2>1 DEF AbortMailbox, EndBody, Holder
  <2>3. body[l] = "open"
    BY <2>1 DEF OneIsLive
  <2>4. IInv'
    <3>1. TypeOK'
      <4>1. reader' \in [Leases -> {"idle", "waiting", "woken"}]
        BY <2>2, WakeType
      <4>2. queue' \in Seq(1 .. MaxMessages) /\ buffered' \in Int
        BY <2>2
      <4>3. isFinished' \in BOOLEAN /\ isAborted' \in BOOLEAN
        BY <2>2
      <4> QED BY <2>2, <4>1, <4>2, <4>3
    <3>2. InOrderOnceEach' /\ CountIsExact'
      BY <2>2 DEF InOrderOnceEach, CountIsExact
    <3>3. NoLostWakeup'
      BY <2>1, <2>2, WakeType DEF NoLostWakeup
    <3>4. OneHolder'
      BY <2>1, <2>2 DEF OneHolder
    <3> QED BY <2>2, <3>1, <3>2, <3>3, <3>4
  <2>5. SseTypes'
    BY <2>2 DEF SseTypes, httpVars
  <2>6. OneIsLive'
    <3>1. body'[l] = "errored" /\ \A k \in Leases \ {l} : body'[k] = body[k]
      BY <2>2 DEF SseTypes
    <3>2. leases'[l] # "unused" /\ \A k \in Leases \ {l} : leases'[k] = leases[k]
      BY <2>2
    <3>3. \A k, j \in Leases : IsLive(k)' /\ IsLive(j)' => k = j
      BY <2>3, <3>1 DEF OneIsLive, IsLive
    <3>4. ASSUME NEW k \in Leases
          PROVE  /\ body'[k] = "open" <=> activeLease' = k
                 /\ body'[k] = "none" <=> leases'[k] = "unused"
                 /\ isAborted'
      <4>1. CASE k = l
        BY <4>1, <2>2, <3>1, <3>2
      <4>2. CASE k # l
        BY <4>2, <2>1, <2>2, <3>1, <3>2 DEF OneIsLive
      <4> QED BY <4>1, <4>2
    <3> QED BY <3>3, <3>4 DEF OneIsLive
  <2>7. ReadersFit'
    BY <2>2, <2>3 DEF ReadersFit, ReaderFits, IsLive, Wake, SseTypes, httpVars
  <2>8. NewestIsHeld'
    BY <2>2 DEF NewestIsHeld, HasOne, SseTypes, httpVars
  <2>9. WrittenInOrder'
    BY <2>2 DEF WrittenInOrder, httpVars
  <2>10. FewAtRisk'
    <3>1. OthersAsBefore(l) /\ InTransit(l)'
      BY <2>2 DEF OthersAsBefore, InTransit, SseTypes, httpVars
    <3>2. taken' = taken /\ delivered' = delivered
      BY <2>2 DEF httpVars
    <3> QED BY <3>1, <3>2, Lengths, RiskOfOne
  <2> QED BY <2>4, <2>5, <2>6, <2>7, <2>8, <2>9, <2>10
<1>2. CASE ~ \E l \in Holder : l \notin isReaderWaiting
  <2>1. Abort /\ UNCHANGED <<bodyVars, httpVars, taken>>
    BY <1>2 DEF AbortMailbox, Abort
  <2>2. IInv'
    BY <2>1, NextKeepsIInv DEF Next
  <2>3. OneIsLive'
    BY <2>1 DEF OneIsLive, IsLive, Abort, bodyVars
  <2>4. ReadersFit'
    BY <2>1, WakeType DEF ReadersFit, ReaderFits, IsLive, Abort, Wake, bodyVars, httpVars
  <2> QED BY <2>1, <2>2, <2>3, <2>4, MailboxOnly
<1> QED BY <1>1, <1>2

-----------------------------------------------------------------------------
(* What a lease keeps when it is released, or was before. *)
LEMMA ReleaseLeaseKeeps ==
    ASSUME SseInv, NEW l \in Leases, ReleaseLease(l)
    PROVE  /\ IInv'
           /\ UNCHANGED <<taken, isAborted, stopped>>
           /\ activeLease' # l
           /\ \A k \in Leases \ {l} : (activeLease' = k <=> activeLease = k) /\ leases'[k] = leases[k]
           /\ leases[l] # "unused" => leases'[l] # "unused"
           /\ \A k \in Leases : reader'[k] # "idle" <=> reader[k] # "idle"
<1> USE DEF SseInv, IInv, TypeOK
<1>1. CASE activeLease = l
  <2>1. Release(l)
    BY <1>1 DEF ReleaseLease
  <2>2. IInv'
    BY <2>1, NextKeepsIInv DEF Next
  <2> QED BY <1>1, <2>1, <2>2 DEF Release, Wake
<1>2. CASE activeLease # l
  <2>1. UNCHANGED vars
    BY <1>2 DEF ReleaseLease
  <2>2. IInv'
    BY <2>1, NextKeepsIInv
  <2> QED BY <1>2, <2>1, <2>2 DEF vars
<1> QED BY <1>1, <1>2

(* The response is over and the body is cancelled: the message it has, if  *)
(* any, stays at risk.                                                     *)
LEMMA LeavingKeepsSseInv ==
    ASSUME SseInv, NEW l \in Leases, CancelBody(l),
           http' = [http EXCEPT ![l] = "over"],
           chunk' = [chunk EXCEPT ![l] = KeepAlive],
           res' \in [Leases -> {"open", "ended", "closed"}],
           UNCHANGED <<isReaderWaiting, receiving, result, delivered>>
    PROVE  SseInv'
<1> USE DEF SseInv, KeepAlive
<1>1. CASE body[l] = "open"
  <2>1. /\ body' = [body EXCEPT ![l] = "cancelled"]
        /\ chunks' = [chunks EXCEPT ![l] = <<>>]
        /\ ReleaseLease(l)
    BY <1>1 DEF CancelBody
  <2>2. /\ IInv'
        /\ UNCHANGED <<taken, isAborted, stopped>>
        /\ activeLease' # l
        /\ \A k \in Leases \ {l} : (activeLease' = k <=> activeLease = k) /\ leases'[k] = leases[k]
        /\ leases[l] # "unused" => leases'[l] # "unused"
        /\ \A k \in Leases : reader'[k] # "idle" <=> reader[k] # "idle"
    BY <2>1, ReleaseLeaseKeeps
  <2>3. SseTypes'
    BY <2>1 DEF SseTypes
  <2>4. OneIsLive'
    <3>1. body'[l] = "cancelled" /\ \A k \in Leases \ {l} : body'[k] = body[k]
      BY <2>1 DEF SseTypes
    <3>2. leases'[l] # "unused"
      BY <1>1, <2>2 DEF OneIsLive
    <3>3. \A k, j \in Leases : IsLive(k)' /\ IsLive(j)' => k = j
      BY <3>1 DEF OneIsLive, IsLive
    <3>4. ASSUME NEW k \in Leases
          PROVE  /\ body'[k] = "open" <=> activeLease' = k
                 /\ body'[k] = "none" <=> leases'[k] = "unused"
                 /\ body'[k] = "errored" \/ receiving'[k] = "error" \/ k \in stopped' => isAborted'
      <4>1. CASE k = l
        BY <4>1, <2>2, <3>1, <3>2 DEF OneIsLive
      <4>2. CASE k # l
        BY <4>2, <2>2, <3>1 DEF OneIsLive
      <4> QED BY <4>1, <4>2
    <3> QED BY <3>3, <3>4 DEF OneIsLive
  <2>5. ReadersFit'
    BY <1>1, <2>1, <2>2 DEF ReadersFit, ReaderFits, IsLive, SseTypes
  <2>6. NewestIsHeld'
    BY <2>1, <2>2 DEF NewestIsHeld, HasOne, SseTypes
  <2>7. WrittenInOrder'
    BY <2>2 DEF WrittenInOrder
  <2>8. FewAtRisk'
    <3>1. OthersAsBefore(l) /\ InTransit(l)'
      BY <2>1 DEF OthersAsBefore, InTransit, SseTypes
    <3> QED BY <3>1, <2>2, Lengths, RiskOfOne
  <2> QED BY <2>2, <2>3, <2>4, <2>5, <2>6, <2>7, <2>8
<1>2. CASE body[l] # "open"
  <2>1. UNCHANGED <<body, chunks, vars>>
    BY <1>2 DEF CancelBody
  <2>2. IInv'
    BY <2>1, NextKeepsIInv
  <2>3. SseTypes'
    <3>1. /\ http' \in [Leases -> {"none", "next", "reading", "chunk", "draining", "over"}]
          /\ chunk' \in [Leases -> 0 .. MaxMessages]
      BY DEF SseTypes
    <3> QED BY <2>1, <3>1 DEF SseTypes
  <2>4. OneIsLive'
    BY <2>1 DEF OneIsLive, IsLive, vars
  <2>5. ReadersFit'
    BY <1>2, <2>1 DEF ReadersFit, ReaderFits, IsLive, SseTypes, vars
  <2>6. NewestIsHeld'
    BY <2>1 DEF NewestIsHeld, HasOne, SseTypes, vars
  <2>7. WrittenInOrder'
    BY <2>1 DEF WrittenInOrder, vars
  <2>8. FewAtRisk'
    <3>1. OthersAsBefore(l)
      BY <2>1 DEF OthersAsBefore, InTransit, SseTypes
    <3>2. InTransit(l) => InTransit(l)'
      BY <1>2, <2>1 DEF InTransit, SseTypes, ReadersFit, ReaderFits, IsLive
    <3> QED BY <3>1, <3>2, <2>1, Lengths, RiskOfOne DEF vars
  <2> QED BY <2>2, <2>3, <2>4, <2>5, <2>6, <2>7, <2>8
<1> QED BY <1>1, <1>2

LEMMA ClientLeavesKeepsSseInv ==
    ASSUME SseInv, NEW l \in Leases, ClientLeaves(l) PROVE SseInv'
<1>1. res' \in [Leases -> {"open", "ended", "closed"}]
  BY DEF ClientLeaves, SseInv, SseTypes
<1> QED BY <1>1, LeavingKeepsSseInv DEF ClientLeaves

LEMMA GetKeepsSseInv ==
    ASSUME SseInv, NEW l \in Leases, NEW early \in BOOLEAN, Get(l, early) PROVE SseInv'
<1> USE DEF SseInv
<1>1. /\ TryAcquire(l)
      /\ body' = [body EXCEPT ![l] = "open"]
      /\ http' = [http EXCEPT ![l] = "next"]
      /\ res' = [res EXCEPT ![l] = IF early THEN "closed" ELSE "open"]
      /\ UNCHANGED <<isReaderWaiting, receiving, result, chunks, chunk, delivered>>
  BY DEF Get
<1>2. /\ leases[l] = "unused" /\ ~isAborted /\ activeLease = NoLease
      /\ activeLease' = l
      /\ leases' = [leases EXCEPT ![l] = "held"]
      /\ UNCHANGED <<isAborted, reader, stopped, taken>>
  BY <1>1 DEF TryAcquire, Acquirable
<1>3. IInv'
  BY <1>1, NextKeepsIInv DEF Next
<1>4. body[l] = "none" /\ receiving[l] = "no" /\ chunk[l] = KeepAlive /\ chunks[l] = <<>>
  BY <1>2 DEF OneIsLive, ReadersFit, ReaderFits, IsLive
<1>5. SseTypes'
  BY <1>1 DEF SseTypes
<1>6. OneIsLive'
  <2>1. \A k \in Leases : ~IsLive(k)
    BY <1>2 DEF OneIsLive, IsLive
  <2> QED BY <1>1, <1>2, <2>1 DEF OneIsLive, IsLive, SseTypes, IInv, TypeOK
<1>7. ReadersFit'
  <2>1. l \notin isReaderWaiting
    BY <1>4 DEF ReadersFit, ReaderFits
  <2> QED BY <1>1, <1>2, <1>4, <2>1 DEF ReadersFit, ReaderFits, IsLive, SseTypes
<1>8. NewestIsHeld'
  BY <1>1, <1>2, <1>4 DEF NewestIsHeld, HasOne, SseTypes
<1>9. WrittenInOrder'
  BY <1>1, <1>2 DEF WrittenInOrder
<1>10. FewAtRisk'
  <2>1. OthersAsBefore(l) /\ (InTransit(l) => InTransit(l)')
    BY <1>1, <1>4 DEF OthersAsBefore, InTransit, SseTypes
  <2> QED BY <1>1, <1>2, <2>1, Lengths, RiskOfOne
<1> QED BY <1>3, <1>5, <1>6, <1>7, <1>8, <1>9, <1>10

-----------------------------------------------------------------------------
(* A round of receive(), for a deliver() that has no message yet: it may   *)
(* take one, which is the newest then, and the only one on its way.        *)
LEMMA LooksKeepSseInv ==
    ASSUME SseInv, IInv', NEW l \in Leases, Look(l), Receives(l),
           UNCHANGED <<activeLease, isFinished, isAborted, leases, stopped, accepted>>,
           UNCHANGED <<body, chunks, chunk, res, delivered>>,
           chunk[l] = KeepAlive, chunks[l] = <<>>,
           body[l] \notin {"none", "closed"}, receiving[l] # "message",
           \/ UNCHANGED <<http, isReaderWaiting>>
           \/ /\ http' = [http EXCEPT ![l] = "reading"]
              /\ isReaderWaiting' = isReaderWaiting \cup {l}
    PROVE  SseInv'
<1> USE DEF SseInv
<1>1. /\ http' \in [Leases -> {"none", "next", "reading", "chunk", "draining", "over"}]
      /\ isReaderWaiting' \subseteq Leases
      /\ \A k \in Leases : http'[k] # http[k] => http'[k] = "reading" /\ k = l
      /\ \A k \in Leases \ {l} : (k \in isReaderWaiting' <=> k \in isReaderWaiting)
      /\ (l \in isReaderWaiting' => http'[l] = "reading") \/ UNCHANGED <<http, isReaderWaiting>>
  BY DEF SseTypes
<1>2. /\ receiving' = [receiving EXCEPT ![l] = Received(l)]
      /\ result' = [result EXCEPT ![l] = IF Received(l) = "message" THEN Head(queue) ELSE KeepAlive]
      /\ Received(l) \in {"pending", "message", "done", "error"}
  BY DEF Receives, Received
<1>3. \A k \in Leases \ {l} : /\ receiving'[k] = receiving[k] /\ result'[k] = result[k]
                              /\ reader'[k] = reader[k]
  <2>1. \A k \in Leases \ {l} : receiving'[k] = receiving[k] /\ result'[k] = result[k]
    BY <1>2 DEF SseTypes
  <2>2. PICK r : reader' = [reader EXCEPT ![l] = r]
    BY Zenon DEF Look
  <2>3. \A k \in Leases \ {l} : reader'[k] = reader[k]
    BY <2>2 DEF IInv, TypeOK
  <2> QED BY <2>1, <2>3
<1>4. receiving'[l] = Received(l)
  BY <1>2 DEF SseTypes
<1>5. reader'[l] # "idle" => Received(l) = "pending"
  BY DEF Look, Received, IInv, TypeOK
<1>6. Received(l) = "error" => isAborted
  BY DEF Received
<1>7. OneIsLive'
  <2>1. ASSUME NEW k \in Leases, receiving'[k] = "error" PROVE isAborted
    BY <2>1, <1>3, <1>4, <1>6 DEF OneIsLive
  <2> QED BY <2>1 DEF OneIsLive, IsLive
<1>8. CASE Received(l) = "message"
  <2>1. /\ activeLease = l /\ ~isAborted /\ queue # <<>>
        /\ taken' = Append(taken, Head(queue))
    BY <1>8 DEF Received, Over, Look
  <2>2. /\ Head(queue) = Len(taken) + 1 /\ Head(queue) \in 1 .. MaxMessages
        /\ Len(taken') = Len(taken) + 1 /\ Len(taken) \in Nat
    BY <2>1 DEF IInv, TypeOK, InOrderOnceEach
  <2>3. /\ body[l] = "open"
        /\ \A k \in Leases \ {l} : ~IsLive(k)
    BY <2>1 DEF OneIsLive, IsLive
  <2>4. result'[l] = Len(taken')
    BY <1>2, <1>8, <2>2 DEF SseTypes
  <2>5. SseTypes'
    <3>1. result' \in [Leases -> 0 .. MaxMessages]
      BY <1>2, <1>8, <2>2 DEF SseTypes
    <3>2. receiving' \in [Leases -> {"no", "pending", "message", "done", "error"}]
      BY <1>2 DEF SseTypes
    <3> QED BY <1>1, <3>1, <3>2 DEF SseTypes
  <2>6. ReadersFit'
    <3>1. ASSUME NEW k \in Leases \ {l} PROVE ReaderFits(k)'
      BY <1>1, <1>3 DEF ReadersFit, ReaderFits, IsLive
    <3>2. ReaderFits(l)'
      BY <1>1, <1>4, <1>5, <2>2, <2>4 DEF ReadersFit, ReaderFits, KeepAlive
    <3> QED BY <3>1, <3>2 DEF ReadersFit, ReaderFits
  <2>7. NewestIsHeld'
    <3>1. ASSUME NEW k \in Leases \ {l} PROVE ~HasOne(k)'
      BY <2>3 DEF ReadersFit, ReaderFits, HasOne, IsLive
    <3>2. \A i \in 1 .. Len(delivered') : delivered'[i] < Len(taken')
      BY <2>2, Lengths DEF WrittenInOrder
    <3> QED BY <2>4, <3>1, <3>2 DEF NewestIsHeld, HasOne
  <2>8. WrittenInOrder'
    BY <2>2, Lengths DEF WrittenInOrder
  <2>9. FewAtRisk'
    <3>1. OthersAsBefore(l)
      BY <1>3 DEF OthersAsBefore, InTransit
    <3>2. ~InTransit(l) /\ InTransit(l)'
      BY <1>4, <1>8, <2>3 DEF InTransit
    <3> QED BY <2>2, <3>1, <3>2, Lengths, RiskOfOne
  <2> QED BY <1>7, <2>5, <2>6, <2>7, <2>8, <2>9
<1>9. CASE Received(l) # "message"
  <2>1. taken' = taken
    BY <1>9 DEF Received, Over, Look
  <2>2. SseTypes'
    <3>1. result' \in [Leases -> 0 .. MaxMessages]
      BY <1>2, <1>9 DEF SseTypes, KeepAlive
    <3>2. receiving' \in [Leases -> {"no", "pending", "message", "done", "error"}]
      BY <1>2 DEF SseTypes
    <3> QED BY <1>1, <3>1, <3>2 DEF SseTypes
  <2>3. ReadersFit'
    <3>1. ASSUME NEW k \in Leases \ {l} PROVE ReaderFits(k)'
      BY <1>1, <1>3 DEF ReadersFit, ReaderFits, IsLive
    <3>2. ReaderFits(l)'
      BY <1>1, <1>4, <1>5, <1>9 DEF ReadersFit, ReaderFits
    <3> QED BY <3>1, <3>2 DEF ReadersFit, ReaderFits
  <2>4. NewestIsHeld'
    <3>1. \A k \in Leases \ {l} : HasOne(k)' <=> HasOne(k)
      BY <1>3 DEF HasOne
    <3>2. ~HasOne(l)'
      BY <1>4, <1>9 DEF HasOne
    <3> QED BY <1>3, <2>1, <3>1, <3>2 DEF NewestIsHeld, HasOne
  <2>5. WrittenInOrder'
    BY <2>1 DEF WrittenInOrder
  <2>6. FewAtRisk'
    <3>1. OthersAsBefore(l)
      BY <1>3 DEF OthersAsBefore, InTransit
    <3>2. InTransit(l) => InTransit(l)'
      BY DEF InTransit
    <3> QED BY <2>1, <3>1, <3>2, Lengths, RiskOfOne
  <2> QED BY <1>7, <2>2, <2>3, <2>4, <2>5, <2>6
<1> QED BY <1>8, <1>9

LEMMA ResumeKeepsSseInv ==
    ASSUME SseInv, NEW l \in Leases, ResumeReceive(l) PROVE SseInv'
<1>1. /\ Resume(l) /\ Look(l) /\ Receives(l) /\ reader[l] = "woken"
      /\ UNCHANGED <<activeLease, isFinished, isAborted, leases, stopped, accepted>>
      /\ UNCHANGED <<body, isReaderWaiting, chunks, http, chunk, res, delivered>>
  BY DEF ResumeReceive, Resume, httpVars
<1>2. IInv'
  BY <1>1, NextKeepsIInv DEF SseInv, Next
<1>3. receiving[l] = "pending"
  BY <1>1 DEF SseInv, ReadersFit, ReaderFits
<1>4. chunk[l] = KeepAlive /\ chunks[l] = <<>> /\ body[l] \notin {"none", "closed"}
  BY <1>3 DEF SseInv, ReadersFit, ReaderFits
<1> QED BY <1>1, <1>2, <1>3, <1>4, LooksKeepSseInv

(* A read that starts no receive(): the reader has a chunk, or waits. *)
LEMMA QuietReadKeepsSseInv ==
    ASSUME SseInv, NEW l \in Leases, http[l] = "next",
           UNCHANGED <<vars, body, receiving, result, res, delivered>>,
           \/ /\ chunks[l] # <<>>
              /\ http' = [http EXCEPT ![l] = "chunk"]
              /\ chunk' = [chunk EXCEPT ![l] = Head(chunks[l])]
              /\ chunks' = [chunks EXCEPT ![l] = Tail(@)]
              /\ isReaderWaiting' = isReaderWaiting
           \/ /\ http' = [http EXCEPT ![l] = "reading"]
              /\ UNCHANGED <<chunk, chunks>>
              /\ \/ isReaderWaiting' = isReaderWaiting
                 \/ isReaderWaiting' = isReaderWaiting \cup {l} /\ body[l] = "open"
    PROVE  SseInv'
<1> USE DEF SseInv
<1>1. IInv' /\ taken' = taken
  BY NextKeepsIInv DEF vars
<1>2. OneIsLive'
  BY DEF OneIsLive, IsLive, vars
<1>3. WrittenInOrder'
  BY <1>1 DEF WrittenInOrder
<1>4. CASE /\ chunks[l] # <<>>
           /\ http' = [http EXCEPT ![l] = "chunk"]
           /\ chunk' = [chunk EXCEPT ![l] = Head(chunks[l])]
           /\ chunks' = [chunks EXCEPT ![l] = Tail(@)]
           /\ isReaderWaiting' = isReaderWaiting
  <2>1. chunks[l] = <<Len(taken)>> /\ Len(taken) \in 1 .. MaxMessages
    <3>1. chunks[l] = <<Len(taken)>>
      BY <1>4 DEF NewestIsHeld
    <3>2. chunks[l] \in Seq(1 .. MaxMessages)
      BY DEF SseTypes
    <3> QED BY <3>1, <3>2
  <2>2. Head(chunks[l]) = Len(taken) /\ Tail(chunks[l]) = <<>>
    BY <2>1
  <2>3. chunk'[l] = Len(taken) /\ chunks'[l] = <<>> /\ http'[l] = "chunk"
    BY <1>4, <2>2 DEF SseTypes
  <2>4. \A k \in Leases \ {l} : chunk'[k] = chunk[k] /\ chunks'[k] = chunks[k] /\ http'[k] = http[k]
    BY <1>4 DEF SseTypes
  <2>5. SseTypes'
    <3>1. chunk' \in [Leases -> 0 .. MaxMessages]
      BY <1>4, <2>1, <2>2 DEF SseTypes
    <3>2. chunks' \in [Leases -> Seq(1 .. MaxMessages)]
      BY <1>4, <2>2 DEF SseTypes
    <3>3. http' \in [Leases -> {"none", "next", "reading", "chunk", "draining", "over"}]
      BY <1>4 DEF SseTypes
    <3> QED BY <1>4, <3>1, <3>2, <3>3 DEF SseTypes
  <2>6. ReadersFit'
    <3>1. ASSUME NEW k \in Leases \ {l} PROVE ReaderFits(k)'
      BY <1>4, <2>4 DEF ReadersFit, ReaderFits, IsLive, vars
    <3>2. ReaderFits(l)'
      <4>1. IsLive(l) /\ receiving[l] = "no" /\ (body[l] = "open" => l \notin isReaderWaiting)
        BY <1>4 DEF ReadersFit, ReaderFits
      <4> QED BY <1>4, <2>3, <4>1 DEF ReadersFit, ReaderFits, IsLive, vars
    <3> QED BY <3>1, <3>2 DEF ReadersFit
  <2>7. NewestIsHeld'
    BY <1>1, <1>4, <2>3, <2>4 DEF NewestIsHeld, HasOne
  <2>8. FewAtRisk'
    <3>1. OthersAsBefore(l)
      BY <2>4 DEF OthersAsBefore, InTransit
    <3>2. InTransit(l)'
      BY <2>1, <2>3 DEF InTransit, KeepAlive
    <3> QED BY <1>1, <3>1, <3>2, Lengths, RiskOfOne
  <2> QED BY <1>1, <1>2, <1>3, <2>5, <2>6, <2>7, <2>8
<1>5. CASE /\ http' = [http EXCEPT ![l] = "reading"]
           /\ UNCHANGED <<chunk, chunks>>
           /\ \/ isReaderWaiting' = isReaderWaiting
              \/ isReaderWaiting' = isReaderWaiting \cup {l} /\ body[l] = "open"
  <2>1. SseTypes'
    BY <1>5 DEF SseTypes
  <2>2. ReadersFit'
    <3>1. ASSUME NEW k \in Leases \ {l} PROVE ReaderFits(k)'
      BY <1>5 DEF ReadersFit, ReaderFits, IsLive, vars, SseTypes
    <3>2. ReaderFits(l)'
      BY <1>5 DEF ReadersFit, ReaderFits, IsLive, vars, SseTypes
    <3> QED BY <3>1, <3>2 DEF ReadersFit
  <2>3. NewestIsHeld'
    BY <1>1, <1>5 DEF NewestIsHeld, HasOne
  <2>4. FewAtRisk'
    BY <1>1, <1>5 DEF FewAtRisk, AtRisk, InTransit
  <2> QED BY <1>1, <1>2, <1>3, <2>1, <2>2, <2>3, <2>4
<1> QED BY <1>4, <1>5

LEMMA ReadKeepsSseInv ==
    ASSUME SseInv, NEW l \in Leases, Read(l) PROVE SseInv'
<1>1. http[l] = "next" /\ UNCHANGED <<body, res, delivered>>
  BY DEF Read
<1>2. CASE chunks[l] # <<>>
  BY <1>1, <1>2, QuietReadKeepsSseInv DEF Read
<1>3. CASE chunks[l] = <<>> /\ body[l] = "open" /\ receiving[l] = "no"
  <2>1. /\ http' = [http EXCEPT ![l] = "reading"]
        /\ isReaderWaiting' = isReaderWaiting \cup {l}
        /\ UNCHANGED <<chunk, chunks>>
        /\ Receives(l) /\ Receive(l)
    BY <1>3 DEF Read
  <2>2. IInv'
    BY <2>1, NextKeepsIInv DEF SseInv, Next
  <2>3. chunk[l] = KeepAlive
    BY <1>1 DEF SseInv, ReadersFit, ReaderFits
  <2>4. Look(l) /\ UNCHANGED <<activeLease, isFinished, isAborted, leases, stopped, accepted>>
    BY <2>1 DEF Receive
  <2> QED BY <1>1, <1>3, <2>1, <2>2, <2>3, <2>4, LooksKeepSseInv
<1>4. CASE chunks[l] = <<>> /\ (body[l] # "open" \/ receiving[l] # "no")
  <2>1. /\ http' = [http EXCEPT ![l] = "reading"]
        /\ UNCHANGED <<chunk, chunks, vars, receiving, result>>
        /\ \/ isReaderWaiting' = isReaderWaiting
           \/ isReaderWaiting' = isReaderWaiting \cup {l} /\ body[l] = "open"
    BY <1>4 DEF Read
  <2> QED BY <1>1, <2>1, QuietReadKeepsSseInv
<1> QED BY <1>2, <1>3, <1>4

-----------------------------------------------------------------------------
(* The result of receive() is dropped, since the body is over. *)
LEMMA DroppingKeepsSseInv ==
    ASSUME SseInv, NEW l \in Leases, receiving[l] # "no", body[l] # "open",
           receiving' = [receiving EXCEPT ![l] = "no"],
           result' = [result EXCEPT ![l] = KeepAlive],
           receiving[l] # "pending",
           UNCHANGED <<vars, body, isReaderWaiting, chunks, httpVars>>
    PROVE  SseInv'
<1> USE DEF SseInv
<1>1. IInv' /\ taken' = taken
  BY NextKeepsIInv DEF vars
<1>2. /\ receiving'[l] = "no"
      /\ \A k \in Leases \ {l} : receiving'[k] = receiving[k] /\ result'[k] = result[k]
  BY DEF SseTypes
<1>3. SseTypes'
  BY DEF SseTypes, httpVars, KeepAlive
<1>4. OneIsLive'
  BY <1>2 DEF OneIsLive, IsLive, vars
<1>5. ReadersFit'
  BY <1>2 DEF ReadersFit, ReaderFits, IsLive, vars, httpVars
<1>6. NewestIsHeld'
  BY <1>1, <1>2 DEF NewestIsHeld, HasOne, httpVars
<1>7. WrittenInOrder'
  BY <1>1 DEF WrittenInOrder, httpVars
<1>8. FewAtRisk'
  <2>1. OthersAsBefore(l)
    BY <1>2 DEF OthersAsBefore, InTransit, httpVars
  <2>2. body[l] \in {"errored", "cancelled"}
    BY DEF ReadersFit, ReaderFits, SseTypes
  <2>3. InTransit(l)'
    BY <2>2 DEF InTransit
  <2> QED BY <1>1, <2>1, <2>3, Lengths, RiskOfOne DEF httpVars
<1> QED BY <1>1, <1>3, <1>4, <1>5, <1>6, <1>7, <1>8

(* receive() said that there is nothing more, and the body ends. *)
LEMMA EndingKeepsSseInv ==
    ASSUME SseInv, NEW l \in Leases, receiving[l] \in {"done", "error"}, body[l] = "open",
           receiving' = [receiving EXCEPT ![l] = "no"],
           result' = [result EXCEPT ![l] = KeepAlive],
           EndBody(l, IF receiving[l] = "done" THEN "closed" ELSE "errored"),
           ReleaseLease(l),
           UNCHANGED <<isReaderWaiting, httpVars>>
    PROVE  SseInv'
<1> USE DEF SseInv
<1>1. /\ IInv'
      /\ UNCHANGED <<taken, isAborted, stopped>>
      /\ activeLease' # l
      /\ \A k \in Leases \ {l} : (activeLease' = k <=> activeLease = k) /\ leases'[k] = leases[k]
      /\ leases[l] # "unused" => leases'[l] # "unused"
      /\ \A k \in Leases : reader'[k] # "idle" <=> reader[k] # "idle"
  BY ReleaseLeaseKeeps
<1>2. /\ receiving'[l] = "no" /\ body'[l] = IF receiving[l] = "done" THEN "closed" ELSE "errored"
      /\ chunks'[l] = <<>> /\ chunk'[l] = KeepAlive
      /\ \A k \in Leases \ {l} : /\ receiving'[k] = receiving[k] /\ result'[k] = result[k]
                                 /\ body'[k] = body[k] /\ chunks'[k] = chunks[k]
  BY DEF EndBody, SseTypes, ReadersFit, ReaderFits, httpVars
<1>3. SseTypes'
  <2>1. body' \in [Leases -> {"none", "open", "closed", "errored", "cancelled"}]
    BY DEF EndBody, SseTypes
  <2>2. chunks' \in [Leases -> Seq(1 .. MaxMessages)]
    BY DEF EndBody, SseTypes
  <2>3. receiving' \in [Leases -> {"no", "pending", "message", "done", "error"}]
    BY DEF SseTypes
  <2>4. result' \in [Leases -> 0 .. MaxMessages]
    BY DEF SseTypes, KeepAlive
  <2> QED BY <2>1, <2>2, <2>3, <2>4 DEF SseTypes, httpVars
<1>4. OneIsLive'
  <2>1. leases'[l] # "unused"
    BY <1>1 DEF OneIsLive
  <2>2. \A k, j \in Leases : IsLive(k)' /\ IsLive(j)' => k = j
    BY <1>2 DEF OneIsLive, IsLive
  <2>3. ASSUME NEW k \in Leases \ {l}
        PROVE  /\ body'[k] = "open" <=> activeLease' = k
               /\ body'[k] = "none" <=> leases'[k] = "unused"
               /\ body'[k] = "errored" \/ receiving'[k] = "error" \/ k \in stopped' => isAborted'
    BY <1>1, <1>2 DEF OneIsLive
  <2>4. /\ body'[l] = "open" <=> activeLease' = l
        /\ body'[l] = "none" <=> leases'[l] = "unused"
        /\ body'[l] = "errored" \/ receiving'[l] = "error" \/ l \in stopped' => isAborted'
    BY <1>1, <1>2, <2>1 DEF OneIsLive
  <2> QED BY <2>2, <2>3, <2>4 DEF OneIsLive
<1>5. ReadersFit'
  <2>1. ASSUME NEW k \in Leases \ {l} PROVE ReaderFits(k)'
    BY <1>1, <1>2 DEF ReadersFit, ReaderFits, IsLive, httpVars
  <2>2. ReaderFits(l)'
    BY <1>1, <1>2 DEF ReadersFit, ReaderFits, IsLive, httpVars
  <2> QED BY <2>1, <2>2 DEF ReadersFit
<1>6. NewestIsHeld'
  <2>1. ~HasOne(l)' /\ \A k \in Leases \ {l} : HasOne(k)' <=> HasOne(k)
    BY <1>2 DEF HasOne, httpVars
  <2> QED BY <1>1, <1>2, <2>1 DEF NewestIsHeld, HasOne, httpVars
<1>7. WrittenInOrder'
  BY <1>1 DEF WrittenInOrder, httpVars
<1>8. FewAtRisk'
  <2>1. OthersAsBefore(l)
    BY <1>2 DEF OthersAsBefore, InTransit, httpVars
  <2>2. InTransit(l) => InTransit(l)'
    BY DEF InTransit, ReadersFit, ReaderFits
  <2> QED BY <1>1, <2>1, <2>2, Lengths, RiskOfOne DEF httpVars
<1> QED BY <1>1, <1>3, <1>4, <1>5, <1>6, <1>7, <1>8

(* The message goes to the reader, or into the body until the reader asks. *)
LEMMA EnqueuingKeepsSseInv ==
    ASSUME SseInv, NEW l \in Leases, receiving[l] = "message", body[l] = "open",
           receiving' = [receiving EXCEPT ![l] = "no"],
           result' = [result EXCEPT ![l] = KeepAlive],
           isReaderWaiting' = isReaderWaiting \ {l},
           Enqueue(l, result[l]),
           UNCHANGED <<vars, body, res, delivered>>
    PROVE  SseInv'
<1> USE DEF SseInv
<1>1. IInv' /\ taken' = taken
  BY NextKeepsIInv DEF vars
<1>2. /\ result[l] = Len(taken) /\ result[l] \in 1 .. MaxMessages
      /\ chunk[l] = KeepAlive /\ chunks[l] = <<>>
      /\ \A i \in 1 .. Len(delivered) : delivered[i] < Len(taken)
  BY DEF NewestIsHeld, HasOne, ReadersFit, ReaderFits, SseTypes, KeepAlive
<1>3. /\ receiving'[l] = "no" /\ l \notin isReaderWaiting'
      /\ \/ http'[l] = "chunk" /\ chunk'[l] = Len(taken) /\ chunks'[l] = <<>>
         \/ http'[l] = http[l] /\ chunk'[l] = KeepAlive /\ chunks'[l] = <<Len(taken)>>
      /\ \A k \in Leases \ {l} : /\ receiving'[k] = receiving[k] /\ result'[k] = result[k]
                                 /\ (k \in isReaderWaiting' <=> k \in isReaderWaiting)
                                 /\ chunks'[k] = chunks[k] /\ chunk'[k] = chunk[k]
                                 /\ http'[k] = http[k]
  BY <1>2 DEF Enqueue, SseTypes
<1>4. SseTypes'
  <2>1. /\ http' \in [Leases -> {"none", "next", "reading", "chunk", "draining", "over"}]
        /\ chunk' \in [Leases -> 0 .. MaxMessages]
    <3>1. result[l] \in 0 .. MaxMessages
      BY <1>2
    <3>2. CASE http[l] = "reading"
      BY <3>1, <3>2 DEF Enqueue, SseTypes
    <3>3. CASE http[l] # "reading"
      BY <3>3 DEF Enqueue, SseTypes
    <3> QED BY <3>2, <3>3
  <2>2. chunks' \in [Leases -> Seq(1 .. MaxMessages)]
    <3>1. CASE http[l] = "reading"
      BY <3>1 DEF Enqueue, SseTypes
    <3>2. CASE http[l] # "reading"
      <4>1. Append(chunks[l], result[l]) \in Seq(1 .. MaxMessages)
        BY <1>2 DEF SseTypes
      <4> QED BY <3>2, <4>1 DEF Enqueue, SseTypes
    <3> QED BY <3>1, <3>2
  <2>3. receiving' \in [Leases -> {"no", "pending", "message", "done", "error"}]
    BY DEF SseTypes
  <2> QED BY <2>1, <2>2, <2>3 DEF SseTypes, KeepAlive
<1>5. OneIsLive'
  BY <1>3 DEF OneIsLive, IsLive, vars
<1>6. ReadersFit'
  <2>1. ASSUME NEW k \in Leases \ {l} PROVE ReaderFits(k)'
    BY <1>3 DEF ReadersFit, ReaderFits, IsLive, vars
  <2>2. ReaderFits(l)'
    BY <1>2, <1>3 DEF ReadersFit, ReaderFits, IsLive, vars
  <2> QED BY <2>1, <2>2 DEF ReadersFit
<1>7. NewestIsHeld'
  <2>1. \A k \in Leases \ {l} : HasOne(k)' <=> HasOne(k)
    BY <1>3 DEF HasOne
  <2> QED BY <1>1, <1>2, <1>3, <2>1 DEF NewestIsHeld, HasOne
<1>8. WrittenInOrder'
  BY <1>1 DEF WrittenInOrder
<1>9. FewAtRisk'
  <2>1. OthersAsBefore(l)
    BY <1>3 DEF OthersAsBefore, InTransit
  <2>2. Len(taken) # KeepAlive /\ <<Len(taken)>> # <<>>
    BY <1>2 DEF KeepAlive
  <2>3. InTransit(l)'
    BY <1>3, <2>2 DEF InTransit
  <2> QED BY <1>1, <2>1, <2>3, Lengths, RiskOfOne
<1> QED BY <1>1, <1>4, <1>5, <1>6, <1>7, <1>8, <1>9

(* The stream was stopped: the message goes to a reader that waits, or is  *)
(* lost, and the body fails.                                               *)
LEMMA StoppingKeepsSseInv ==
    ASSUME SseInv, NEW l \in Leases, receiving[l] = "message", body[l] = "open", l \in stopped,
           receiving' = [receiving EXCEPT ![l] = "no"],
           result' = [result EXCEPT ![l] = KeepAlive],
           isReaderWaiting' = isReaderWaiting \ {l},
           EndBody(l, "errored"), ReleaseLease(l),
           IF http[l] = "reading"
           THEN /\ http' = [http EXCEPT ![l] = "chunk"]
                /\ chunk' = [chunk EXCEPT ![l] = result[l]]
           ELSE UNCHANGED <<http, chunk>>,
           UNCHANGED <<res, delivered>>
    PROVE  SseInv'
<1> USE DEF SseInv
<1>1. /\ IInv'
      /\ UNCHANGED <<taken, isAborted, stopped>>
      /\ activeLease' # l
      /\ \A k \in Leases \ {l} : (activeLease' = k <=> activeLease = k) /\ leases'[k] = leases[k]
      /\ leases[l] # "unused" => leases'[l] # "unused"
      /\ \A k \in Leases : reader'[k] # "idle" <=> reader[k] # "idle"
  BY ReleaseLeaseKeeps
<1>2. /\ result[l] = Len(taken) /\ result[l] \in 1 .. MaxMessages
      /\ chunk[l] = KeepAlive /\ chunks[l] = <<>>
      /\ \A i \in 1 .. Len(delivered) : delivered[i] < Len(taken)
  BY DEF NewestIsHeld, HasOne, ReadersFit, ReaderFits, SseTypes, KeepAlive
<1>3. /\ receiving'[l] = "no" /\ l \notin isReaderWaiting'
      /\ body'[l] = "errored" /\ chunks'[l] = <<>>
      /\ \/ http'[l] = "chunk" /\ chunk'[l] = Len(taken)
         \/ http'[l] = http[l] /\ chunk'[l] = KeepAlive
      /\ \A k \in Leases \ {l} : /\ receiving'[k] = receiving[k] /\ result'[k] = result[k]
                                 /\ (k \in isReaderWaiting' <=> k \in isReaderWaiting)
                                 /\ chunks'[k] = chunks[k] /\ chunk'[k] = chunk[k]
                                 /\ http'[k] = http[k] /\ body'[k] = body[k]
  BY <1>2 DEF EndBody, SseTypes
<1>4. SseTypes'
  <2>1. result[l] \in 0 .. MaxMessages
    BY <1>2
  <2>2. /\ http' \in [Leases -> {"none", "next", "reading", "chunk", "draining", "over"}]
        /\ chunk' \in [Leases -> 0 .. MaxMessages]
    BY <2>1 DEF SseTypes
  <2>3. /\ chunks' \in [Leases -> Seq(1 .. MaxMessages)]
        /\ body' \in [Leases -> {"none", "open", "closed", "errored", "cancelled"}]
    BY DEF EndBody, SseTypes
  <2>4. receiving' \in [Leases -> {"no", "pending", "message", "done", "error"}]
    BY DEF SseTypes
  <2>5. result' \in [Leases -> 0 .. MaxMessages]
    BY DEF SseTypes, KeepAlive
  <2> QED BY <2>2, <2>3, <2>4, <2>5 DEF SseTypes
<1>5. OneIsLive'
  <2>1. leases'[l] # "unused" /\ isAborted
    BY <1>1 DEF OneIsLive
  <2>2. \A k, j \in Leases : IsLive(k)' /\ IsLive(j)' => k = j
    BY <1>3 DEF OneIsLive, IsLive
  <2>3. ASSUME NEW k \in Leases \ {l}
        PROVE  /\ body'[k] = "open" <=> activeLease' = k
               /\ body'[k] = "none" <=> leases'[k] = "unused"
    BY <1>1, <1>3 DEF OneIsLive
  <2>4. /\ body'[l] = "open" <=> activeLease' = l
        /\ body'[l] = "none" <=> leases'[l] = "unused"
    BY <1>1, <1>3, <2>1
  <2> QED BY <1>1, <2>1, <2>2, <2>3, <2>4 DEF OneIsLive
<1>6. ReadersFit'
  <2>1. ASSUME NEW k \in Leases \ {l} PROVE ReaderFits(k)'
    BY <1>1, <1>3 DEF ReadersFit, ReaderFits, IsLive
  <2>2. ReaderFits(l)'
    BY <1>1, <1>3 DEF ReadersFit, ReaderFits, IsLive
  <2> QED BY <2>1, <2>2 DEF ReadersFit
<1>7. NewestIsHeld'
  <2>1. \A k \in Leases \ {l} : HasOne(k)' <=> HasOne(k)
    BY <1>3 DEF HasOne
  <2> QED BY <1>1, <1>2, <1>3, <2>1 DEF NewestIsHeld, HasOne
<1>8. WrittenInOrder'
  BY <1>1 DEF WrittenInOrder
<1>9. FewAtRisk'
  <2>1. OthersAsBefore(l)
    BY <1>3 DEF OthersAsBefore, InTransit
  <2>2. InTransit(l)'
    BY <1>3 DEF InTransit
  <2> QED BY <1>1, <2>1, <2>2, Lengths, RiskOfOne
<1> QED BY <1>1, <1>4, <1>5, <1>6, <1>7, <1>8, <1>9

LEMMA DeliverKeepsSseInv ==
    ASSUME SseInv, NEW l \in Leases, Deliver(l) PROVE SseInv'
<1>1. /\ receiving[l] \in {"message", "done", "error"}
      /\ receiving' = [receiving EXCEPT ![l] = "no"]
      /\ result' = [result EXCEPT ![l] = KeepAlive]
      /\ UNCHANGED <<res, delivered>>
  BY DEF Deliver, SseInv, SseTypes
<1>2. CASE body[l] # "open"
  <2>1. UNCHANGED <<vars, body, isReaderWaiting, chunks, httpVars>>
    BY <1>1, <1>2 DEF Deliver, httpVars
  <2> QED BY <1>1, <1>2, <2>1, DroppingKeepsSseInv
<1>3. CASE body[l] = "open" /\ receiving[l] \in {"done", "error"}
  <2>1. /\ EndBody(l, IF receiving[l] = "done" THEN "closed" ELSE "errored")
        /\ ReleaseLease(l)
        /\ UNCHANGED <<isReaderWaiting, httpVars>>
    BY <1>1, <1>3 DEF Deliver, httpVars
  <2> QED BY <1>1, <1>3, <2>1, EndingKeepsSseInv
<1>4. CASE body[l] = "open" /\ receiving[l] = "message"
  <2>1. /\ isReaderWaiting' = isReaderWaiting \ {l}
        /\ IF EndsIfStopped(l)
           THEN /\ EndBody(l, "errored")
                /\ ReleaseLease(l)
                /\ IF http[l] = "reading"
                   THEN /\ http' = [http EXCEPT ![l] = "chunk"]
                        /\ chunk' = [chunk EXCEPT ![l] = result[l]]
                   ELSE UNCHANGED <<http, chunk>>
           ELSE /\ Enqueue(l, result[l])
                /\ UNCHANGED <<vars, body>>
    BY <1>4 DEF Deliver
  <2>2. CASE l \in stopped
    BY <1>1, <1>4, <2>1, <2>2, StoppingKeepsSseInv DEF EndsIfStopped
  <2>3. CASE l \notin stopped
    BY <1>1, <1>4, <2>1, <2>3, EnqueuingKeepsSseInv DEF EndsIfStopped
  <2> QED BY <2>2, <2>3
<1> QED BY <1>1, <1>2, <1>3, <1>4

-----------------------------------------------------------------------------
LEMMA KeepAliveKeepsSseInv ==
    ASSUME SseInv, NEW l \in Leases, KeepAliveTimer(l) PROVE SseInv'
<1> USE DEF SseInv
<1>1. /\ body[l] = "open" /\ l \in isReaderWaiting
      /\ isReaderWaiting' = isReaderWaiting \ {l}
      /\ UNCHANGED <<vars, body, receiving, result, res, delivered>>
  BY DEF KeepAliveTimer
<1>2. http[l] = "reading" /\ chunk[l] = KeepAlive
  BY <1>1 DEF ReadersFit, ReaderFits
<1>3. /\ http' = [http EXCEPT ![l] = "chunk"]
      /\ chunk' = [chunk EXCEPT ![l] = KeepAlive]
      /\ UNCHANGED chunks
  BY <1>2 DEF KeepAliveTimer, Enqueue
<1>4. chunk' = chunk
  BY <1>2, <1>3 DEF SseTypes
<1>5. IInv' /\ taken' = taken
  BY <1>1, NextKeepsIInv DEF vars
<1>6. SseTypes'
  BY <1>1, <1>3, <1>4 DEF SseTypes
<1>7. OneIsLive'
  BY <1>1 DEF OneIsLive, IsLive, vars
<1>8. ReadersFit'
  BY <1>1, <1>3, <1>4 DEF ReadersFit, ReaderFits, IsLive, vars, SseTypes
<1>9. NewestIsHeld' /\ WrittenInOrder' /\ FewAtRisk'
  BY <1>1, <1>3, <1>4, <1>5 DEF NewestIsHeld, HasOne, WrittenInOrder, FewAtRisk, AtRisk,
                                InTransit
<1> QED BY <1>5, <1>6, <1>7, <1>8, <1>9

LEMMA WriteKeepsSseInv ==
    ASSUME SseInv, NEW l \in Leases, NEW full \in BOOLEAN, Write(l, full) PROVE SseInv'
<1> USE DEF SseInv
<1>1. CASE res[l] # "open"
  <2>1. res' \in [Leases -> {"open", "ended", "closed"}]
    BY DEF Write, SseTypes
  <2> QED BY <1>1, <2>1, LeavingKeepsSseInv DEF Write
<1>2. CASE res[l] = "open"
  <2>1. /\ http[l] = "chunk"
        /\ http' = [http EXCEPT ![l] = IF full THEN "draining" ELSE "next"]
        /\ chunk' = [chunk EXCEPT ![l] = KeepAlive]
        /\ delivered' = IF chunk[l] = KeepAlive THEN delivered ELSE Append(delivered, chunk[l])
        /\ UNCHANGED <<vars, body, chunks, isReaderWaiting, receiving, result, res>>
    BY <1>2 DEF Write
  <2>2. IInv' /\ taken' = taken
    BY <2>1, NextKeepsIInv DEF vars
  <2>3. /\ http'[l] \notin {"chunk", "reading"} /\ chunk'[l] = KeepAlive
        /\ \A k \in Leases \ {l} : http'[k] = http[k] /\ chunk'[k] = chunk[k]
    BY <2>1 DEF SseTypes
  <2>4. OneIsLive'
    BY <2>1 DEF OneIsLive, IsLive, vars
  <2>5. ReadersFit'
    <3>1. ASSUME NEW k \in Leases \ {l} PROVE ReaderFits(k)'
      BY <2>1, <2>3 DEF ReadersFit, ReaderFits, IsLive, vars
    <3>2. ReaderFits(l)'
      BY <2>1, <2>3 DEF ReadersFit, ReaderFits, IsLive, vars
    <3> QED BY <3>1, <3>2 DEF ReadersFit
  <2>6. OthersAsBefore(l)
    BY <2>1, <2>3 DEF OthersAsBefore, InTransit
  <2>7. /\ http' \in [Leases -> {"none", "next", "reading", "chunk", "draining", "over"}]
        /\ chunk' \in [Leases -> 0 .. MaxMessages]
    BY <2>1 DEF SseTypes, KeepAlive
  <2>8. CASE chunk[l] = KeepAlive
    <3>1. delivered' = delivered /\ chunk' = chunk
      BY <2>1, <2>8 DEF SseTypes
    <3>2. SseTypes'
      BY <2>1, <2>7, <3>1 DEF SseTypes
    <3>3. NewestIsHeld' /\ WrittenInOrder' /\ FewAtRisk'
      BY <2>1, <2>2, <3>1 DEF NewestIsHeld, HasOne, WrittenInOrder, FewAtRisk, AtRisk, InTransit
    <3> QED BY <2>2, <2>4, <2>5, <3>2, <3>3
  <2>9. CASE chunk[l] # KeepAlive
    <3>1. /\ chunk[l] = Len(taken) /\ chunks[l] = <<>> /\ receiving[l] = "no"
          /\ IsLive(l) /\ Len(taken) \in 1 .. MaxMessages
          /\ \A i \in 1 .. Len(delivered) : delivered[i] < Len(taken)
      BY <2>9 DEF NewestIsHeld, HasOne, ReadersFit, ReaderFits, SseTypes, KeepAlive
    <3>2. delivered' = Append(delivered, Len(taken))
      BY <2>1, <2>9, <3>1
    <3>3. /\ Len(delivered') = Len(delivered) + 1
          /\ delivered'[Len(delivered) + 1] = Len(taken)
          /\ \A i \in 1 .. Len(delivered) : delivered'[i] = delivered[i]
      BY <3>2 DEF SseTypes
    <3>4. SseTypes'
      <4>1. delivered' \in Seq(1 .. MaxMessages)
        BY <3>1, <3>2 DEF SseTypes
      <4> QED BY <2>1, <2>7, <4>1 DEF SseTypes
    <3>5. NewestIsHeld'
      <4>1. ~HasOne(l)'
        BY <2>1, <2>3, <3>1 DEF HasOne
      <4>2. ASSUME NEW k \in Leases \ {l} PROVE ~HasOne(k)'
        <5>1. ~IsLive(k)
          BY <3>1 DEF OneIsLive
        <5>2. chunk[k] = KeepAlive /\ chunks[k] = <<>> /\ body[k] # "open"
          BY <5>1 DEF ReadersFit, ReaderFits, IsLive
        <5> QED BY <2>1, <2>3, <5>2 DEF HasOne
      <4> QED BY <4>1, <4>2 DEF NewestIsHeld, HasOne
    <3>6. WrittenInOrder'
      <4>1. ASSUME NEW i \in 1 .. Len(delivered')
            PROVE  i \in 1 .. Len(delivered) \/ i = Len(delivered) + 1
        BY <3>3, Lengths
      <4>2. \A i \in 1 .. Len(delivered') : delivered'[i] <= Len(taken')
        BY <2>2, <3>1, <3>3, <4>1, Lengths DEF WrittenInOrder
      <4>3. ASSUME NEW i \in 1 .. Len(delivered'), NEW j \in 1 .. Len(delivered'), i < j
            PROVE  delivered'[i] < delivered'[j]
        <5>1. i \in 1 .. Len(delivered)
          BY <3>3, <4>3, Lengths
        <5>2. CASE j \in 1 .. Len(delivered)
          BY <3>3, <4>3, <5>1, <5>2 DEF WrittenInOrder
        <5>3. CASE j = Len(delivered) + 1
          BY <3>1, <3>3, <5>1, <5>3
        <5> QED BY <4>1, <5>2, <5>3
      <4> QED BY <4>2, <4>3 DEF WrittenInOrder
    <3>7. FewAtRisk'
      BY <2>2, <2>6, <3>3, Lengths, RiskOfOne
    <3> QED BY <2>2, <2>4, <2>5, <3>4, <3>5, <3>6, <3>7
  <2> QED BY <2>8, <2>9
<1> QED BY <1>1, <1>2

(* Steps that change only where the reader is. *)
LEMMA ReaderOnly ==
    ASSUME SseInv, NEW l \in Leases, http[l] # "chunk",
           body[l] = "open" => l \notin isReaderWaiting,
           NEW place \in {"next", "over"}, http' = [http EXCEPT ![l] = place],
           res' \in [Leases -> {"open", "ended", "closed"}],
           UNCHANGED <<vars, bodyVars, chunk, delivered>>
    PROVE  SseInv'
<1> USE DEF SseInv
<1>1. IInv' /\ taken' = taken
  BY NextKeepsIInv DEF vars
<1>2. SseTypes'
  BY DEF SseTypes, bodyVars
<1>3. OneIsLive'
  BY DEF OneIsLive, IsLive, vars, bodyVars
<1>4. ReadersFit'
  BY DEF ReadersFit, ReaderFits, IsLive, vars, bodyVars, SseTypes
<1>5. NewestIsHeld' /\ WrittenInOrder' /\ FewAtRisk'
  BY <1>1 DEF NewestIsHeld, HasOne, WrittenInOrder, FewAtRisk, AtRisk, InTransit, bodyVars
<1> QED BY <1>1, <1>2, <1>3, <1>4, <1>5

LEMMA DrainKeepsSseInv ==
    ASSUME SseInv, NEW l \in Leases, Drain(l) PROVE SseInv'
<1>1. body[l] = "open" => l \notin isReaderWaiting
  BY DEF Drain, SseInv, ReadersFit, ReaderFits
<1>2. res' \in [Leases -> {"open", "ended", "closed"}]
  BY DEF Drain, SseInv, SseTypes
<1> QED BY <1>1, <1>2, ReaderOnly DEF Drain

LEMMA OverKeepsSseInv ==
    ASSUME SseInv, NEW l \in Leases, BodyIsOver(l) PROVE SseInv'
<1>1. body[l] # "open" /\ http[l] # "chunk"
  BY DEF BodyIsOver, SeesFailure
<1>2. res' \in [Leases -> {"open", "ended", "closed"}]
  BY DEF BodyIsOver, SseInv, SseTypes
<1> QED BY <1>1, <1>2, ReaderOnly DEF BodyIsOver

-----------------------------------------------------------------------------
LEMMA SseNextKeepsInv == SseInv /\ [SseNext]_allVars => SseInv'
<1> SUFFICES ASSUME SseInv, [SseNext]_allVars PROVE SseInv'
  OBVIOUS
<1>1. CASE PushMessage \/ FinishMailbox \/ AbortMailbox
  BY <1>1, PushKeepsSseInv, FinishKeepsSseInv, AbortKeepsSseInv
<1>2. ASSUME NEW l \in Leases,
             \/ \E early \in BOOLEAN : Get(l, early)
             \/ Read(l) \/ ResumeReceive(l) \/ Deliver(l) \/ BodyIsOver(l)
             \/ \E full \in BOOLEAN : Write(l, full)
             \/ KeepAliveTimer(l) \/ Drain(l) \/ ClientLeaves(l)
      PROVE  SseInv'
  BY <1>2, GetKeepsSseInv, ReadKeepsSseInv, ResumeKeepsSseInv, DeliverKeepsSseInv, OverKeepsSseInv,
     WriteKeepsSseInv, KeepAliveKeepsSseInv, DrainKeepsSseInv, ClientLeavesKeepsSseInv
<1>3. CASE UNCHANGED allVars
  <2>1. UNCHANGED <<vars, bodyVars, httpVars>>
    BY <1>3 DEF allVars
  <2>2. IInv' /\ taken' = taken
    BY <2>1, NextKeepsIInv DEF SseInv, vars
  <2>3. OneIsLive' /\ ReadersFit'
    BY <2>1 DEF SseInv, OneIsLive, ReadersFit, ReaderFits, IsLive, vars, bodyVars, httpVars
  <2> QED BY <2>1, <2>2, <2>3, MailboxOnly DEF SseInv
<1> QED BY <1>1, <1>2, <1>3 DEF SseNext

(* The inductive invariant holds with the responses, too. *)
THEOREM SseInvariance == SseSpec => []SseInv
BY SseInitImpliesInv, SseNextKeepsInv, PTL DEF SseSpec

(* However GET requests, slow sockets, clients that leave and an abort     *)
(* meet, the bodies take messages as their clients do: what is written is  *)
(* in order, and a response costs one message at most.                     *)
THEOREM ResponsesCostOneEach == SseSpec => []OneMessageAtRisk
<1>1. SseInv => OneMessageAtRisk
  BY DEF SseInv, WrittenInOrder, FewAtRisk, AtRisk, OneMessageAtRisk
<1> QED BY <1>1, SseInvariance, PTL

(* The mailbox keeps its promises under the bodies of the responses, which *)
(* abort and release it in one step.                                       *)
THEOREM MailboxUnderResponses == SseSpec => [](InOrderOnceEach /\ NoLostWakeup)
BY SseInvariance, PTL DEF SseInv, IInv

-----------------------------------------------------------------------------
(* Leases come back: the safety part of LeasesComeBack.                    *)

(* How far a body, its reader and its response are: a reader that waits    *)
(* for an open body has asked for a chunk, and the body waits for a        *)
(* message then; a response that is over has ended its body, and a         *)
(* cancelled body its response.  No response waits for a socket that has   *)
(* closed; and what is left of a stopped lease is a reader that will learn *)
(* of it.                                                                  *)
ResponseFits(l) ==
    /\ body[l] = "open" /\ http[l] = "reading" => l \in isReaderWaiting
    /\ body[l] = "open" /\ l \in isReaderWaiting => receiving[l] # "no"
    /\ receiving[l] = "pending" => reader[l] # "idle"
    /\ body[l] = "none" <=> http[l] = "none"
    /\ http[l] = "over" => body[l] # "open"
    /\ body[l] = "cancelled" => http[l] = "over"
    /\ res[l] = "closed" => http[l] # "draining"
    /\ l \in stopped =>
          \/ body[l] \in {"errored", "cancelled"}
          \/ body[l] = "open" /\ l \in isReaderWaiting
          \/ body[l] = "closed" /\ http[l] \in {"reading", "over"}

ResponsesFit == \A l \in Leases : ResponseFits(l)

(* A response goes on by itself, but for the keep-alive timer, which is    *)
(* set while its reader waits.                                             *)
ResponseGoesOn(l) ==
    \/ http[l] \in {"next", "chunk"}
    \/ receiving[l] \notin {"no", "pending"} \/ reader[l] = "woken"
    \/ body[l] = "closed" /\ http[l] = "reading"
    \/ SeesFailure(l)

TimerIsSet(l) == body[l] = "open" /\ l \in isReaderWaiting

(* A response whose client has left still holds its lease only while       *)
(* something will notice, and one that is stopped ends without the client. *)
LeasesCanComeBack ==
    \A l \in Leases :
        /\ activeLease = l /\ res[l] = "closed" => ResponseGoesOn(l) \/ TimerIsSet(l)
        /\ l \in stopped /\ http[l] # "over" => ResponseGoesOn(l)

(* It depends on the state of the one response, and of its receiver only   *)
(* on whether there is one.                                                *)
LEMMA AsBefore ==
    ASSUME NEW k \in Leases, ResponseFits(k),
           body'[k] = body[k], http'[k] = http[k], receiving'[k] = receiving[k],
           res'[k] = res[k], reader'[k] = "idle" <=> reader[k] = "idle",
           k \in isReaderWaiting' <=> k \in isReaderWaiting, k \in stopped' <=> k \in stopped
    PROVE  ResponseFits(k)'
BY DEF ResponseFits

LEMMA MailboxKeepsResponses ==
    ASSUME SseInv, ResponsesFit, PushMessage \/ FinishMailbox PROVE ResponsesFit'
<1> SUFFICES ASSUME NEW k \in Leases PROVE ResponseFits(k)'
  BY DEF ResponsesFit
<1>1. /\ reader' = Wake(activeLease) /\ stopped' = stopped
      /\ UNCHANGED <<body, http, receiving, res, isReaderWaiting>>
  BY DEF PushMessage, FinishMailbox, Push, Finish, bodyVars, httpVars
<1>2. reader'[k] = "idle" <=> reader[k] = "idle"
  BY <1>1 DEF Wake
<1>3. ResponseFits(k)
  BY DEF ResponsesFit
<1> QED BY <1>1, <1>2, <1>3, AsBefore

LEMMA AbortKeepsResponses == ASSUME SseInv, ResponsesFit, AbortMailbox PROVE ResponsesFit'
<1> SUFFICES ASSUME NEW k \in Leases PROVE ResponseFits(k)'
  BY DEF ResponsesFit
<1>1. /\ reader' = Wake(activeLease) /\ stopped' = stopped \cup Holder
      /\ UNCHANGED <<http, receiving, res, isReaderWaiting>>
  BY DEF AbortMailbox, Abort, bodyVars, httpVars
<1>2. reader'[k] = "idle" <=> reader[k] = "idle"
  BY <1>1 DEF Wake
<1>3. ResponseFits(k) /\ (body[k] = "open" <=> activeLease = k) /\ k # NoLease
  BY NoLeaseAssumption DEF ResponsesFit, SseInv, OneIsLive
<1>4. CASE activeLease # k
  <2>1. body'[k] = body[k] /\ (k \in stopped' <=> k \in stopped)
    BY <1>1, <1>4 DEF AbortMailbox, EndBody, SseInv, SseTypes, bodyVars, Holder
  <2> QED BY <1>1, <1>2, <1>3, <2>1, AsBefore
<1>5. CASE activeLease = k
  <2>1. body[k] = "open"
    BY <1>3, <1>5
  <2>2. CASE k \notin isReaderWaiting
    <3>1. body'[k] = "errored"
      BY <1>3, <1>5, <2>2 DEF AbortMailbox, EndBody, SseInv, SseTypes, Holder
    <3> QED BY <1>1, <1>2, <1>3, <2>1, <3>1 DEF ResponseFits
  <2>3. CASE k \in isReaderWaiting
    <3>1. body' = body
      BY <1>5, <2>3 DEF AbortMailbox, bodyVars, Holder
    <3> QED BY <1>1, <1>2, <1>3, <2>1, <2>3, <3>1 DEF ResponseFits
  <2> QED BY <2>2, <2>3
<1> QED BY <1>4, <1>5

(* Cancelling the body of a response that is over. *)
LEMMA CancelKeepsResponses ==
    ASSUME SseInv, ResponsesFit, NEW l \in Leases, CancelBody(l),
           http[l] # "none", http' = [http EXCEPT ![l] = "over"],
           UNCHANGED <<isReaderWaiting, receiving>>,
           res'[l] \in {res[l], "closed"}, \A k \in Leases \ {l} : res'[k] = res[k]
    PROVE  ResponsesFit'
<1> SUFFICES ASSUME NEW k \in Leases PROVE ResponseFits(k)'
  BY DEF ResponsesFit
<1>1. /\ stopped' = stopped
      /\ reader'[k] # "idle" <=> reader[k] # "idle"
  <2>1. CASE body[l] = "open"
    BY <2>1, ReleaseLeaseKeeps DEF CancelBody
  <2>2. CASE body[l] # "open"
    BY <2>2 DEF CancelBody, vars
  <2> QED BY <2>1, <2>2
<1>2. ResponseFits(k)
  BY DEF ResponsesFit
<1>3. CASE k # l
  <2>1. body'[k] = body[k] /\ http'[k] = http[k]
    BY <1>3 DEF CancelBody, SseInv, SseTypes
  <2> QED BY <1>1, <1>2, <1>3, <2>1, AsBefore
<1>4. CASE k = l
  <2>1. http'[l] = "over" /\ body'[l] = IF body[l] = "open" THEN "cancelled" ELSE body[l]
    BY DEF CancelBody, SseInv, SseTypes
  <2> QED BY <1>1, <1>2, <1>4, <2>1 DEF ResponseFits
<1> QED BY <1>3, <1>4

LEMMA ReaderKeepsResponses ==
    ASSUME SseInv, ResponsesFit, NEW l \in Leases,
           ClientLeaves(l) \/ (\E full \in BOOLEAN : Write(l, full)) \/ Drain(l) \/ BodyIsOver(l)
    PROVE  ResponsesFit'
<1>1. CASE ClientLeaves(l)
  <2>1. /\ CancelBody(l) /\ http[l] # "none" /\ http' = [http EXCEPT ![l] = "over"]
        /\ UNCHANGED <<isReaderWaiting, receiving>> /\ res' = [res EXCEPT ![l] = "closed"]
    BY <1>1 DEF ClientLeaves
  <2>2. res'[l] = "closed" /\ \A k \in Leases \ {l} : res'[k] = res[k]
    BY <2>1 DEF SseInv, SseTypes
  <2> QED BY <2>1, <2>2, CancelKeepsResponses
<1>2. ASSUME NEW full \in BOOLEAN, Write(l, full) PROVE ResponsesFit'
  <2>1. http[l] = "chunk" /\ UNCHANGED <<isReaderWaiting, receiving, res>>
    BY <1>2 DEF Write
  <2>2. CASE res[l] # "open"
    <3>1. CancelBody(l) /\ http' = [http EXCEPT ![l] = "over"]
      BY <1>2, <2>2 DEF Write
    <3> QED BY <2>1, <3>1, CancelKeepsResponses
  <2>3. CASE res[l] = "open"
    <3>1. /\ http' = [http EXCEPT ![l] = IF full THEN "draining" ELSE "next"]
          /\ UNCHANGED <<vars, body>>
      BY <1>2, <2>3 DEF Write
    <3> SUFFICES ASSUME NEW k \in Leases PROVE ResponseFits(k)'
      BY DEF ResponsesFit
    <3>2. ResponseFits(k) /\ UNCHANGED <<reader, stopped>>
      BY <3>1 DEF ResponsesFit, vars
    <3>3. CASE k # l
      <4>1. http'[k] = http[k]
        BY <3>1, <3>3 DEF SseInv, SseTypes
      <4> QED BY <2>1, <3>1, <3>2, <4>1, AsBefore
    <3>4. CASE k = l
      <4>1. http'[l] \in {"draining", "next"}
        BY <3>1 DEF SseInv, SseTypes
      <4>2. body[l] = "open" => l \notin isReaderWaiting
        BY <2>1 DEF SseInv, ReadersFit, ReaderFits
      <4>3. l \in stopped => body[l] = "errored"
        BY <2>1, <3>2, <3>4, <4>2 DEF ResponseFits
      <4> QED BY <2>1, <2>3, <3>1, <3>2, <3>4, <4>1, <4>3 DEF ResponseFits
    <3> QED BY <3>3, <3>4
  <2> QED BY <2>2, <2>3
<1>3. CASE Drain(l) \/ BodyIsOver(l)
  <2> SUFFICES ASSUME NEW k \in Leases PROVE ResponseFits(k)'
    BY DEF ResponsesFit
  <2>1. /\ UNCHANGED <<reader, stopped, body, isReaderWaiting, receiving>>
        /\ ResponseFits(k)
    BY <1>3 DEF Drain, BodyIsOver, vars, bodyVars, ResponsesFit
  <2>2. CASE k # l
    <3>1. http'[k] = http[k] /\ res'[k] = res[k]
      BY <1>3, <2>2 DEF Drain, BodyIsOver, SseInv, SseTypes
    <3> QED BY <2>1, <3>1, AsBefore
  <2>3. CASE k = l /\ Drain(l)
    <3>1. http[l] = "draining" /\ http'[l] = "next" /\ res' = res
      BY <2>3 DEF Drain, SseInv, SseTypes
    <3>2. body[l] = "open" => l \notin isReaderWaiting
      BY <3>1 DEF SseInv, ReadersFit, ReaderFits
    <3>3. l \in stopped => body[l] = "errored"
      BY <2>1, <2>3, <3>1, <3>2 DEF ResponseFits
    <3> QED BY <2>1, <2>3, <3>1, <3>3 DEF ResponseFits
  <2>4. CASE k = l /\ BodyIsOver(l)
    <3>1. http'[l] = "over" /\ http[l] # "none" /\ body[l] \in {"closed", "errored"}
      BY <2>4 DEF BodyIsOver, SeesFailure, SseInv, SseTypes
    <3> QED BY <2>1, <2>4, <3>1 DEF ResponseFits
  <2> QED BY <1>3, <2>2, <2>3, <2>4
<1> QED BY <1>1, <1>2, <1>3

LEMMA GetKeepsResponses ==
    ASSUME SseInv, ResponsesFit, NEW l \in Leases, NEW early \in BOOLEAN, Get(l, early)
    PROVE  ResponsesFit'
<1> SUFFICES ASSUME NEW k \in Leases PROVE ResponseFits(k)'
  BY DEF ResponsesFit
<1>1. /\ leases[l] = "unused" /\ body' = [body EXCEPT ![l] = "open"]
      /\ http' = [http EXCEPT ![l] = "next"]
      /\ res' = [res EXCEPT ![l] = IF early THEN "closed" ELSE "open"]
      /\ UNCHANGED <<reader, stopped, isReaderWaiting, receiving>>
      /\ activeLease = NoLease
  BY DEF Get, TryAcquire, Acquirable
<1>2. ResponseFits(k)
  BY DEF ResponsesFit
<1>3. CASE k # l
  <2>1. body'[k] = body[k] /\ http'[k] = http[k] /\ res'[k] = res[k]
    BY <1>1, <1>3 DEF SseInv, SseTypes
  <2> QED BY <1>1, <1>2, <2>1, AsBefore
<1>4. CASE k = l
  <2>1. body[l] = "none"
    BY <1>1 DEF SseInv, OneIsLive
  <2>2. l \notin isReaderWaiting /\ l \notin stopped
    BY <1>2, <1>4, <2>1 DEF SseInv, ReadersFit, ReaderFits, ResponseFits
  <2>3. body'[l] = "open" /\ http'[l] = "next"
    BY <1>1 DEF SseInv, SseTypes
  <2> QED BY <1>1, <1>2, <1>4, <2>1, <2>2, <2>3 DEF ResponseFits
<1> QED BY <1>3, <1>4

(* A round of receive() that has no result leaves its receiver waiting.    *)
LEMMA RoundWaits ==
    ASSUME SseInv, NEW l \in Leases, Look(l)
    PROVE  /\ Received(l) # "no"
           /\ Received(l) = "pending" => reader'[l] # "idle"
           /\ \A k \in Leases \ {l} : reader'[k] = reader[k]
<1>1. \A k \in Leases \ {l} : reader'[k] = reader[k]
  BY DEF Look, SseInv, IInv, TypeOK
<1>2. CASE Over(l)
  BY <1>1, <1>2 DEF Received
<1>3. CASE ~Over(l) /\ queue = <<>>
  <2>1. reader'[l] = "waiting"
    BY <1>3 DEF Look, SseInv, IInv, TypeOK
  <2> QED BY <1>1, <1>3, <2>1 DEF Received
<1>4. CASE ~Over(l) /\ queue # <<>>
  BY <1>1, <1>4 DEF Received
<1> QED BY <1>2, <1>3, <1>4

LEMMA ReadKeepsResponses ==
    ASSUME SseInv, ResponsesFit, NEW l \in Leases, Read(l) \/ ResumeReceive(l) PROVE ResponsesFit'
<1> SUFFICES ASSUME NEW k \in Leases PROVE ResponseFits(k)'
  BY DEF ResponsesFit
<1>1. ResponseFits(k) /\ ResponseFits(l)
  BY DEF ResponsesFit
<1>2. CASE ResumeReceive(l)
  <2>1. /\ Look(l) /\ receiving' = [receiving EXCEPT ![l] = Received(l)]
        /\ UNCHANGED <<stopped, body, isReaderWaiting, http, res>>
    BY <1>2 DEF ResumeReceive, Resume, Receives, httpVars
  <2>2. CASE k # l
    <3>1. receiving'[k] = receiving[k] /\ reader'[k] = reader[k]
      BY <2>1, <2>2, RoundWaits DEF SseInv, SseTypes
    <3> QED BY <1>1, <2>1, <3>1, AsBefore
  <2>3. CASE k = l
    <3>1. receiving'[l] # "no" /\ (receiving'[l] = "pending" => reader'[l] # "idle")
      BY <2>1, RoundWaits DEF SseInv, SseTypes
    <3> QED BY <1>1, <2>1, <2>3, <3>1 DEF ResponseFits
  <2> QED BY <2>2, <2>3
<1>3. CASE Read(l) /\ chunks[l] # <<>>
  <2>1. /\ http[l] = "next" /\ http' = [http EXCEPT ![l] = "chunk"]
        /\ UNCHANGED <<reader, stopped, body, isReaderWaiting, receiving, res>>
    BY <1>3 DEF Read, vars
  <2>2. CASE k # l
    BY <1>1, <2>1, <2>2, AsBefore DEF SseInv, SseTypes
  <2>3. CASE k = l
    <3>1. http'[l] = "chunk"
      BY <2>1 DEF SseInv, SseTypes
    <3> QED BY <1>1, <2>1, <2>3, <3>1 DEF ResponseFits
  <2> QED BY <2>2, <2>3
<1>4. CASE Read(l) /\ chunks[l] = <<>> /\ body[l] # "open"
  <2>1. /\ http[l] = "next" /\ http' = [http EXCEPT ![l] = "reading"]
        /\ UNCHANGED <<reader, stopped, body, isReaderWaiting, receiving, res>>
    BY <1>4 DEF Read, vars
  <2>2. CASE k # l
    BY <1>1, <2>1, <2>2, AsBefore DEF SseInv, SseTypes
  <2>3. CASE k = l
    <3>1. http'[l] = "reading"
      BY <2>1 DEF SseInv, SseTypes
    <3> QED BY <1>1, <1>4, <2>1, <2>3, <3>1 DEF ResponseFits
  <2> QED BY <2>2, <2>3
<1>5. CASE Read(l) /\ chunks[l] = <<>> /\ body[l] = "open"
  <2>1. /\ http[l] = "next" /\ http' = [http EXCEPT ![l] = "reading"]
        /\ isReaderWaiting' = isReaderWaiting \cup {l}
        /\ UNCHANGED <<body, res>>
    BY <1>5 DEF Read
  <2>2. /\ \A m \in Leases \ {l} : receiving'[m] = receiving[m] /\ reader'[m] = reader[m]
        /\ receiving'[l] # "no" /\ (receiving'[l] = "pending" => reader'[l] # "idle")
        /\ stopped' = stopped
    <3>1. CASE receiving[l] = "no"
      <4>1. Look(l) /\ receiving' = [receiving EXCEPT ![l] = Received(l)] /\ stopped' = stopped
        BY <1>5, <3>1 DEF Read, Receives, Receive
      <4>2. /\ receiving'[l] = Received(l)
            /\ \A m \in Leases \ {l} : receiving'[m] = receiving[m]
        BY <4>1 DEF SseInv, SseTypes
      <4> QED BY <4>1, <4>2, RoundWaits
    <3>2. CASE receiving[l] # "no"
      <4>1. UNCHANGED <<reader, stopped, receiving>>
        BY <1>5, <3>2 DEF Read, vars
      <4> QED BY <1>1, <3>2, <4>1 DEF ResponseFits
    <3> QED BY <3>1, <3>2
  <2>3. CASE k # l
    <3>1. http'[k] = http[k]
      BY <2>1, <2>3 DEF SseInv, SseTypes
    <3> QED BY <1>1, <2>1, <2>2, <2>3, <3>1, AsBefore
  <2>4. CASE k = l
    <3>1. http'[l] = "reading"
      BY <2>1 DEF SseInv, SseTypes
    <3> QED BY <1>1, <1>5, <2>1, <2>2, <2>4, <3>1 DEF ResponseFits
  <2> QED BY <2>3, <2>4
<1> QED BY <1>2, <1>3, <1>4, <1>5

LEMMA KeepAliveKeepsResponses ==
    ASSUME SseInv, ResponsesFit, NEW l \in Leases, KeepAliveTimer(l) PROVE ResponsesFit'
<1> SUFFICES ASSUME NEW k \in Leases PROVE ResponseFits(k)'
  BY DEF ResponsesFit
<1>1. /\ body[l] = "open" /\ l \in isReaderWaiting /\ isReaderWaiting' = isReaderWaiting \ {l}
      /\ UNCHANGED <<reader, stopped, body, receiving, res>>
      /\ receiving[l] \in {"no", "pending"} /\ reader[l] # "woken"
  BY DEF KeepAliveTimer, NoMicrotasks, vars
<1>2. ResponseFits(k) /\ ResponseFits(l)
  BY DEF ResponsesFit
<1>3. http[l] = "reading"
  BY <1>1 DEF SseInv, ReadersFit, ReaderFits
<1>4. http' = [http EXCEPT ![l] = "chunk"]
  BY <1>3 DEF KeepAliveTimer, Enqueue
<1>5. reader[l] = "waiting"
  BY <1>1, <1>2 DEF ResponseFits, SseInv, IInv, TypeOK
<1>6. l \notin stopped
  BY <1>5 DEF SseInv, IInv, NoLostWakeup, OneIsLive
<1>7. CASE k # l
  BY <1>1, <1>2, <1>4, <1>7, AsBefore DEF SseInv, SseTypes
<1>8. CASE k = l
  <2>1. http'[l] = "chunk"
    BY <1>4 DEF SseInv, SseTypes
  <2> QED BY <1>1, <1>2, <1>6, <1>8, <2>1 DEF ResponseFits
<1> QED BY <1>7, <1>8

LEMMA DeliverKeepsResponses ==
    ASSUME SseInv, ResponsesFit, NEW l \in Leases, Deliver(l) PROVE ResponsesFit'
<1> SUFFICES ASSUME NEW k \in Leases PROVE ResponseFits(k)'
  BY DEF ResponsesFit
<1>1. /\ receiving[l] \notin {"no", "pending"} /\ receiving' = [receiving EXCEPT ![l] = "no"]
      /\ res' = res
  BY DEF Deliver
<1>2. ResponseFits(k) /\ ResponseFits(l)
  BY DEF ResponsesFit
<1>3. /\ stopped' = stopped
      /\ \A m \in Leases : reader'[m] # "idle" <=> reader[m] # "idle"
  <2>1. CASE UNCHANGED vars
    BY <2>1 DEF vars
  <2>2. CASE ReleaseLease(l)
    BY <2>2, ReleaseLeaseKeeps
  <2> QED BY <2>1, <2>2 DEF Deliver
<1>4. /\ receiving'[l] = "no"
      /\ \A m \in Leases \ {l} :
            /\ receiving'[m] = receiving[m] /\ body'[m] = body[m] /\ http'[m] = http[m]
            /\ m \in isReaderWaiting' <=> m \in isReaderWaiting
  BY <1>1 DEF Deliver, EndBody, Enqueue, SseInv, SseTypes
<1>5. CASE k # l
  BY <1>1, <1>2, <1>3, <1>4, <1>5, AsBefore
<1>6. CASE k = l /\ body[l] # "open"
  <2>1. UNCHANGED <<body, isReaderWaiting, http>>
    BY <1>6 DEF Deliver
  <2> QED BY <1>1, <1>2, <1>3, <1>4, <1>6, <2>1 DEF ResponseFits
<1>7. CASE k = l /\ body[l] = "open" /\ receiving[l] \in {"done", "error"}
  <2>1. body'[l] \in {"closed", "errored"} /\ UNCHANGED <<isReaderWaiting, http>>
    BY <1>7 DEF Deliver, EndBody, SseInv, SseTypes
  <2>2. l \in stopped => http[l] = "reading"
    BY <1>2, <1>7 DEF ResponseFits, SseInv, ReadersFit, ReaderFits
  <2> QED BY <1>1, <1>2, <1>3, <1>4, <1>7, <2>1, <2>2 DEF ResponseFits
<1>8. CASE k = l /\ body[l] = "open" /\ receiving[l] \notin {"done", "error"}
  <2>1. isReaderWaiting' = isReaderWaiting \ {l}
    BY <1>8 DEF Deliver
  <2>2. http'[l] = IF http[l] = "reading" THEN "chunk" ELSE http[l]
    BY <1>8 DEF Deliver, Enqueue, SseInv, SseTypes
  <2>3. body'[l] = IF l \in stopped THEN "errored" ELSE "open"
    BY <1>8 DEF Deliver, EndBody, EndsIfStopped, SseInv, SseTypes
  <2> QED BY <1>1, <1>2, <1>3, <1>4, <1>8, <2>1, <2>2, <2>3 DEF ResponseFits
<1> QED BY <1>5, <1>6, <1>7, <1>8

(* However clients leave, early or late, read or not, and streams stop: a  *)
(* response whose client has left holds its lease only while something     *)
(* notices, and a stopped one needs no client to end.  The safety part of  *)
(* LeasesComeBack, for any number of leases and messages.                  *)
THEOREM LeasesAreReleased == SseSpec => []LeasesCanComeBack
<1>1. SseInit => ResponsesFit
  BY DEF SseInit, Init, ResponsesFit, ResponseFits
<1>2. SseInv /\ ResponsesFit /\ [SseNext]_allVars => ResponsesFit'
  <2> SUFFICES ASSUME SseInv, ResponsesFit, [SseNext]_allVars PROVE ResponsesFit'
    OBVIOUS
  <2>1. CASE PushMessage \/ FinishMailbox \/ AbortMailbox
    BY <2>1, MailboxKeepsResponses, AbortKeepsResponses
  <2>2. ASSUME NEW l \in Leases,
               \/ \E early \in BOOLEAN : Get(l, early)
               \/ Read(l) \/ ResumeReceive(l) \/ Deliver(l) \/ BodyIsOver(l)
               \/ \E full \in BOOLEAN : Write(l, full)
               \/ KeepAliveTimer(l) \/ Drain(l) \/ ClientLeaves(l)
        PROVE  ResponsesFit'
    BY <2>2, GetKeepsResponses, ReadKeepsResponses, DeliverKeepsResponses, ReaderKeepsResponses,
       KeepAliveKeepsResponses
  <2>3. CASE UNCHANGED allVars
    <3>1. UNCHANGED <<body, http, receiving, res, reader, isReaderWaiting, stopped>>
      BY <2>3 DEF allVars, vars, bodyVars, httpVars
    <3> QED BY <3>1 DEF ResponsesFit, ResponseFits
  <2> QED BY <2>1, <2>2, <2>3 DEF SseNext
<1>3. SseInv /\ ResponsesFit => LeasesCanComeBack
  <2> SUFFICES ASSUME SseInv, ResponsesFit, NEW l \in Leases
               PROVE  /\ activeLease = l /\ res[l] = "closed" => ResponseGoesOn(l) \/ TimerIsSet(l)
                      /\ l \in stopped /\ http[l] # "over" => ResponseGoesOn(l)
    BY DEF LeasesCanComeBack
  <2>1. /\ http[l] \in {"none", "next", "reading", "chunk", "draining", "over"}
        /\ reader[l] \in {"idle", "waiting", "woken"}
        /\ ResponseFits(l) /\ ReaderFits(l)
        /\ body[l] = "open" <=> activeLease = l
    BY DEF SseInv, SseTypes, IInv, TypeOK, ResponsesFit, ReadersFit, OneIsLive
  <2>2. l \in stopped => reader[l] # "waiting"
    BY DEF SseInv, IInv, NoLostWakeup, OneIsLive
  <2>3. activeLease = l /\ res[l] = "closed" => ResponseGoesOn(l) \/ TimerIsSet(l)
    BY <2>1 DEF ResponseFits, ResponseGoesOn, TimerIsSet
  <2>4. l \in stopped /\ http[l] # "over" => ResponseGoesOn(l)
    BY <2>1, <2>2 DEF ResponseFits, ResponseGoesOn, SeesFailure
  <2> QED BY <2>3, <2>4
<1> QED BY <1>1, <1>2, <1>3, SseInvariance, PTL DEF SseSpec

-----------------------------------------------------------------------------
(* The channel.                                                            *)

(* While the agent's side goes on and the router's is open, every message  *)
(* is in one of three places.                                              *)
Conserved ==
    writable \in {"open", "closing"} /\ readable = "open" =>
        written = Len(channelTaken) + Len(channelQueue) + Len(sink)

SinkInOrder == \A i \in 1 .. Len(sink) : sink[i] = written - Len(sink) + i

(* A reader that waits has nothing to read, and none is done before the    *)
(* channel is.                                                             *)
ChannelReaderFits ==
    /\ channelReader \in {"asked", "waiting"} => channelQueue = <<>>
    /\ channelReader = "done" => Channel!isFinished

(* How the two ends fit: an agent's side that is over has finished the     *)
(* channel, and a channel that finished without end() did so after the     *)
(* last write.  Once it is ending no write waits.                          *)
EndsFit ==
    /\ writable \in {"closed", "errored"} => Channel!isFinished
    /\ readable = "closed" /\ ~isEnding => writable = "closed"
    /\ isEnding => writer = "idle"
    /\ beforeEnd <= written

(* The inductive invariant. *)
ChannelInv ==
    /\ Channel!TypeOK
    /\ Channel!WritesThenTheEnd
    /\ Conserved
    /\ SinkInOrder
    /\ ChannelReaderFits
    /\ EndsFit

-----------------------------------------------------------------------------
(* What a queue of messages is when one more is added or the first one is  *)
(* taken.                                                                  *)
LEMMA AppendFacts ==
    ASSUME NEW S, NEW s \in Seq(S), NEW e \in S
    PROVE  /\ Append(s, e) \in Seq(S) /\ Len(Append(s, e)) = Len(s) + 1
           /\ Append(s, e)[Len(s) + 1] = e
           /\ \A i \in 1 .. Len(s) : Append(s, e)[i] = s[i]
OBVIOUS

LEMMA TailFacts ==
    ASSUME NEW S, NEW s \in Seq(S), s # <<>>
    PROVE  /\ Len(s) \in Nat \ {0} /\ Head(s) = s[1] /\ s[1] \in S
           /\ Tail(s) \in Seq(S) /\ Len(Tail(s)) = Len(s) - 1
           /\ \A i \in 1 .. Len(Tail(s)) : Tail(s)[i] = s[i + 1] /\ i + 1 \in 1 .. Len(s)
OBVIOUS

(* The initial states satisfy it. *)
THEOREM InitChannelInv == Channel!Init => ChannelInv
<1> SUFFICES ASSUME Channel!Init PROVE ChannelInv OBVIOUS
<1> USE DEF Channel!Init
<1>1. Channel!TypeOK
  <2>1. <<>> \in Seq(1 .. MaxMessages) BY EmptySeq
  <2>2. 0 \in 0 .. MaxMessages /\ 0 \in 0 .. 1 OBVIOUS
  <2> QED BY <2>1, <2>2, Zenon DEF Channel!TypeOK
<1>2. Channel!WritesThenTheEnd BY DEF Channel!WritesThenTheEnd
<1>3. Conserved BY DEF Conserved
<1>4. SinkInOrder BY DEF SinkInOrder
<1>5. ChannelReaderFits /\ EndsFit BY DEF ChannelReaderFits, EndsFit, Channel!isFinished
<1> QED BY <1>1, <1>2, <1>3, <1>4, <1>5 DEF ChannelInv

(* The end of the channel: the reader that waits is let go, and so is the  *)
(* writer.                                                                 *)
LEMMA FinishKeepsChannelInv ==
    ASSUME ChannelInv, Channel!Finish, readable = "open",
           UNCHANGED <<sink, written, isEnding, beforeEnd>>,
           writable' \in {"open", "closing", "aborting", "closed", "errored"},
           ~isEnding => writable' = "closed",
           Len(channelTaken) + Len(channelQueue) >= Channel!Due
    PROVE  ChannelInv'
<1> USE DEF ChannelInv, Channel!Finish
<1>1. Channel!TypeOK' BY DEF Channel!TypeOK, Channel!WritesThenTheEnd
<1>2. Channel!WritesThenTheEnd' BY DEF Channel!WritesThenTheEnd, Channel!Due
<1>3. Conserved' /\ SinkInOrder' BY DEF Conserved, SinkInOrder
<1>4. ChannelReaderFits' BY DEF ChannelReaderFits, Channel!isFinished, Channel!TypeOK
<1>5. EndsFit' BY DEF EndsFit, Channel!isFinished
<1> QED BY <1>1, <1>2, <1>3, <1>4, <1>5

(* The same with an error, when what is queued is dropped.  A channel that *)
(* is finished stays as it was.                                            *)
LEMMA FailKeepsChannelInv ==
    ASSUME ChannelInv, Channel!Fail, UNCHANGED <<written, isEnding, beforeEnd>>,
           writable \notin {"closed", "errored"}, writable' = "errored",
           sink' = <<>> \/ sink' = sink, writer = "idle"
    PROVE  ChannelInv'
<1> USE DEF ChannelInv
<1>1. CASE Channel!isFinished
  <2>1. UNCHANGED <<Channel!readVars, writer, ended>> BY <1>1 DEF Channel!Fail
  <2>2. readable # "open" /\ readable' = readable
    BY <1>1, <2>1 DEF Channel!isFinished, Channel!readVars
  <2>3. sink' \in Seq(1 .. MaxMessages)
    <3>1. <<>> \in Seq(1 .. MaxMessages) OBVIOUS
    <3> QED BY <3>1 DEF Channel!TypeOK
  <2>4. Channel!TypeOK' BY <2>1, <2>3 DEF Channel!TypeOK, Channel!readVars
  <2>5. readable = "closed" => isEnding BY DEF EndsFit
  <2>6. Channel!WritesThenTheEnd'
    BY <2>1, <2>5 DEF Channel!WritesThenTheEnd, Channel!Due, Channel!readVars
  <2>7. Conserved' BY DEF Conserved
  <2>8. SinkInOrder' BY DEF SinkInOrder
  <2>9. ChannelReaderFits'
    BY <2>1, <2>2 DEF ChannelReaderFits, Channel!isFinished, Channel!readVars
  <2>10. EndsFit' BY <2>1, <2>2, <2>5 DEF EndsFit, Channel!isFinished, Channel!readVars
  <2> QED BY <2>4, <2>6, <2>7, <2>8, <2>9, <2>10
<1>2. CASE ~Channel!isFinished
  <2>1. /\ readable = "open" /\ readable' = "errored" /\ channelQueue' = <<>>
        /\ channelReader' = IF channelReader \in {"asked", "waiting"} THEN "done" ELSE channelReader
        /\ writer' = "idle" /\ ended' = ended + 1 /\ UNCHANGED channelTaken
    BY <1>2 DEF Channel!Fail, Channel!isFinished
  <2>2. sink' \in Seq(1 .. MaxMessages)
    <3>1. <<>> \in Seq(1 .. MaxMessages) OBVIOUS
    <3> QED BY <3>1 DEF Channel!TypeOK
  <2>3. Channel!TypeOK' BY <2>1, <2>2 DEF Channel!TypeOK, Channel!WritesThenTheEnd
  <2>4. Channel!WritesThenTheEnd' BY <2>1 DEF Channel!WritesThenTheEnd
  <2>5. Conserved' BY DEF Conserved
  <2>6. SinkInOrder' BY DEF SinkInOrder
  <2>7. ChannelReaderFits' BY <2>1 DEF ChannelReaderFits, Channel!isFinished, Channel!TypeOK
  <2>8. EndsFit' BY <2>1 DEF EndsFit, Channel!isFinished
  <2> QED BY <2>3, <2>4, <2>5, <2>6, <2>7, <2>8
<1> QED BY <1>1, <1>2

(* The writable stream hands over the first write that it keeps: it is the *)
(* next one after those in the channel.                                    *)
LEMMA WriteKeepsChannelInv ==
    ASSUME ChannelInv, NEW valid \in BOOLEAN, Channel!Write(valid) PROVE ChannelInv'
<1> USE DEF ChannelInv
<1>1. /\ writable \in {"open", "closing"} /\ writer = "idle" /\ sink # <<>>
      /\ UNCHANGED <<written, isEnding, beforeEnd>>
  BY DEF Channel!Write, Channel!HandsOver
<1>2. CASE Channel!isFinished \/ ~valid
  <2>1. writable' = "errored" /\ sink' = <<>> /\ Channel!Fail BY <1>2 DEF Channel!Write
  <2> QED BY <1>1, <2>1, FailKeepsChannelInv
<1>3. CASE ~Channel!isFinished /\ valid
  <2>1. /\ readable = "open" /\ sink' = Tail(sink)
        /\ UNCHANGED <<writable, readable, ended>>
        /\ \/ /\ channelReader = "idle" /\ channelQueue' = Append(channelQueue, Head(sink))
              /\ writer' = IF isEnding THEN "idle" ELSE "blocked"
              /\ UNCHANGED <<channelReader, channelTaken>>
           \/ /\ channelReader # "idle" /\ channelTaken' = Append(channelTaken, Head(sink))
              /\ channelReader' = "idle" /\ UNCHANGED <<channelQueue, writer>>
    BY <1>3 DEF Channel!Write, Channel!isFinished
  <2>2. /\ Len(sink) \in Nat \ {0} /\ Head(sink) = sink[1] /\ sink[1] \in 1 .. MaxMessages
        /\ Len(sink') = Len(sink) - 1 /\ sink' \in Seq(1 .. MaxMessages)
        /\ \A i \in 1 .. Len(sink') : sink'[i] = sink[i + 1] /\ i + 1 \in 1 .. Len(sink)
    <3>1. sink \in Seq(1 .. MaxMessages) BY DEF Channel!TypeOK
    <3> QED BY <1>1, <2>1, <3>1, TailFacts
  <2>3. sink[1] = Len(channelTaken) + Len(channelQueue) + 1
    <3>1. Len(channelTaken) \in Nat /\ Len(channelQueue) \in Nat BY DEF Channel!TypeOK
    <3>2. written = Len(channelTaken) + Len(channelQueue) + Len(sink)
      BY <1>1, <2>1 DEF Conserved
    <3>3. sink[1] = written - Len(sink) + 1 BY <2>2 DEF SinkInOrder
    <3> QED BY <2>2, <3>1, <3>2, <3>3
  <2>4. SinkInOrder'
    <3> SUFFICES ASSUME NEW i \in 1 .. Len(sink') PROVE sink'[i] = written' - Len(sink') + i
      BY DEF SinkInOrder
    <3>1. sink'[i] = sink[i + 1] /\ i + 1 \in 1 .. Len(sink) BY <2>2
    <3>2. sink[i + 1] = written - Len(sink) + (i + 1) BY <3>1 DEF SinkInOrder
    <3>3. written \in Int BY DEF Channel!TypeOK
    <3> QED BY <1>1, <2>2, <3>1, <3>2, <3>3
  <2>5. CASE channelReader = "idle"
    <3>1. /\ channelQueue' \in Seq(1 .. MaxMessages) /\ Len(channelQueue') = Len(channelQueue) + 1
          /\ channelQueue'[Len(channelQueue) + 1] = sink[1]
          /\ \A i \in 1 .. Len(channelQueue) : channelQueue'[i] = channelQueue[i]
      <4>1. channelQueue \in Seq(1 .. MaxMessages) BY DEF Channel!TypeOK
      <4>2. channelQueue' = Append(channelQueue, sink[1]) BY <2>1, <2>2, <2>5
      <4> QED BY <2>2, <4>1, <4>2, AppendFacts
    <3>2. Channel!TypeOK' BY <1>1, <2>1, <2>2, <2>5, <3>1 DEF Channel!TypeOK
    <3>3. ASSUME NEW i \in 1 .. Len(channelQueue') PROVE channelQueue'[i] = Len(channelTaken') + i
      <4>1. channelTaken' = channelTaken BY <2>1, <2>5
      <4>2. CASE i = Len(channelQueue) + 1 BY <2>2, <2>3, <3>1, <4>1, <4>2
      <4>3. CASE i \in 1 .. Len(channelQueue) BY <3>1, <4>1, <4>3 DEF Channel!WritesThenTheEnd
      <4> QED BY <3>1, <4>2, <4>3
    <3>4. Channel!WritesThenTheEnd' BY <2>1, <2>5, <3>3 DEF Channel!WritesThenTheEnd
    <3>5. Conserved'
      <4>1. Len(channelTaken) \in Nat /\ Len(channelQueue) \in Nat BY DEF Channel!TypeOK
      <4> QED BY <1>1, <2>1, <2>2, <2>5, <3>1, <4>1 DEF Conserved
    <3>6. ChannelReaderFits' /\ EndsFit'
      BY <1>1, <2>1, <2>5 DEF ChannelReaderFits, EndsFit, Channel!isFinished
    <3> QED BY <2>4, <3>2, <3>4, <3>5, <3>6
  <2>6. CASE channelReader # "idle"
    <3>1. channelQueue = <<>>
      BY <2>1, <2>6 DEF ChannelReaderFits, Channel!TypeOK, Channel!isFinished
    <3>2. /\ channelTaken' \in Seq(1 .. MaxMessages) /\ Len(channelTaken') = Len(channelTaken) + 1
          /\ channelTaken'[Len(channelTaken) + 1] = sink[1]
          /\ \A i \in 1 .. Len(channelTaken) : channelTaken'[i] = channelTaken[i]
      <4>1. channelTaken \in Seq(1 .. MaxMessages) BY DEF Channel!TypeOK
      <4>2. channelTaken' = Append(channelTaken, sink[1]) BY <2>1, <2>2, <2>6
      <4> QED BY <2>2, <4>1, <4>2, AppendFacts
    <3>3. Channel!TypeOK' BY <1>1, <2>1, <2>2, <2>6, <3>2 DEF Channel!TypeOK
    <3>4. ASSUME NEW i \in 1 .. Len(channelTaken') PROVE channelTaken'[i] = i
      <4>1. CASE i = Len(channelTaken) + 1 BY <2>2, <2>3, <3>1, <3>2, <4>1
      <4>2. CASE i \in 1 .. Len(channelTaken) BY <3>2, <4>2 DEF Channel!WritesThenTheEnd
      <4> QED BY <3>2, <4>1, <4>2
    <3>5. Channel!WritesThenTheEnd' BY <2>1, <2>6, <3>1, <3>4 DEF Channel!WritesThenTheEnd
    <3>6. Conserved'
      <4>1. Len(channelTaken) \in Nat /\ Len(channelQueue) \in Nat BY DEF Channel!TypeOK
      <4> QED BY <1>1, <2>1, <2>2, <2>6, <3>2, <4>1 DEF Conserved
    <3>7. ChannelReaderFits' /\ EndsFit'
      BY <1>1, <2>1, <2>6 DEF ChannelReaderFits, EndsFit, Channel!isFinished
    <3> QED BY <2>4, <3>3, <3>5, <3>6, <3>7
  <2> QED BY <2>5, <2>6
<1> QED BY <1>2, <1>3

(* The router takes the first message that is queued. *)
LEMMA ReadKeepsChannelInv == ASSUME ChannelInv, Channel!Read PROVE ChannelInv'
<1> USE DEF ChannelInv
<1>1. /\ channelReader = "idle"
      /\ UNCHANGED <<Channel!agentVars, writer, readable, isEnding, ended, beforeEnd>>
  BY DEF Channel!Read
<1>2. SinkInOrder' /\ EndsFit'
  BY <1>1 DEF Channel!agentVars, SinkInOrder, EndsFit, Channel!isFinished
<1>3. CASE channelQueue # <<>>
  <2>1. /\ channelQueue' = Tail(channelQueue) /\ UNCHANGED channelReader
        /\ channelTaken' = Append(channelTaken, Head(channelQueue))
    BY <1>3 DEF Channel!Read
  <2>2. /\ Len(channelQueue) \in Nat \ {0} /\ Head(channelQueue) = channelQueue[1]
        /\ channelQueue[1] = Len(channelTaken) + 1
        /\ channelQueue[1] \in 1 .. MaxMessages /\ channelQueue' \in Seq(1 .. MaxMessages)
        /\ Len(channelQueue') = Len(channelQueue) - 1
        /\ \A i \in 1 .. Len(channelQueue') :
               channelQueue'[i] = channelQueue[i + 1] /\ i + 1 \in 1 .. Len(channelQueue)
    <3>1. channelQueue \in Seq(1 .. MaxMessages) BY DEF Channel!TypeOK
    <3>2. Len(channelQueue) \in Nat \ {0} BY <1>3, <3>1, TailFacts
    <3>3. channelQueue[1] = Len(channelTaken) + 1 BY <3>2 DEF Channel!WritesThenTheEnd
    <3> QED BY <1>3, <2>1, <3>1, <3>3, TailFacts
  <2>3. /\ channelTaken' \in Seq(1 .. MaxMessages) /\ Len(channelTaken') = Len(channelTaken) + 1
        /\ channelTaken'[Len(channelTaken) + 1] = channelQueue[1]
        /\ \A i \in 1 .. Len(channelTaken) : channelTaken'[i] = channelTaken[i]
    <3>1. channelTaken \in Seq(1 .. MaxMessages) BY DEF Channel!TypeOK
    <3> QED BY <2>1, <2>2, <3>1, AppendFacts
  <2>4. Channel!TypeOK' BY <1>1, <2>1, <2>2, <2>3 DEF Channel!TypeOK, Channel!agentVars
  <2>5. ASSUME NEW i \in 1 .. Len(channelTaken') PROVE channelTaken'[i] = i
    <3>1. CASE i = Len(channelTaken) + 1 BY <2>2, <2>3, <3>1
    <3>2. CASE i \in 1 .. Len(channelTaken) BY <2>3, <3>2 DEF Channel!WritesThenTheEnd
    <3> QED BY <2>3, <3>1, <3>2
  <2>6. ASSUME NEW i \in 1 .. Len(channelQueue') PROVE channelQueue'[i] = Len(channelTaken') + i
    <3>1. i + 1 \in 1 .. Len(channelQueue) BY <2>2
    <3>2. channelQueue[i + 1] = Len(channelTaken) + (i + 1) BY <3>1 DEF Channel!WritesThenTheEnd
    <3> QED BY <2>2, <2>3, <3>2 DEF Channel!TypeOK
  <2>7. Len(channelTaken') + Len(channelQueue') = Len(channelTaken) + Len(channelQueue)
    <3>1. Len(channelTaken) \in Nat BY DEF Channel!TypeOK
    <3> QED BY <2>2, <2>3, <3>1
  <2>8. Channel!WritesThenTheEnd'
    BY <1>1, <2>5, <2>6, <2>7 DEF Channel!WritesThenTheEnd, Channel!Due, Channel!agentVars
  <2>9. Conserved' BY <1>1, <2>7 DEF Conserved, Channel!agentVars
  <2>10. ChannelReaderFits' BY <1>1, <2>1 DEF ChannelReaderFits
  <2> QED BY <1>2, <2>4, <2>8, <2>9, <2>10
<1>4. CASE channelQueue = <<>>
  <2>1. /\ channelReader' = IF Channel!isFinished THEN "done" ELSE "asked"
        /\ UNCHANGED <<channelQueue, channelTaken>>
    BY <1>4 DEF Channel!Read
  <2>2. Channel!TypeOK' BY <1>1, <2>1 DEF Channel!TypeOK, Channel!agentVars
  <2>3. Channel!WritesThenTheEnd' /\ Conserved'
    BY <1>1, <2>1 DEF Channel!WritesThenTheEnd, Conserved, Channel!Due, Channel!agentVars
  <2>4. ChannelReaderFits' BY <1>1, <1>4, <2>1 DEF ChannelReaderFits, Channel!isFinished
  <2> QED BY <1>2, <2>2, <2>3, <2>4
<1> QED BY <1>3, <1>4

(* Every step keeps it. *)
THEOREM NextKeepsChannelInv == ChannelInv /\ [Channel!Next]_channelVars => ChannelInv'
<1> SUFFICES ASSUME ChannelInv, [Channel!Next]_channelVars PROVE ChannelInv' OBVIOUS
<1> USE DEF ChannelInv
<1>1. CASE Channel!AgentWrites
  <2>1. /\ writable = "open" /\ written < MaxMessages
        /\ written' = written + 1 /\ sink' = Append(sink, written + 1)
        /\ UNCHANGED <<writable, Channel!readVars, writer, isEnding, ended, beforeEnd>>
    BY <1>1 DEF Channel!AgentWrites
  <2>2. /\ sink' \in Seq(1 .. MaxMessages) /\ Len(sink') = Len(sink) + 1
        /\ sink'[Len(sink) + 1] = written + 1
        /\ \A i \in 1 .. Len(sink) : sink'[i] = sink[i]
    BY <2>1 DEF Channel!TypeOK
  <2>3. Channel!TypeOK' BY <2>1, <2>2 DEF Channel!TypeOK, Channel!readVars
  <2>4. readable = "closed" => isEnding BY <2>1 DEF EndsFit
  <2>5. Channel!WritesThenTheEnd'
    BY <2>1, <2>4 DEF Channel!WritesThenTheEnd, Channel!Due, Channel!readVars
  <2>6. Conserved' BY <2>1, <2>2 DEF Conserved, Channel!readVars, Channel!TypeOK
  <2>7. SinkInOrder' BY <2>1, <2>2 DEF SinkInOrder, Channel!TypeOK
  <2>8. ChannelReaderFits' /\ EndsFit'
    BY <2>1 DEF ChannelReaderFits, EndsFit, Channel!isFinished, Channel!readVars, Channel!TypeOK
  <2> QED BY <2>3, <2>5, <2>6, <2>7, <2>8
<1>2. CASE Channel!AgentCloses
  <2>1. /\ writable = "open" /\ writable' = "closing"
        /\ UNCHANGED <<sink, written, Channel!readVars, writer, isEnding, ended, beforeEnd>>
    BY <1>2 DEF Channel!AgentCloses
  <2>2. Channel!TypeOK' BY <2>1 DEF Channel!TypeOK, Channel!readVars
  <2>3. Channel!WritesThenTheEnd' /\ Conserved' /\ SinkInOrder'
    BY <2>1 DEF Channel!WritesThenTheEnd, Conserved, SinkInOrder, Channel!Due, Channel!readVars
  <2>4. ChannelReaderFits' /\ EndsFit'
    BY <2>1 DEF ChannelReaderFits, EndsFit, Channel!isFinished, Channel!readVars
  <2> QED BY <2>2, <2>3, <2>4
<1>3. CASE Channel!AgentAborts
  <2>1. /\ writable \in {"open", "closing"} /\ writable' = "aborting" /\ sink' = <<>>
        /\ UNCHANGED <<written, Channel!readVars, writer, isEnding, ended, beforeEnd>>
    BY <1>3 DEF Channel!AgentAborts
  <2>2. Channel!TypeOK' BY <2>1 DEF Channel!TypeOK, Channel!readVars
  <2>3. readable = "closed" => isEnding BY <2>1 DEF EndsFit
  <2>4. Channel!WritesThenTheEnd'
    BY <2>1, <2>3 DEF Channel!WritesThenTheEnd, Channel!Due, Channel!readVars
  <2>5. Conserved' /\ SinkInOrder' BY <2>1 DEF Conserved, SinkInOrder
  <2>6. ChannelReaderFits' /\ EndsFit'
    BY <2>1, <2>3 DEF ChannelReaderFits, EndsFit, Channel!isFinished, Channel!readVars
  <2> QED BY <2>2, <2>4, <2>5, <2>6
<1>4. ASSUME NEW valid \in BOOLEAN, Channel!Write(valid) PROVE ChannelInv'
  BY <1>4, WriteKeepsChannelInv
<1>5. CASE Channel!CloseSink
  <2>1. /\ writable = "closing" /\ writer = "idle" /\ sink = <<>> /\ writable' = "closed"
        /\ Channel!FinishOnce /\ UNCHANGED <<sink, written, isEnding, beforeEnd>>
    BY <1>5 DEF Channel!CloseSink
  <2>2. CASE Channel!isFinished
    <3>1. UNCHANGED <<Channel!readVars, writer, ended>> BY <2>1, <2>2 DEF Channel!FinishOnce
    <3>2. Channel!TypeOK' BY <2>1, <3>1 DEF Channel!TypeOK, Channel!readVars
    <3>3. readable # "open" /\ (readable = "closed" => isEnding)
      BY <2>1, <2>2 DEF EndsFit, Channel!isFinished
    <3>4. Channel!WritesThenTheEnd' /\ Conserved' /\ SinkInOrder'
      BY <2>1, <3>1, <3>3 DEF Channel!WritesThenTheEnd, Conserved, SinkInOrder, Channel!Due,
                              Channel!readVars
    <3>5. ChannelReaderFits' /\ EndsFit'
      BY <2>1, <3>1, <3>3 DEF ChannelReaderFits, EndsFit, Channel!isFinished, Channel!readVars
    <3> QED BY <3>2, <3>4, <3>5
  <2>3. CASE ~Channel!isFinished
    <3>1. Channel!Finish /\ readable = "open"
      BY <2>1, <2>3 DEF Channel!FinishOnce, Channel!isFinished
    <3>2. Len(channelTaken) + Len(channelQueue) >= Channel!Due
      BY <2>1, <3>1 DEF Conserved, Channel!Due, EndsFit, Channel!TypeOK
    <3> QED BY <2>1, <3>1, <3>2, FinishKeepsChannelInv
  <2> QED BY <2>2, <2>3
<1>6. CASE Channel!AbortSink
  <2>1. /\ writable = "aborting" /\ writer = "idle" /\ writable' = "errored" /\ Channel!Fail
        /\ UNCHANGED <<sink, written, isEnding, beforeEnd>>
    BY <1>6 DEF Channel!AbortSink
  <2> QED BY <2>1, FailKeepsChannelInv
<1>7. CASE Channel!End
  <2>1. /\ readable = "open" /\ ~isEnding /\ isEnding' = TRUE /\ beforeEnd' = written
        /\ writer' = "idle" /\ UNCHANGED <<Channel!agentVars, Channel!readVars, ended>>
    BY <1>7 DEF Channel!End, Channel!isFinished
  <2>2. Channel!TypeOK' BY <2>1 DEF Channel!TypeOK, Channel!agentVars, Channel!readVars
  <2>3. Channel!WritesThenTheEnd' /\ Conserved' /\ SinkInOrder'
    BY <2>1 DEF Channel!WritesThenTheEnd, Conserved, SinkInOrder, Channel!agentVars,
                Channel!readVars
  <2>4. ChannelReaderFits' /\ EndsFit'
    BY <2>1 DEF ChannelReaderFits, EndsFit, Channel!isFinished, Channel!agentVars,
                Channel!readVars, Channel!TypeOK
  <2> QED BY <2>2, <2>3, <2>4
<1>8. CASE Channel!EndTimer
  <2>1. /\ isEnding /\ readable = "open" /\ Channel!NoMicrotasks /\ Channel!Finish
        /\ UNCHANGED <<Channel!agentVars, isEnding, beforeEnd>>
    BY <1>8 DEF Channel!EndTimer, Channel!isFinished
  <2>2. writable = "open" /\ sink = <<>>
    BY <2>1 DEF Channel!NoMicrotasks, Channel!HandsOver, EndsFit, Channel!isFinished,
                Channel!TypeOK
  <2>3. Len(channelTaken) + Len(channelQueue) >= Channel!Due
    BY <2>1, <2>2 DEF Conserved, Channel!Due, EndsFit, Channel!TypeOK
  <2> QED BY <2>1, <2>2, <2>3, FinishKeepsChannelInv DEF Channel!agentVars
<1>9. CASE Channel!Read
  BY <1>9, ReadKeepsChannelInv
<1>10. CASE Channel!Pull
  <2>1. /\ channelReader = "asked" /\ channelReader' = "waiting" /\ writer' = "idle"
        /\ UNCHANGED <<Channel!agentVars, channelQueue, readable, isEnding, ended, beforeEnd,
                       channelTaken>>
    BY <1>10 DEF Channel!Pull
  <2>2. Channel!TypeOK' BY <2>1 DEF Channel!TypeOK, Channel!agentVars
  <2>3. Channel!WritesThenTheEnd' /\ Conserved' /\ SinkInOrder'
    BY <2>1 DEF Channel!WritesThenTheEnd, Conserved, SinkInOrder, Channel!Due, Channel!agentVars
  <2>4. ChannelReaderFits' /\ EndsFit'
    BY <2>1 DEF ChannelReaderFits, EndsFit, Channel!isFinished, Channel!agentVars
  <2> QED BY <2>2, <2>3, <2>4
<1>11. CASE Channel!Cancel
  <2>1. /\ readable \in {"open", "closed"} /\ readable' = "cancelled" /\ channelQueue' = <<>>
        /\ channelReader' = "done" /\ writer' = "idle"
        /\ UNCHANGED <<Channel!agentVars, isEnding, ended, beforeEnd, channelTaken>>
    BY <1>11 DEF Channel!Cancel, Channel!WriterAfterCancel
  <2>2. Channel!TypeOK' BY <2>1 DEF Channel!TypeOK, Channel!agentVars
  <2>3. Channel!WritesThenTheEnd' /\ Conserved' /\ SinkInOrder'
    BY <2>1 DEF Channel!WritesThenTheEnd, Conserved, SinkInOrder, Channel!agentVars
  <2>4. ChannelReaderFits' /\ EndsFit'
    BY <2>1 DEF ChannelReaderFits, EndsFit, Channel!isFinished, Channel!agentVars
  <2> QED BY <2>2, <2>3, <2>4
<1>12. CASE UNCHANGED channelVars
  <2>1. Channel!TypeOK' BY <1>12 DEF channelVars, Channel!TypeOK
  <2>2. Channel!WritesThenTheEnd' /\ Conserved' /\ SinkInOrder'
    BY <1>12 DEF channelVars, Channel!WritesThenTheEnd, Conserved, SinkInOrder, Channel!Due
  <2>3. ChannelReaderFits' /\ EndsFit'
    BY <1>12 DEF channelVars, ChannelReaderFits, EndsFit, Channel!isFinished
  <2> QED BY <2>1, <2>2, <2>3
<1> QED BY <1>1, <1>2, <1>3, <1>4, <1>5, <1>6, <1>7, <1>8, <1>9, <1>10, <1>11, <1>12 DEF Channel!Next

(* ChannelInv is an invariant of the run's specification, where the         *)
(* channel is beside the mailbox and its responses.                        *)
THEOREM ChannelInvariance == ChannelSpec => []ChannelInv
<1>1. ChannelInv /\ [ChannelNext]_<<allVars, channelVars>> => ChannelInv'
  <2>1. [ChannelNext]_<<allVars, channelVars>> => [Channel!Next]_channelVars
    BY DEF ChannelNext
  <2> QED BY <2>1, NextKeepsChannelInv
<1> QED BY InitChannelInv, <1>1, PTL DEF ChannelSpec

(* The channel's variables keep their types. *)
THEOREM ChannelTypeCorrect == ChannelSpec => []Channel!TypeOK
<1>1. ChannelInv => Channel!TypeOK
  BY DEF ChannelInv
<1> QED BY ChannelInvariance, <1>1, PTL

(* However many messages an agent writes, and however its closing, its     *)
(* abort, end() and the connection's shutdown meet: the router gets them   *)
(* in order, a channel that finishes has let all of them through, and its  *)
(* end is told once.                                                       *)
THEOREM NoWriteIsLost == ChannelSpec => []WritesThenTheEnd
<1>1. ChannelInv => WritesThenTheEnd
  BY DEF ChannelInv, WritesThenTheEnd
<1> QED BY ChannelInvariance, <1>1, PTL

(* No write waits where nothing will let it go on: the safety part of      *)
(* WritersGoOn.  The inductive part: a write waits only for a router that  *)
(* has not asked for a message yet, and an agent's side that is over has   *)
(* dropped the writes it had not handed over.                              *)
WaitsForTheRouter ==
    /\ writer = "blocked" => readable = "open" /\ channelReader \in {"idle", "asked"}
    /\ writable \notin {"open", "closing"} => sink = <<>>

LEMMA NextKeepsWaiting ==
    ASSUME Channel!TypeOK, WaitsForTheRouter, [Channel!Next]_channelVars
    PROVE  WaitsForTheRouter'
<1> USE DEF WaitsForTheRouter, Channel!agentVars, Channel!readVars
<1>1. CASE Channel!AgentWrites \/ Channel!AgentCloses \/ Channel!AgentAborts
  BY <1>1 DEF Channel!AgentWrites, Channel!AgentCloses, Channel!AgentAborts
<1>2. ASSUME NEW valid \in BOOLEAN, Channel!Write(valid) PROVE WaitsForTheRouter'
  <2>1. CASE Channel!isFinished \/ ~valid
    BY <1>2, <2>1 DEF Channel!Write, Channel!HandsOver, Channel!Fail, Channel!isFinished
  <2>2. CASE ~(Channel!isFinished \/ ~valid)
    BY <1>2, <2>2 DEF Channel!Write, Channel!HandsOver, Channel!isFinished
  <2> QED BY <2>1, <2>2
<1>3. CASE Channel!CloseSink
  BY <1>3 DEF Channel!CloseSink, Channel!FinishOnce, Channel!Finish, Channel!isFinished
<1>4. CASE Channel!AbortSink
  BY <1>4 DEF Channel!AbortSink, Channel!Fail, Channel!isFinished
<1>5. CASE Channel!End
  BY <1>5 DEF Channel!End
<1>6. CASE Channel!EndTimer
  BY <1>6 DEF Channel!EndTimer, Channel!Finish
<1>7. CASE Channel!Read
  BY <1>7 DEF Channel!Read, Channel!isFinished
<1>8. CASE Channel!Pull
  BY <1>8 DEF Channel!Pull
<1>9. CASE Channel!Cancel
  BY <1>9 DEF Channel!Cancel, Channel!WriterAfterCancel
<1>10. CASE UNCHANGED channelVars
  BY <1>10 DEF channelVars
<1> QED
  BY <1>1, <1>2, <1>3, <1>4, <1>5, <1>6, <1>7, <1>8, <1>9, <1>10 DEF Channel!Next

(* A write waits for the router only while the channel is open and not     *)
(* ending, and the router is yet to read or the stream to pull; and a      *)
(* write that is not handed over waits for such a write, or the writable   *)
(* stream is about to hand it over.                                        *)
NoWriteIsStuck ==
    /\ writer = "blocked" =>
          readable = "open" /\ ~isEnding /\ channelReader \in {"idle", "asked"}
    /\ sink # <<>> => writer = "blocked" \/ Channel!HandsOver

(* However writes, reads, the end of the agent and of the connection meet, *)
(* whatever a write waits for can still come: the safety part of           *)
(* WritersGoOn, for any number of messages.                                *)
THEOREM WritersCanGoOn == ChannelSpec => []NoWriteIsStuck
<1>1. Channel!Init => WaitsForTheRouter
  BY DEF Channel!Init, WaitsForTheRouter
<1>2. ChannelInv /\ WaitsForTheRouter /\ [ChannelNext]_<<allVars, channelVars>>
          => WaitsForTheRouter'
  <2>1. [ChannelNext]_<<allVars, channelVars>> => [Channel!Next]_channelVars
    BY Zenon DEF ChannelNext
  <2> QED BY <2>1, NextKeepsWaiting DEF ChannelInv
<1>3. ChannelInv /\ WaitsForTheRouter => NoWriteIsStuck
  BY DEF ChannelInv, Channel!TypeOK, EndsFit, WaitsForTheRouter, NoWriteIsStuck, Channel!HandsOver
<1> QED BY <1>1, <1>2, <1>3, ChannelInvariance, PTL DEF ChannelSpec
=============================================================================
