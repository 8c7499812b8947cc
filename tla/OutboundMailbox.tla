-------------------------- MODULE OutboundMailbox --------------------------
(***************************************************************************)
(* OutboundMailbox and MailboxLease of connection.ts: a queue of messages  *)
(* that one receiver at a time may drain, under a lease.  The queue        *)
(* outlives its receivers, so that an event stream which is reopened takes *)
(* over where the last one stopped.                                        *)
(*                                                                         *)
(* JavaScript runs a receiver from one `await` to the next without         *)
(* interruption.  A receiver is therefore idle, waiting for the promise    *)
(* of its lease, or woken: that promise has resolved and the loop of       *)
(* receive() is about to look again.  The mailbox is an enabled one.       *)
(***************************************************************************)
EXTENDS Integers, Sequences, FiniteSets

CONSTANTS
    Leases,         \* the leases that may be acquired, each once
    NoLease,        \* the value of activeLease when there is none
    MaxMessages     \* bound on the messages that are pushed

ASSUME NoLeaseAssumption     == NoLease \notin Leases
ASSUME MaxMessagesAssumption == MaxMessages \in Nat

VARIABLES
    queue,          \* messages waiting, oldest first
    activeLease,    \* the lease that holds the mailbox
    isFinished,     \* nothing more is accepted; what waits may be taken
    isAborted,      \* what waited was dropped
    leases,         \* [Leases -> {"unused", "held", "released"}]
    reader,         \* [Leases -> {"idle", "waiting", "woken"}]
    stopped,        \* leases whose `stopped` signal is aborted
    buffered,       \* what the observer has counted as queued
    accepted,       \* history: how many messages were accepted
    taken           \* history: the messages receivers got, in order

vars == <<queue, activeLease, isFinished, isAborted, leases, reader, stopped,
          buffered, accepted, taken>>

-----------------------------------------------------------------------------
(* Messages are numbered in the order in which they are accepted.          *)

Init ==
    /\ queue = <<>>
    /\ activeLease = NoLease
    /\ isFinished = FALSE
    /\ isAborted = FALSE
    /\ leases = [l \in Leases |-> "unused"]
    /\ reader = [l \in Leases |-> "idle"]
    /\ stopped = {}
    /\ buffered = 0
    /\ accepted = 0
    /\ taken = <<>>

(* Faulty: nobody is woken. *)
WakeNobody(l) == reader

(* MailboxLease.wake: resolves the promise a receiver waits for, if any.   *)
Wake(l) == [k \in Leases |-> IF k = l /\ reader[k] = "waiting" THEN "woken" ELSE reader[k]]

(* push() on a finished mailbox does nothing. *)
Push ==
    /\ ~isFinished
    /\ accepted < MaxMessages
    /\ accepted' = accepted + 1
    /\ queue' = Append(queue, accepted + 1)
    /\ buffered' = buffered + 1
    /\ reader' = Wake(activeLease)
    /\ UNCHANGED <<activeLease, isFinished, isAborted, leases, stopped, taken>>

Acquirable == ~isAborted /\ activeLease = NoLease

TryAcquire(l) ==
    /\ leases[l] = "unused"
    /\ Acquirable
    /\ activeLease' = l
    /\ leases' = [leases EXCEPT ![l] = "held"]
    /\ UNCHANGED <<queue, isFinished, isAborted, reader, stopped, buffered,
                   accepted, taken>>

Finish ==
    /\ ~isFinished
    /\ isFinished' = TRUE
    /\ reader' = Wake(activeLease)
    /\ UNCHANGED <<queue, activeLease, isAborted, leases, stopped, buffered,
                   accepted, taken>>

(* The lease that holds the mailbox, if any. *)
Holder == {activeLease} \ {NoLease}

(* How many messages abort() dequeues. *)
Dropped == Len(queue)

(* abort() dequeues everything, with the observer watching, and stops the  *)
(* lease that holds the mailbox.  The lease is not released.               *)
Abort ==
    /\ ~isAborted
    /\ isAborted' = TRUE
    /\ isFinished' = TRUE
    /\ queue' = <<>>
    /\ buffered' = buffered - Dropped
    /\ stopped' = stopped \cup Holder
    /\ reader' = Wake(activeLease)
    /\ UNCHANGED <<activeLease, leases, accepted, taken>>

(* What receive() looks at before it waits: nothing will come any more. *)
Over(l) == activeLease # l \/ isAborted \/ (queue = <<>> /\ isFinished)

(* Faulty: the wrong end of the queue is dropped. *)
AllButLast == SubSeq(queue, 1, Len(queue) - 1)

(* The queue without its oldest message. *)
AllButFirst == Tail(queue)

(* One round of the loop of receive(), from the call or from a wake-up to  *)
(* the next await or the result.                                           *)
Look(l) ==
    IF Over(l)
    THEN /\ reader' = [reader EXCEPT ![l] = "idle"]
         /\ UNCHANGED <<queue, buffered, taken>>
    ELSE IF queue = <<>>
    THEN /\ reader' = [reader EXCEPT ![l] = "waiting"]
         /\ UNCHANGED <<queue, buffered, taken>>
    ELSE /\ reader' = [reader EXCEPT ![l] = "idle"]
         /\ taken' = Append(taken, Head(queue))
         /\ queue' = AllButFirst
         /\ buffered' = buffered - 1

(* A lease refuses a second receive() while one is pending. *)
Receive(l) ==
    /\ leases[l] # "unused"
    /\ reader[l] = "idle"
    /\ Look(l)
    /\ UNCHANGED <<activeLease, isFinished, isAborted, leases, stopped, accepted>>

Resume(l) ==
    /\ reader[l] = "woken"
    /\ Look(l)
    /\ UNCHANGED <<activeLease, isFinished, isAborted, leases, stopped, accepted>>

(* release() wakes a pending receiver of the lease it takes away. *)
Release(l) ==
    /\ activeLease = l
    /\ activeLease' = NoLease
    /\ leases' = [leases EXCEPT ![l] = "released"]
    /\ reader' = Wake(l)
    /\ UNCHANGED <<queue, isFinished, isAborted, stopped, buffered, accepted, taken>>

-----------------------------------------------------------------------------
Next ==
    \/ Push
    \/ Finish
    \/ Abort
    \/ \E l \in Leases : TryAcquire(l) \/ Receive(l) \/ Resume(l) \/ Release(l)

Spec == Init /\ [][Next]_vars

-----------------------------------------------------------------------------
(* Properties.                                                             *)

(* The values the variables take. *)
TypeOK ==
    /\ queue \in Seq(1 .. MaxMessages)
    /\ activeLease \in Leases \cup {NoLease}
    /\ isFinished \in BOOLEAN
    /\ isAborted \in BOOLEAN
    /\ leases \in [Leases -> {"unused", "held", "released"}]
    /\ reader \in [Leases -> {"idle", "waiting", "woken"}]
    /\ stopped \subseteq Leases
    /\ buffered \in Int
    /\ accepted \in 0 .. MaxMessages
    /\ taken \in Seq(1 .. MaxMessages)

(* Receivers get the messages in the order they were pushed, each once and *)
(* none missing, however often the mailbox changes hands: what was taken   *)
(* and what still waits together are the messages accepted.  Aborting      *)
(* drops the rest, and only that.                                          *)
InOrderOnceEach ==
    /\ \A i \in 1 .. Len(taken) : taken[i] = i
    /\ \A i \in 1 .. Len(queue) : queue[i] = Len(taken) + i
    /\ IF isAborted THEN queue = <<>> ELSE accepted = Len(taken) + Len(queue)

(* No wake-up is lost: a receiver sleeps only while its lease holds the    *)
(* mailbox and there is nothing for it to take and nothing to tell it.     *)
NoLostWakeup ==
    \A l \in Leases : reader[l] = "waiting" =>
        activeLease = l /\ queue = <<>> /\ ~isFinished

(* The observer's count, which is what the limit on buffered output works  *)
(* with, is the number of messages waiting, also after an abort.           *)
CountIsExact == buffered = Len(queue)

(* At most one lease is held, the active one; it learns of an abort        *)
(* through its signal, since it may not be receiving when that happens.    *)
OneHolder ==
    /\ \A l \in Leases : leases[l] = "held" <=> activeLease = l
    /\ isAborted /\ activeLease # NoLease => activeLease \in stopped

=============================================================================
