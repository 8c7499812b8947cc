------------------------------ MODULE WsStream ------------------------------
(***************************************************************************)
(* WebSocketStreamTransport of ws-stream.ts: the client's stream over a    *)
(* WebSocket.  Sends queue behind one another; the first may wait for the  *)
(* socket to open.  The socket closes or fails, and the user closes the    *)
(* stream, at any point of that.                                           *)
(*                                                                         *)
(* The writable stream hands over one write of the user at a time; replies *)
(* to messages that do not parse join the same queue.  Sends are numbered  *)
(* in the order in which they are queued.                                  *)
(***************************************************************************)
EXTENDS Integers, Sequences

CONSTANT MaxSends       \* bound on the messages that are queued to be sent

VARIABLES
    socket,         \* "connecting", "open", "closing" or "closed"
    tellsState,     \* whether the socket has a readyState
    isClosed,
    openPromise,    \* whether it is there, and then pending
    readable,       \* "open", "closed" or "errored"
    writable,       \* "open", "closing" (close() or abort() waits for a write
                    \* that is under way), "closed" or "errored"
    sendQueue,      \* what is queued: [id, reply: whether it is an error reply]
    sender,         \* what the first of it awaits: "idle" (not begun),
                    \* "open", "rejected", or "ready" to send
    queued,         \* history: how many sends were queued
    sent,           \* history: the sends that the socket took
    sentBefore      \* history: how many there were when the stream closed

vars == <<socket, tellsState, isClosed, openPromise, readable, writable,
          sendQueue, sender, queued, sent, sentBefore>>

Init ==
    /\ socket = "connecting"
    /\ tellsState \in BOOLEAN
    /\ isClosed = FALSE
    /\ openPromise = TRUE
    /\ readable = "open"
    /\ writable = "open"
    /\ sendQueue = <<>>
    /\ sender = "idle"
    /\ queued = 0
    /\ sent = <<>>
    /\ sentBefore = 0

-----------------------------------------------------------------------------
(* Closing.                                                                *)

(* Faulty: only the open event settles the promise.                        *)
LeaveSender == sender

(* rejectOpen, for a send that waits for the socket to open.               *)
RejectOpen == IF sender = "open" THEN "rejected" ELSE sender

(* closeReadable and errorReadable: the first of them detaches the         *)
(* listeners and rejects what waits for the socket to open.                *)
EndStream(how) ==
    IF isClosed
    THEN UNCHANGED <<isClosed, readable, openPromise, sender, sentBefore>>
    ELSE /\ isClosed' = TRUE
         /\ readable' = how
         /\ openPromise' = FALSE
         /\ sender' = RejectOpen
         /\ sentBefore' = Len(sent)

CloseSocket == socket' = IF socket \in {"connecting", "open"} THEN "closing" ELSE socket

(* cancel() of the readable stream, which does not wait for anything.      *)
Cancel ==
    /\ readable = "open"
    /\ CloseSocket
    /\ EndStream("closed")
    /\ UNCHANGED <<tellsState, writable, sendQueue, queued, sent>>

UserSends == \E i \in 1 .. Len(sendQueue) : ~sendQueue[i].reply

(* close() and abort() of the writable stream wait for the write under way *)
(* before they reach the transport.                                        *)
CloseWritable ==
    /\ writable = "open"
    /\ writable' = "closing"
    /\ UNCHANGED <<socket, tellsState, isClosed, openPromise, readable, sendQueue,
                   sender, queued, sent, sentBefore>>

WritableCloses ==
    /\ writable = "closing"
    /\ ~UserSends
    /\ writable' = "closed"
    /\ CloseSocket
    /\ EndStream("closed")
    /\ UNCHANGED <<tellsState, sendQueue, queued, sent>>

-----------------------------------------------------------------------------
(* The socket.                                                             *)

SocketOpens ==
    /\ socket = "connecting"
    /\ socket' = "open"
    /\ openPromise' = FALSE
    /\ sender' = IF sender = "open" THEN "ready" ELSE sender
    /\ UNCHANGED <<tellsState, isClosed, readable, writable, sendQueue, queued,
                   sent, sentBefore>>

PeerCloses ==
    /\ socket = "open"
    /\ socket' = "closing"
    /\ UNCHANGED <<tellsState, isClosed, openPromise, readable, writable, sendQueue,
                   sender, queued, sent, sentBefore>>

(* The close and the error event, which nobody hears any more when the     *)
(* stream has closed.                                                      *)
SocketEnds(how) ==
    /\ how = "closed" => socket = "closing"
    /\ socket # "closed"
    /\ socket' = "closed"
    /\ EndStream(how)
    /\ UNCHANGED <<tellsState, writable, sendQueue, queued, sent>>

-----------------------------------------------------------------------------
(* Sending.                                                                *)

QueueMessage(reply) ==
    /\ queued < MaxSends
    /\ queued' = queued + 1
    /\ sendQueue' = Append(sendQueue, [id |-> queued + 1, reply |-> reply])

(* The writable stream hands over the next write of the user. *)
UserWrites ==
    /\ writable = "open" /\ ~UserSends
    /\ QueueMessage(FALSE)
    /\ UNCHANGED <<socket, tellsState, isClosed, openPromise, readable, writable,
                   sender, sent, sentBefore>>

(* A message arrives that is none: handleSocketMessage sends an error. *)
ReceiveMalformed ==
    /\ socket = "open" /\ ~isClosed
    /\ QueueMessage(TRUE)
    /\ UNCHANGED <<socket, tellsState, isClosed, openPromise, readable, writable,
                   sender, sent, sentBefore>>

(* The first send fails, and does not stop the ones behind it: a write of  *)
(* the user fails the writable stream, and a reply that cannot be sent     *)
(* fails the readable one.                                                 *)
FailSend ==
    /\ sendQueue' = Tail(sendQueue)
    /\ IF Head(sendQueue).reply
       THEN /\ IF isClosed
               THEN UNCHANGED <<isClosed, readable, openPromise, sentBefore>>
               ELSE /\ isClosed' = TRUE
                    /\ readable' = "errored"
                    /\ openPromise' = FALSE
                    /\ sentBefore' = Len(sent)
            /\ UNCHANGED writable
       ELSE /\ writable' = "errored"
            /\ UNCHANGED <<isClosed, readable, openPromise, sentBefore>>
    /\ sender' = "idle"

(* waitForOpen: a socket that does not say is taken to be open. *)
WaitForOpen ==
    IF tellsState /\ socket # "open" /\ openPromise THEN "open" ELSE "ready"

(* sendMessage up to its first await. *)
BeginSend ==
    /\ sender = "idle" /\ sendQueue # <<>>
    /\ IF isClosed
       THEN FailSend
       ELSE /\ sender' = WaitForOpen
            /\ UNCHANGED <<sendQueue, isClosed, readable, openPromise, writable, sentBefore>>
    /\ UNCHANGED <<socket, tellsState, queued, sent>>

(* Faulty: the stream is not looked at again after the wait.               *)
StillThere == TRUE

(* Whether a send that has waited may go out. *)
MaySend == ~isClosed

(* The rest of sendMessage.  A socket that is connecting throws; one that  *)
(* closes takes what it is given, and drops it.                            *)
FinishSend ==
    /\ sender = "ready"
    /\ IF ~MaySend \/ socket = "connecting"
       THEN FailSend /\ UNCHANGED sent
       ELSE /\ sendQueue' = Tail(sendQueue)
            /\ sender' = "idle"
            /\ sent' = Append(sent, Head(sendQueue).id)
            /\ UNCHANGED <<isClosed, readable, openPromise, writable, sentBefore>>
    /\ UNCHANGED <<socket, tellsState, queued>>

RejectSend ==
    /\ sender = "rejected"
    /\ FailSend
    /\ UNCHANGED <<socket, tellsState, queued, sent>>

-----------------------------------------------------------------------------
Next ==
    \/ Cancel \/ CloseWritable \/ WritableCloses
    \/ SocketOpens \/ PeerCloses
    \/ \E how \in {"closed", "errored"} : SocketEnds(how)
    \/ UserWrites \/ ReceiveMalformed
    \/ BeginSend \/ FinishSend \/ RejectSend

Spec == Init /\ [][Next]_vars

(* The event loop runs what is queued.  Neither the network nor the user   *)
(* need do anything.                                                       *)
Fairness ==
    /\ WF_vars(BeginSend) /\ WF_vars(FinishSend) /\ WF_vars(RejectSend)
    /\ WF_vars(WritableCloses)

LiveSpec == Spec /\ Fairness

-----------------------------------------------------------------------------
(* Properties.                                                             *)

(* The values the variables take. *)
TypeOK ==
    /\ socket \in {"connecting", "open", "closing", "closed"}
    /\ tellsState \in BOOLEAN /\ isClosed \in BOOLEAN /\ openPromise \in BOOLEAN
    /\ readable \in {"open", "closed", "errored"}
    /\ writable \in {"open", "closing", "closed", "errored"}
    /\ sendQueue \in Seq([id : 1 .. MaxSends, reply : BOOLEAN])
    /\ sender \in {"idle", "open", "rejected", "ready"}
    /\ queued \in 0 .. MaxSends
    /\ sent \in Seq(1 .. MaxSends)
    /\ sentBefore \in 0 .. MaxSends

(* Messages go out in the order in which they were queued, whichever of    *)
(* them fail, and none is taken for sent once the stream has closed: a     *)
(* send that was under way then, which the socket would drop, fails.       *)
SentInOrder ==
    /\ \A i, j \in 1 .. Len(sent) : i < j => sent[i] < sent[j]
    /\ \A i \in 1 .. Len(sent), j \in 1 .. Len(sendQueue) : sent[i] < sendQueue[j].id
    /\ isClosed => Len(sent) = sentBefore

(* No send waits for a socket that opened, or that nobody waits for any    *)
(* more because the stream or the socket closed; and then close() and      *)
(* abort(), which wait for the send, get through.                          *)
SendsSettle ==
    /\ \A n \in 1 .. MaxSends :
        queued >= n /\ ~openPromise ~> sendQueue = <<>> \/ Head(sendQueue).id > n
    /\ writable = "closing" /\ ~openPromise ~> writable # "closing"
=============================================================================
