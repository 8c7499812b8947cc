---------------------------- MODULE SseResponse ----------------------------
(***************************************************************************)
(* The responses to GET requests, one after the other on one outbound      *)
(* mailbox: the event-stream body of server-sse.ts, which holds a lease of *)
(* the mailbox and takes a message only when its reader asks for a chunk,  *)
(* and writeNodeResponse of node-adapter.ts, the reader, which writes the  *)
(* chunks to a socket that may be slow, stuck or gone.                     *)
(*                                                                         *)
(* The mailbox is that of OutboundMailbox, whose operations this module    *)
(* composes with what the body does in the same turn of the event loop.    *)
(***************************************************************************)
EXTENDS OutboundMailbox

(* The chunk of a comment.  Messages are numbered from 1.                  *)
KeepAlive == 0

VARIABLES
    body,           \* [Leases -> {"none", "open", "closed", "errored", "cancelled"}]
    isReaderWaiting,\* leases whose reader asked for a chunk it was not given
    receiving,      \* deliver(): "no", "pending" receive(), or its result:
                    \* "message", "done" or "error"
    result,         \* the message, if there is one
    chunks,         \* chunks a body holds for a reader that did not ask
    http,           \* writeNodeResponse: "none", "next" (about to read),
                    \* "reading", "chunk" (one to write), "draining", "over"
    chunk,          \* the chunk it has to write
    res,            \* the ServerResponse: "open", "ended" or "closed"
    delivered       \* history: the messages written to a socket, in order

bodyVars == <<body, isReaderWaiting, receiving, result, chunks>>
httpVars == <<http, chunk, res, delivered>>
allVars  == <<vars, bodyVars, httpVars>>

SseInit ==
    /\ Init
    /\ body = [l \in Leases |-> "none"]
    /\ isReaderWaiting = {}
    /\ receiving = [l \in Leases |-> "no"]
    /\ result = [l \in Leases |-> KeepAlive]
    /\ chunks = [l \in Leases |-> <<>>]
    /\ http = [l \in Leases |-> "none"]
    /\ chunk = [l \in Leases |-> KeepAlive]
    /\ res = [l \in Leases |-> "open"]
    /\ delivered = <<>>

-----------------------------------------------------------------------------
(* Steps that several operations share.                                    *)

(* lease.release(), whose lease may have been taken away before. *)
ReleaseLease(l) == IF activeLease = l THEN Release(l) ELSE UNCHANGED vars

(* What the call of receive() and each of its rounds come to. *)
Received(l) ==
    CASE Over(l) /\ isAborted /\ activeLease = l -> "error"
      [] Over(l) /\ ~(isAborted /\ activeLease = l) -> "done"
      [] ~Over(l) /\ queue = <<>> -> "pending"
      [] OTHER -> "message"

(* The receive() of a lease begins or goes another round: what comes of it.*)
Receives(l) ==
    /\ receiving' = [receiving EXCEPT ![l] = Received(l)]
    /\ result' = [result EXCEPT ![l] = IF Received(l) = "message" THEN Head(queue) ELSE KeepAlive]

(* The response is over and its reader is cancelled: cancel() of the       *)
(* source, unless the body has ended by then.                              *)
CancelBody(l) ==
    IF body[l] = "open"
    THEN /\ body' = [body EXCEPT ![l] = "cancelled"]
         /\ chunks' = [chunks EXCEPT ![l] = <<>>]
         /\ ReleaseLease(l)
    ELSE UNCHANGED <<body, chunks, vars>>

(* errorBody and closeBody.  A closed body still hands out what it holds.  *)
EndBody(l, how) ==
    /\ body' = [body EXCEPT ![l] = how]
    /\ chunks' = IF how = "errored" THEN [chunks EXCEPT ![l] = <<>>] ELSE chunks

-----------------------------------------------------------------------------
(* Faulty: a write that waits does not look at the body.                   *)
ReadsFail(l) == body[l] = "errored" /\ http[l] = "reading"

(* The reader learns that the body failed by a read, or while it waits for *)
(* the socket.                                                             *)
SeesFailure(l) == body[l] = "errored" /\ http[l] \in {"reading", "draining"}

(* Timers and events of sockets come when the microtasks are done.         *)
NoMicrotasks ==
    \A l \in Leases :
        /\ receiving[l] \in {"no", "pending"} /\ reader[l] # "woken"
        /\ http[l] \notin {"next", "chunk"} /\ ~SeesFailure(l)

(* GET.  A client that left before its response is begun is not noticed:   *)
(* the close event came before there was a listener.                       *)
Get(l, early) ==
    /\ NoMicrotasks
    /\ TryAcquire(l)
    /\ body' = [body EXCEPT ![l] = "open"]
    /\ http' = [http EXCEPT ![l] = "next"]
    /\ res' = [res EXCEPT ![l] = IF early THEN "closed" ELSE "open"]
    /\ UNCHANGED <<isReaderWaiting, receiving, result, chunks, chunk, delivered>>

(* The loop of writeNodeResponse asks for a chunk.  A body that holds none *)
(* and is open calls pull(), which starts deliver() unless it runs.        *)
Read(l) ==
    /\ http[l] = "next"
    /\ IF chunks[l] # <<>>
       THEN /\ http' = [http EXCEPT ![l] = "chunk"]
            /\ chunk' = [chunk EXCEPT ![l] = Head(chunks[l])]
            /\ chunks' = [chunks EXCEPT ![l] = Tail(@)]
            /\ UNCHANGED <<vars, isReaderWaiting, receiving, result>>
       ELSE /\ http' = [http EXCEPT ![l] = "reading"]
            /\ UNCHANGED <<chunk, chunks>>
            /\ IF body[l] = "open"
               THEN /\ isReaderWaiting' = isReaderWaiting \cup {l}
                    /\ IF receiving[l] = "no"
                       THEN Receives(l) /\ Receive(l)
                       ELSE UNCHANGED <<vars, receiving, result>>
               ELSE UNCHANGED <<vars, isReaderWaiting, receiving, result>>
    /\ UNCHANGED <<body, res, delivered>>

(* The pending receive() of a lease goes another round. *)
ResumeReceive(l) ==
    /\ Resume(l)
    /\ Receives(l)
    /\ UNCHANGED <<body, isReaderWaiting, chunks, httpVars>>

(* Faulty: the reader is taken to be there, as it was when receive() began. *)
EnqueueForReader(l, value) ==
    /\ http' = [http EXCEPT ![l] = IF @ = "reading" THEN "chunk" ELSE @]
    /\ chunk' = [chunk EXCEPT ![l] = IF http[l] = "reading" THEN value ELSE @]
    /\ UNCHANGED chunks

(* controller.enqueue: the chunk goes to the reader that asked for it.     *)
Enqueue(l, value) ==
    IF http[l] = "reading"
    THEN /\ http' = [http EXCEPT ![l] = "chunk"]
         /\ chunk' = [chunk EXCEPT ![l] = value]
         /\ UNCHANGED chunks
    ELSE /\ chunks' = [chunks EXCEPT ![l] = Append(@, value)]
         /\ UNCHANGED <<http, chunk>>

(* endIfStopped(), after a chunk was enqueued. *)
EndsIfStopped(l) == l \in stopped

(* deliver() goes on with the result of receive(). *)
Deliver(l) ==
    /\ receiving[l] \notin {"no", "pending"}
    /\ receiving' = [receiving EXCEPT ![l] = "no"]
    /\ result' = [result EXCEPT ![l] = KeepAlive]
    /\ CASE body[l] # "open" ->
              UNCHANGED <<vars, body, isReaderWaiting, chunks, http, chunk>>
         [] body[l] = "open" /\ receiving[l] \in {"done", "error"} ->
              /\ EndBody(l, IF receiving[l] = "done" THEN "closed" ELSE "errored")
              /\ ReleaseLease(l)
              /\ UNCHANGED <<isReaderWaiting, http, chunk>>
         [] OTHER ->
              /\ isReaderWaiting' = isReaderWaiting \ {l}
              /\ IF EndsIfStopped(l)
                 THEN /\ EndBody(l, "errored")
                      /\ ReleaseLease(l)
                      /\ IF http[l] = "reading"
                         THEN /\ http' = [http EXCEPT ![l] = "chunk"]
                              /\ chunk' = [chunk EXCEPT ![l] = result[l]]
                         ELSE UNCHANGED <<http, chunk>>
                 ELSE /\ Enqueue(l, result[l])
                      /\ UNCHANGED <<vars, body>>
    /\ UNCHANGED <<res, delivered>>

(* The timer that keeps an idle stream alive. *)
KeepAliveTimer(l) ==
    /\ NoMicrotasks
    /\ body[l] = "open" /\ l \in isReaderWaiting
    /\ isReaderWaiting' = isReaderWaiting \ {l}
    /\ Enqueue(l, KeepAlive)
    /\ UNCHANGED <<vars, body, receiving, result, res, delivered>>

(* The reader has a chunk and writes it, unless the client has left, which *)
(* it may not have known.  A socket that is full is waited for.            *)
Write(l, full) ==
    /\ http[l] = "chunk"
    /\ chunk' = [chunk EXCEPT ![l] = KeepAlive]
    /\ IF res[l] = "open"
       THEN /\ http' = [http EXCEPT ![l] = IF full THEN "draining" ELSE "next"]
            /\ delivered' = IF chunk[l] = KeepAlive THEN delivered
                            ELSE Append(delivered, chunk[l])
            /\ UNCHANGED <<vars, body, chunks>>
       ELSE /\ http' = [http EXCEPT ![l] = "over"]
            /\ CancelBody(l)
            /\ UNCHANGED delivered
    /\ UNCHANGED <<isReaderWaiting, receiving, result, res>>

Drain(l) ==
    /\ NoMicrotasks
    /\ http[l] = "draining"
    /\ http' = [http EXCEPT ![l] = "next"]
    /\ UNCHANGED <<vars, bodyVars, chunk, res, delivered>>

(* The close event of the response. *)
ClientLeaves(l) ==
    /\ NoMicrotasks
    /\ http[l] \notin {"none", "over"} /\ res[l] = "open"
    /\ res' = [res EXCEPT ![l] = "closed"]
    /\ http' = [http EXCEPT ![l] = "over"]
    /\ chunk' = [chunk EXCEPT ![l] = KeepAlive]
    /\ CancelBody(l)
    /\ UNCHANGED <<isReaderWaiting, receiving, result, delivered>>

(* The body is over: the response ends, or it is destroyed.                *)
BodyIsOver(l) ==
    /\ \/ body[l] = "closed" /\ http[l] = "reading"
       \/ SeesFailure(l)
    /\ http' = [http EXCEPT ![l] = "over"]
    /\ res' = [res EXCEPT ![l] = IF body[l] = "errored" \/ @ = "closed" THEN "closed" ELSE "ended"]
    /\ UNCHANGED <<vars, bodyVars, chunk, delivered>>

-----------------------------------------------------------------------------
(* The connection that owns the mailbox.                                   *)

PushMessage   == Push /\ UNCHANGED <<bodyVars, httpVars>>
FinishMailbox == Finish /\ UNCHANGED <<bodyVars, httpVars>>

(* abort() stops the lease.  endIfStopped() errors a body whose reader may *)
(* be stuck on a chunk, which releases the lease.                          *)
AbortMailbox ==
    IF \E l \in Holder : l \notin isReaderWaiting
    THEN /\ ~isAborted
         /\ isAborted' = TRUE
         /\ isFinished' = TRUE
         /\ queue' = <<>>
         /\ buffered' = 0
         /\ stopped' = stopped \cup Holder
         /\ activeLease' = NoLease
         /\ leases' = [leases EXCEPT ![activeLease] = "released"]
         /\ reader' = Wake(activeLease)
         /\ EndBody(activeLease, "errored")
         /\ UNCHANGED <<accepted, taken, isReaderWaiting, receiving, result, httpVars>>
    ELSE Abort /\ UNCHANGED <<bodyVars, httpVars>>

-----------------------------------------------------------------------------
SseNext ==
    \/ PushMessage \/ FinishMailbox \/ AbortMailbox
    \/ \E l \in Leases :
        \/ \E early \in BOOLEAN : Get(l, early)
        \/ Read(l) \/ ResumeReceive(l) \/ Deliver(l) \/ BodyIsOver(l)
        \/ \E full \in BOOLEAN : Write(l, full)
        \/ KeepAliveTimer(l) \/ Drain(l) \/ ClientLeaves(l)

SseSpec == SseInit /\ [][SseNext]_allVars

(* The event loop and the timer run; a client need neither read nor leave. *)
SseFairness ==
    \A l \in Leases :
        /\ WF_allVars(Read(l)) /\ WF_allVars(ResumeReceive(l)) /\ WF_allVars(Deliver(l))
        /\ WF_allVars(BodyIsOver(l)) /\ WF_allVars(\E full \in BOOLEAN : Write(l, full))
        /\ WF_allVars(KeepAliveTimer(l))

SseLiveSpec == SseSpec /\ SseFairness

-----------------------------------------------------------------------------
(* Properties.                                                             *)

InTransit(l) ==
    \/ receiving[l] = "message" \/ chunk[l] # KeepAlive \/ chunks[l] # <<>>
    \/ body[l] \in {"errored", "cancelled"}

(* The bodies take messages as their clients do: what was taken is written *)
(* in order, and what was not is one message at most for each response,    *)
(* which is on its way, or was when the client left or the stream stopped. *)
OneMessageAtRisk ==
    /\ \A i, j \in 1 .. Len(delivered) : i < j => delivered[i] < delivered[j]
    /\ Len(taken) - Len(delivered) <= Cardinality({l \in Leases : InTransit(l)})

(* A lease comes back, so that the next GET request may have it: also when *)
(* the client left before anybody listened, or does not read what it was   *)
(* sent when the stream stops.                                             *)
LeasesComeBack ==
    \A l \in Leases :
        /\ res[l] = "closed" ~> activeLease # l
        /\ l \in stopped ~> http[l] = "over"

=============================================================================
