-------------------------- MODULE OutboundChannel --------------------------
(***************************************************************************)
(* createOutboundChannel of connection.ts: the pair of streams that takes  *)
(* an agent's output to the router.  The writable side hands the channel   *)
(* one write at a time and keeps the others; a write that finds the router *)
(* busy waits until the router asks for the next message, so that an agent *)
(* which awaits its sends goes no faster than the router.                  *)
(*                                                                         *)
(* Messages are numbered in the order in which the agent writes them.      *)
(***************************************************************************)
EXTENDS Integers, Sequences

CONSTANT MaxMessages    \* bound on the messages the agent writes

VARIABLES
    writable,       \* "open", "closing", "aborting", "closed" or "errored"
    sink,           \* writes the writable stream has not handed over yet
    writer,         \* "blocked": a write waits for resumeWriter
    queue,          \* messages the router has not read yet
    readable,       \* "open", "closed", "errored" or "cancelled"
    reader,         \* "idle", "asked" (it waits, pull() is to come),
                    \* "waiting" or "done"
    isEnding,       \* end() was called; its timer may still have to run
    ended,          \* how often onEnd was called
    written,        \* history: how many messages the agent has written
    beforeEnd,      \* history: how many of them before end() was called
    taken           \* history: the messages the router has got

agentVars  == <<writable, sink, written>>
readVars   == <<queue, readable, reader, taken>>
vars == <<agentVars, readVars, writer, isEnding, ended, beforeEnd>>

Init ==
    /\ writable = "open"
    /\ sink = <<>>
    /\ writer = "idle"
    /\ queue = <<>>
    /\ readable = "open"
    /\ reader = "idle"
    /\ isEnding = FALSE
    /\ ended = 0
    /\ written = 0
    /\ beforeEnd = 0
    /\ taken = <<>>

isFinished == readable # "open"

-----------------------------------------------------------------------------
(* The ends of the channel.  resume() lets the write that waits go on; all *)
(* that is left of it is to return.                                        *)

(* controller.close(): what is queued may still be read. *)
Finish ==
    /\ readable' = "closed"
    /\ reader' = IF reader \in {"asked", "waiting"} THEN "done" ELSE reader
    /\ writer' = "idle"
    /\ ended' = ended + 1
    /\ UNCHANGED <<queue, taken>>

(* Faulty: finish() forgets that the channel may have finished before. *)
FinishAgain == Finish

(* finish() does nothing the second time. *)
FinishOnce ==
    IF isFinished
    THEN UNCHANGED <<readVars, writer, ended>>
    ELSE Finish

(* fail(): controller.error() drops what is queued. *)
Fail ==
    IF isFinished
    THEN UNCHANGED <<readVars, writer, ended>>
    ELSE /\ readable' = "errored"
         /\ queue' = <<>>
         /\ reader' = IF reader \in {"asked", "waiting"} THEN "done" ELSE reader
         /\ writer' = "idle"
         /\ ended' = ended + 1
         /\ UNCHANGED taken

-----------------------------------------------------------------------------
(* The agent, and the writable stream it writes to.                        *)

AgentWrites ==
    /\ writable = "open"
    /\ written < MaxMessages
    /\ written' = written + 1
    /\ sink' = Append(sink, written + 1)
    /\ UNCHANGED <<writable, readVars, writer, isEnding, ended, beforeEnd>>

AgentCloses ==
    /\ writable = "open"
    /\ writable' = "closing"
    /\ UNCHANGED <<sink, written, readVars, writer, isEnding, ended, beforeEnd>>

(* Aborting rejects the writes that were not handed over. *)
AgentAborts ==
    /\ writable \in {"open", "closing"}
    /\ writable' = "aborting"
    /\ sink' = <<>>
    /\ UNCHANGED <<written, readVars, writer, isEnding, ended, beforeEnd>>

(* The writable stream is about to hand over a write. *)
HandsOver == writable \in {"open", "closing"} /\ writer = "idle" /\ sink # <<>>

(* write(): a message goes to the reader that waits, or it is queued, and  *)
(* the write waits for the router unless the channel is ending.  It is     *)
(* refused if the channel is finished, or if validate() refuses it, which  *)
(* fails the channel; either way the writable stream fails.                *)
Write(valid) ==
    /\ HandsOver
    /\ IF isFinished \/ ~valid
       THEN /\ writable' = "errored"
            /\ sink' = <<>>
            /\ Fail
       ELSE /\ sink' = Tail(sink)
            /\ IF reader = "idle"
               THEN /\ queue' = Append(queue, Head(sink))
                    /\ writer' = IF isEnding THEN "idle" ELSE "blocked"
                    /\ UNCHANGED <<reader, taken>>
               ELSE /\ taken' = Append(taken, Head(sink))
                    /\ reader' = "idle"
                    /\ UNCHANGED <<queue, writer>>
            /\ UNCHANGED <<writable, readable, ended>>
    /\ UNCHANGED <<written, isEnding, beforeEnd>>

(* The close() of the sink runs once every write was handed over, and its  *)
(* abort() once the write that waits has gone on.                          *)
CloseSink ==
    /\ writable = "closing" /\ writer = "idle" /\ sink = <<>>
    /\ writable' = "closed"
    /\ FinishOnce
    /\ UNCHANGED <<sink, written, isEnding, beforeEnd>>

AbortSink ==
    /\ writable = "aborting" /\ writer = "idle"
    /\ writable' = "errored"
    /\ Fail
    /\ UNCHANGED <<sink, written, isEnding, beforeEnd>>

-----------------------------------------------------------------------------
(* The connection.                                                         *)

(* end(), for an agent whose `closed` has resolved. *)
End ==
    /\ ~isFinished /\ ~isEnding
    /\ isEnding' = TRUE
    /\ beforeEnd' = written
    /\ writer' = "idle"
    /\ UNCHANGED <<agentVars, readVars, ended>>

(* Faulty: the channel finishes as soon as nobody waits. *)
AtOnce == writer = "idle"

(* The timer of end() runs after the microtasks there are, which hand over *)
(* the writes one after the other, and close or abort the sink.            *)
NoMicrotasks ==
    writer = "idle" => ~HandsOver /\ writable \notin {"closing", "aborting"}

EndTimer ==
    /\ isEnding /\ ~isFinished
    /\ NoMicrotasks
    /\ Finish
    /\ UNCHANGED <<agentVars, isEnding, beforeEnd>>

-----------------------------------------------------------------------------
(* The router.                                                             *)

Read ==
    /\ reader = "idle"
    /\ IF queue # <<>>
       THEN /\ queue' = Tail(queue)
            /\ taken' = Append(taken, Head(queue))
            /\ UNCHANGED reader
       ELSE /\ reader' = IF isFinished THEN "done" ELSE "asked"
            /\ UNCHANGED <<queue, taken>>
    /\ UNCHANGED <<agentVars, writer, readable, isEnding, ended, beforeEnd>>

(* pull(), which the stream calls for a reader that waits.  A stream that  *)
(* is not done with the last call of pull() calls it a little later.       *)
Pull ==
    /\ reader = "asked"
    /\ reader' = "waiting"
    /\ writer' = "idle"
    /\ UNCHANGED <<agentVars, queue, readable, isEnding, ended, beforeEnd, taken>>

(* Faulty: the write that waits is not told. *)
ForgetsWriter == writer

(* What cancel() leaves of a write that waits. *)
WriterAfterCancel == "idle"

(* cancel(), when the connection shuts down.  A stream that has been read  *)
(* to its end is not told.                                                 *)
Cancel ==
    /\ readable = "open" \/ (readable = "closed" /\ queue # <<>>)
    /\ readable' = "cancelled"
    /\ queue' = <<>>
    /\ reader' = "done"
    /\ writer' = WriterAfterCancel
    /\ UNCHANGED <<agentVars, isEnding, ended, beforeEnd, taken>>

-----------------------------------------------------------------------------
Next ==
    \/ AgentWrites \/ AgentCloses \/ AgentAborts
    \/ \E valid \in BOOLEAN : Write(valid)
    \/ CloseSink \/ AbortSink
    \/ End \/ EndTimer
    \/ Read \/ Pull \/ Cancel

Spec == Init /\ [][Next]_vars

(* The event loop runs the writable stream and pull(), and the router goes *)
(* on reading: its wait for room ends, or the connection shuts down.       *)
Fairness ==
    /\ WF_vars(\E valid \in BOOLEAN : Write(valid))
    /\ WF_vars(CloseSink) /\ WF_vars(AbortSink)
    /\ WF_vars(Read) /\ WF_vars(Pull)

LiveSpec == Spec /\ Fairness

-----------------------------------------------------------------------------
(* Properties.                                                             *)

(* The values the variables take. *)
TypeOK ==
    /\ writable \in {"open", "closing", "aborting", "closed", "errored"}
    /\ sink \in Seq(1 .. MaxMessages)
    /\ writer \in {"idle", "blocked"}
    /\ queue \in Seq(1 .. MaxMessages)
    /\ readable \in {"open", "closed", "errored", "cancelled"}
    /\ reader \in {"idle", "asked", "waiting", "done"}
    /\ isEnding \in BOOLEAN
    /\ ended \in 0 .. 1
    /\ written \in 0 .. MaxMessages
    /\ beforeEnd \in 0 .. MaxMessages
    /\ taken \in Seq(1 .. MaxMessages)

(* The writes that must be in the channel before it finishes: those made   *)
(* before end(), or all of them if the agent closed its side.              *)
Due == IF isEnding THEN beforeEnd ELSE written

(* The router gets the messages in the order they were written and none    *)
(* missing, and a channel that finishes without an error has let every     *)
(* write through that was made before, also those which end() found queued *)
(* in the writable stream.  The connection is told once that the agent's   *)
(* output is over, however that comes about, and not before: unless it     *)
(* gave up the output itself.                                              *)
WritesThenTheEnd ==
    /\ \A i \in 1 .. Len(taken) : taken[i] = i
    /\ \A i \in 1 .. Len(queue) : queue[i] = Len(taken) + i
    /\ readable = "closed" => Len(taken) + Len(queue) >= Due
    /\ readable = "open" => ended = 0
    /\ readable \in {"closed", "errored"} => ended = 1
    /\ ended <= 1

(* No write waits for ever: the router asks for more, or the channel       *)
(* finishes, fails or is cancelled, and each lets the write go on, and     *)
(* those behind it.                                                        *)
WritersGoOn ==
    \A n \in 1 .. MaxMessages :
        (written >= n ~> writer = "idle" /\ (sink = <<>> \/ Head(sink) > n))

=============================================================================
