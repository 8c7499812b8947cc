----------------------------- MODULE NdJsonStream -----------------------------
(***************************************************************************)
(* ndJsonStream of stream.ts: the messages of an input of lines, and the   *)
(* output, which the user's messages share with the answers to lines that  *)
(* are none.  Input comes in any chunks; the output may fail, the input    *)
(* end or fail, and the reader cancel, at any time.                        *)
(***************************************************************************)
EXTENDS LineBuffer

CONSTANTS
    MaxInput,   \* bound on the bytes of the input
    MaxSends    \* bound on the messages that the user writes

VARIABLES
    input,      \* "open", "ended" or "failed"
    chunk,      \* what remains of the chunk that is split
    pending,    \* LineBuffer's incomplete line
    loop,       \* the reader's loop: "reading", "splitting", "answering" (a bad
                \* line), "flushing" or "over"
    last,       \* whether the line is the last one, without a newline
    readable,   \* "open", "closed" or "errored"
    cancelled,  \* whether the reader has cancelled
    writes,     \* the writes of outputWrite: "answer" or "message"
    output,     \* "good", or "failed": it rejects all from then on
    taken,      \* history: the bytes of the input, up to what is split
    messages,   \* history: the lines that were enqueued as messages
    answers,    \* history: how many bad lines were answered, or are to be
    written,    \* history: the writes that the output has taken
    sent        \* history: how many messages the user has written

vars == <<input, chunk, pending, loop, last, readable, cancelled, writes, output,
          taken, messages, answers, written, sent>>

outside == <<writes, output, written, sent>>

Init ==
    /\ input = "open"
    /\ chunk = <<>> /\ pending = <<>>
    /\ loop = "reading"
    /\ last = FALSE
    /\ readable = "open"
    /\ cancelled = FALSE
    /\ writes = <<>>
    /\ output = "good"
    /\ taken = <<>> /\ messages = <<>>
    /\ answers = 0
    /\ written = <<>>
    /\ sent = 0

-----------------------------------------------------------------------------
(* Lines.                                                                  *)

(* What trim leaves, of bytes that are space or not. *)
Trim(line) ==
    LET ink == {i \in 1 .. Len(line) : line[i] # "CR"}
    IN  IF ink = {} THEN <<>> ELSE SubSeq(line, Min(ink), Max(ink))

IsBlank(line) == Trim(line) = <<>>

(* One value; a return within it would be between two. *)
IsMessage(line) == ~IsBlank(line) /\ Range(Trim(line)) = {"json"}

(* The stream has an end: the loop is over, and its buffer empty. *)
EndLoop(how) ==
    /\ loop' = "over"
    /\ chunk' = <<>> /\ pending' = <<>>
    /\ readable' = how

(* enqueueLine; goesOn says what the loop does after it. *)
EnqueueLine(line, goesOn) ==
    CASE IsBlank(line) ->
           loop' = goesOn /\ UNCHANGED <<messages, answers, writes>>
      [] IsMessage(line) ->
           /\ loop' = goesOn
           /\ messages' = Append(messages, Trim(line))
           /\ UNCHANGED <<answers, writes>>
      [] OTHER ->
           /\ loop' = "answering"
           /\ answers' = answers + 1
           /\ writes' = Append(writes, "answer")
           /\ UNCHANGED messages

-----------------------------------------------------------------------------
(* The loop.                                                               *)

(* A chunk comes; it is taken unless the reader has cancelled meanwhile. *)
ReadChunk(bytes) ==
    /\ loop = "reading" /\ input = "open" /\ ~cancelled
    /\ Len(taken) + Len(bytes) <= MaxInput
    /\ chunk' = bytes
    /\ taken' = taken \o bytes
    /\ loop' = "splitting"
    /\ UNCHANGED <<input, pending, last, readable, cancelled, messages, answers, outside>>

(* The next line of the chunk, or the incomplete one at its end. *)
Split ==
    /\ loop = "splitting" /\ ~cancelled
    /\ LET line == NextLine(pending, chunk) IN
       IF TooLong(line)
       THEN EndLoop("errored") /\ UNCHANGED <<messages, answers, writes>>
       ELSE IF HasLine(chunk)
       THEN /\ EnqueueLine(StripCarriageReturn(line), "splitting")
            /\ pending' = <<>>
            /\ chunk' = AfterLine(chunk)
            /\ UNCHANGED readable
       ELSE /\ loop' = "reading"
            /\ pending' = line
            /\ chunk' = <<>>
            /\ UNCHANGED <<readable, messages, answers, writes>>
    /\ UNCHANGED <<input, last, cancelled, output, taken, written, sent>>

(* Faulty: what has no newline is no line.                                 *)
NoFlush(line) == <<>>

(* flush. *)
Flush(line) == StripCarriageReturn(line)

(* The input is done: what remains is a line. *)
ReadEnd ==
    /\ loop = "reading" /\ input = "ended" /\ ~cancelled
    /\ IF Flush(pending) = <<>>
       THEN EndLoop("closed") /\ UNCHANGED <<last, messages, answers, writes>>
       ELSE /\ EnqueueLine(Flush(pending), "flushing")
            /\ last' = TRUE
            /\ pending' = <<>>
            /\ UNCHANGED <<chunk, readable>>
    /\ UNCHANGED <<input, cancelled, output, taken, written, sent>>

CloseReadable ==
    /\ loop = "flushing" /\ ~cancelled
    /\ EndLoop("closed")
    /\ UNCHANGED <<input, last, cancelled, taken, messages, answers, outside>>

ReadFails ==
    /\ loop = "reading" /\ input = "failed" /\ ~cancelled
    /\ EndLoop("errored")
    /\ UNCHANGED <<input, last, cancelled, taken, messages, answers, outside>>

(* The loop looks whether the reader has cancelled, after each await. *)
StopLoop ==
    /\ cancelled /\ loop \in {"reading", "splitting", "flushing"}
    /\ EndLoop(readable)
    /\ UNCHANGED <<input, last, cancelled, taken, messages, answers, outside>>

-----------------------------------------------------------------------------
(* The output, which has one write at a time.                              *)

Write ==
    /\ writes # <<>>
    /\ writes' = Tail(writes)
    /\ output = "good"
    /\ written' = Append(written, Head(writes))
    /\ loop' = IF Head(writes) = "answer"
               THEN IF last THEN "flushing" ELSE "splitting"
               ELSE loop
    /\ UNCHANGED <<input, chunk, pending, last, readable, cancelled, output, taken,
                   messages, answers, sent>>

(* A write is rejected; when it is an answer, the readable has the error.  *)
WriteFails ==
    /\ writes # <<>>
    /\ writes' = Tail(writes)
    /\ output' = "failed"
    /\ IF Head(writes) = "answer"
       THEN EndLoop(IF cancelled THEN readable ELSE "errored")
       ELSE UNCHANGED <<loop, chunk, pending, readable>>
    /\ UNCHANGED <<input, last, cancelled, taken, messages, answers, written, sent>>

-----------------------------------------------------------------------------
(* Outside.                                                                *)

InputStops(how) ==
    /\ input = "open"
    /\ input' = how
    /\ UNCHANGED <<chunk, pending, loop, last, readable, cancelled, taken, messages, answers,
                   outside>>

(* The writable writes one message at a time. *)
UserWrites ==
    /\ sent < MaxSends
    /\ \A i \in 1 .. Len(writes) : writes[i] = "answer"
    /\ sent' = sent + 1
    /\ writes' = Append(writes, "message")
    /\ UNCHANGED <<input, chunk, pending, loop, last, readable, cancelled, output, taken,
                   messages, answers, written>>

(* cancel closes the readable, and the input with it. *)
Cancel ==
    /\ readable = "open" /\ ~cancelled
    /\ cancelled' = TRUE
    /\ readable' = "closed"
    /\ UNCHANGED <<input, chunk, pending, loop, last, taken, messages, answers, outside>>

Next ==
    \/ \E n \in 1 .. MaxInput : \E bytes \in [1 .. n -> Bytes] : ReadChunk(bytes)
    \/ Split \/ ReadEnd \/ CloseReadable \/ ReadFails \/ StopLoop
    \/ Write \/ WriteFails
    \/ \E how \in {"ended", "failed"} : InputStops(how)
    \/ UserWrites \/ Cancel

Spec == Init /\ [][Next]_vars

-----------------------------------------------------------------------------
(* Properties.                                                             *)

(* The values the variables take. *)
TypeOK ==
    /\ input \in {"open", "ended", "failed"}
    /\ chunk \in Seq(Bytes) /\ pending \in Seq(Bytes)
    /\ loop \in {"reading", "splitting", "answering", "flushing", "over"}
    /\ last \in BOOLEAN
    /\ readable \in {"open", "closed", "errored"}
    /\ cancelled \in BOOLEAN
    /\ writes \in Seq({"answer", "message"})
    /\ output \in {"good", "failed"}
    /\ taken \in Seq(Bytes) /\ Len(taken) <= MaxInput
    /\ messages \in Seq(Seq(Bytes))
    /\ answers \in Nat
    /\ written \in Seq({"answer", "message"})
    /\ sent \in 0 .. MaxSends

(* The i-th of a set of numbers. *)
Nth(S, i) == CHOOSE n \in S : Cardinality({m \in S : m < n}) = i - 1

(* The reference: what is before the i-th newline and behind the one       *)
(* before it is the i-th line, however the bytes came.                     *)
Newlines(bytes) == {i \in 1 .. Len(bytes) : bytes[i] = "LF"}

LineEndingAt(bytes, i) ==
    SubSeq(bytes, Max({0} \cup {j \in Newlines(bytes) : j < i}) + 1, i - 1)

LinesOf(bytes) ==
    [i \in 1 .. Cardinality(Newlines(bytes)) |-> LineEndingAt(bytes, Nth(Newlines(bytes), i))]

RestOf(bytes) == LineEndingAt(bytes, Len(bytes) + 1)

GoodOnes(lines) == {i \in 1 .. Len(lines) : IsMessage(lines[i])}
BadOnes(lines) == {i \in 1 .. Len(lines) : ~IsBlank(lines[i]) /\ ~IsMessage(lines[i])}

MessagesOf(lines) ==
    [i \in 1 .. Cardinality(GoodOnes(lines)) |-> Trim(lines[Nth(GoodOnes(lines), i)])]

(* The lines before the first one that is too long, without its end. *)
Allowed(lines) ==
    LET tooLong == {i \in 1 .. Len(lines) :
                       Len(StripCarriageReturn(lines[i])) > MaxMessageBytes}
    IN  IF tooLong = {} THEN lines ELSE SubSeq(lines, 1, Min(tooLong) - 1)

(* The answers among the writes. *)
Answers(ws) == {i \in 1 .. Len(ws) : ws[i] = "answer"}

(* The messages are the lines of the input, whatever chunks it came in:    *)
(* none is lost, split or joined, the last one needs no newline, a bad one *)
(* has its answer before the next is looked at, and only a line that is    *)
(* too long without its end ends the stream before the input does.         *)
MessagesAreTheLines ==
    LET lines == LinesOf(taken)
        all == Append(lines, RestOf(taken))
    IN  ~cancelled =>
        /\ loop = "reading" =>
            /\ all = Allowed(all)
            /\ messages = MessagesOf(lines)
            /\ answers = Cardinality(BadOnes(lines)) /\ answers = Cardinality(Answers(written))
        /\ readable = "closed" =>
            /\ all = Allowed(all) /\ messages = MessagesOf(all)
            /\ answers = Cardinality(BadOnes(all))
        /\ readable = "errored" /\ input # "failed" /\ output = "good" =>
            all # Allowed(all) /\ messages = MessagesOf(Allowed(all))
=============================================================================
