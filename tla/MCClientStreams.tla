--------------------------- MODULE MCClientStreams ---------------------------
(* The streams of a client that are not a WebSocket: event streams over    *)
(* HTTP or lines of JSON, HttpStream or NdJsonStream, of which only the    *)
(* chosen one takes steps.                                                 *)
EXTENDS HttpStream, Sequences

CONSTANTS MaxMessageBytes, MaxInput, MaxLines

ASSUME StreamBoundsAssumption ==
    {MaxRequests, MaxMessageBytes, MaxInput, MaxLines} \subseteq Nat

VARIABLES
    transport,
    input, chunk, pending, loop, last, lineReadable, cancelled, writes, output,
    taken, messages, answers, linesWritten, linesSent

lineVars ==
    <<input, chunk, pending, loop, last, lineReadable, cancelled, writes, output,
      taken, messages, answers, linesWritten, linesSent>>

Lines == INSTANCE NdJsonStream WITH
             MaxSends <- MaxLines, readable <- lineReadable,
             written <- linesWritten, sent <- linesSent

StreamsInit == transport \in {"http", "lines"} /\ Init /\ Lines!Init

HttpNext  == transport = "http" /\ Next /\ UNCHANGED <<transport, lineVars>>
LinesNext == transport = "lines" /\ Lines!Next /\ UNCHANGED <<transport, vars>>

(* The fairness of the one over HTTP, in which nothing is under way when   *)
(* it is not chosen.                                                       *)
StreamsSpec ==
    StreamsInit /\ [][HttpNext \/ LinesNext]_<<transport, vars, lineVars>> /\ Fairness

(* The messages of a stream of lines are those of the lines, whatever      *)
(* chunks they come in: NdJsonStream says more.                            *)
MessagesAreTheLines == Lines!MessagesAreTheLines
=============================================================================
