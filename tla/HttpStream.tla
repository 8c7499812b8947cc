----------------------------- MODULE HttpStream -----------------------------
(***************************************************************************)
(* HttpStreamTransport of http-stream.ts: the client's stream over HTTP.   *)
(* initialize is a POST whose response names the connection; every other   *)
(* message is a POST too, and the agent's messages arrive over GET event   *)
(* streams, one of the connection and one of each session.  DELETE ends    *)
(* the connection.                                                         *)
(*                                                                         *)
(* What one promise callback does is one step.  The writable stream hands  *)
(* over one write at a time.  The server is external: it answers, refuses, *)
(* ends streams and stays silent as it likes.                              *)
(***************************************************************************)
EXTENDS Naturals, FiniteSets

CONSTANTS
    Sessions,       \* the sessions of the connection
    MaxRequests     \* bound on the requests that are written in sessions

NoSession == "none"

Requests == 1 .. MaxRequests

VARIABLES
    isClosed,
    connectionId,   \* whether it is set
    write,          \* what the write under way awaits: "none" when there is
                    \* none, "initialize" (the response), "body", "cleanup"
                    \* (its DELETE), "stream" (the session's to open),
                    \* "opened" or "ready" (to be resumed, the stream having
                    \* opened just now, or before), "post" (the response)
    message,        \* what it writes: [session, request], 0 for no request
    writable,       \* "open", "closed" or "errored"
    readable,       \* "open", "closed" or "errored"
    connectionStream, \* the event stream: "none", "opening" or "open"
    sessionStreams, \* the same of each session
    pendingSessionRequests, \* requests without a response: {[id, session]}
    written,        \* how many requests were written in sessions
    cookies,        \* whether the store has the server's cookie
    teardown,       \* "none", "closing" or "erroring" (DELETE under way, or
                    \* none to send), "done"
    learned,        \* history: the server named the connection in a response
    deletes         \* history: the DELETEs sent: {[cookie: it had the cookie]}

vars == <<isClosed, connectionId, write, message, writable, readable, connectionStream,
          sessionStreams, pendingSessionRequests, written, cookies, teardown, learned,
          deletes>>

NoMessage == [session |-> NoSession, request |-> 0]

Init ==
    /\ isClosed = FALSE
    /\ connectionId = FALSE
    /\ write = "none"
    /\ message = NoMessage
    /\ writable = "open"
    /\ readable = "open"
    /\ connectionStream = "none"
    /\ sessionStreams = [s \in Sessions |-> "none"]
    /\ pendingSessionRequests = {}
    /\ written = 0
    /\ cookies = FALSE
    /\ teardown = "none"
    /\ learned = FALSE
    /\ deletes = {}

-----------------------------------------------------------------------------
(* Ending the stream.                                                      *)

(* deleteConnection of an id, with what the cookie store has then. *)
DeleteConnection(hasId, hasCookie) ==
    deletes' = IF hasId THEN deletes \cup {[cookie |-> hasCookie]} ELSE deletes

(* errorReadable, in a step that leaves these variables alone otherwise.   *)
ErrorReadable(hasId) ==
    IF isClosed
    THEN UNCHANGED <<isClosed, readable, teardown, deletes>>
    ELSE /\ isClosed' = TRUE
         /\ readable' = "errored"
         /\ teardown' = "erroring"
         /\ DeleteConnection(hasId, cookies)

(* close() up to its first await. *)
CloseEffects ==
    IF isClosed
    THEN UNCHANGED <<isClosed, teardown, deletes>>
    ELSE /\ isClosed' = TRUE
         /\ teardown' = "closing"
         /\ DeleteConnection(connectionId, cookies)

(* cancel() of the readable stream, which waits for nothing. *)
Cancel ==
    /\ readable = "open"
    /\ readable' = "closed"
    /\ CloseEffects
    /\ UNCHANGED <<connectionId, write, message, writable, connectionStream,
                   sessionStreams, pendingSessionRequests, written, cookies, learned>>

(* close() and abort() of the writable stream, which wait for the write    *)
(* under way before they reach the transport.                              *)
CloseWritable ==
    /\ writable = "open" /\ write = "none"
    /\ writable' = "closed"
    /\ CloseEffects
    /\ UNCHANGED <<connectionId, write, message, readable, connectionStream,
                   sessionStreams, pendingSessionRequests, written, cookies, learned>>

(* The DELETE is answered, or fails, or there was none: the store of the   *)
(* stream is cleared.                                                      *)
FinishTeardown ==
    /\ teardown \in {"closing", "erroring"}
    /\ readable' = IF teardown = "closing" /\ readable = "open" THEN "closed" ELSE readable
    /\ teardown' = "done"
    /\ cookies' = FALSE
    /\ UNCHANGED <<isClosed, connectionId, write, message, writable, connectionStream,
                   sessionStreams, pendingSessionRequests, written, learned, deletes>>

-----------------------------------------------------------------------------
(* initialize.                                                             *)

(* The write under way succeeds, or fails, and the writable stream with it. *)
WriteDone == write' = "none" /\ message' = NoMessage /\ UNCHANGED writable
WriteFails == write' = "none" /\ message' = NoMessage /\ writable' = "errored"

(* The first message: what is no initialize request ends the stream. *)
WriteFirst(isInitialize) ==
    /\ write = "none" /\ writable = "open" /\ ~connectionId
    /\ IF isClosed \/ ~isInitialize
       THEN WriteFails /\ ErrorReadable(FALSE)
       ELSE /\ write' = "initialize"
            /\ UNCHANGED <<message, writable, isClosed, readable, teardown, deletes>>
    /\ UNCHANGED <<connectionId, connectionStream, sessionStreams,
                   pendingSessionRequests, written, cookies, learned>>

(* Faulty: the connection is left to the server.                           *)
LeavesLate == UNCHANGED deletes /\ WriteFails

(* The stream closed while initialize was under way: the connection that   *)
(* the server made meanwhile is deleted, and the write waits for that.     *)
DeletesLate ==
    /\ DeleteConnection(TRUE, cookies')
    /\ write' = "cleanup"
    /\ UNCHANGED <<message, writable>>

(* The response comes, with an id and a cookie of the server, or without   *)
(* id, or the POST fails.                                                  *)
InitializeAnswered(hasId, setsCookie) ==
    /\ write = "initialize"
    /\ hasId => setsCookie
    /\ cookies' = (cookies \/ setsCookie)
    /\ learned' = hasId
    /\ CASE hasId /\ isClosed ->
               /\ DeletesLate
               /\ UNCHANGED <<isClosed, readable, teardown>>
         [] hasId /\ ~isClosed ->
               /\ write' = "body"
               /\ UNCHANGED <<message, writable, isClosed, readable, teardown, deletes>>
         [] OTHER -> WriteFails /\ ErrorReadable(FALSE)
    /\ UNCHANGED <<connectionId, connectionStream, sessionStreams,
                   pendingSessionRequests, written>>

(* The body of the response is read: it is the response to initialize, or  *)
(* not, or cannot be read.                                                 *)
InitializeRead(isResponse) ==
    /\ write = "body"
    /\ IF isClosed
       THEN /\ UNCHANGED <<isClosed, readable, teardown, connectionId, connectionStream, cookies>>
            /\ DeletesLate
       ELSE IF isResponse
       THEN /\ connectionId' = TRUE
            /\ connectionStream' = "opening"
            /\ WriteDone
            /\ UNCHANGED <<isClosed, readable, teardown, deletes, cookies>>
       ELSE /\ WriteFails /\ ErrorReadable(TRUE)
            /\ UNCHANGED <<connectionId, connectionStream, cookies>>
    /\ UNCHANGED <<sessionStreams, pendingSessionRequests, written, learned>>

FinishCleanup ==
    /\ write = "cleanup"
    /\ WriteFails
    /\ cookies' = FALSE
    /\ UNCHANGED <<isClosed, connectionId, readable, connectionStream, sessionStreams,
                   pendingSessionRequests, written, teardown, learned, deletes>>

-----------------------------------------------------------------------------
(* The other messages.                                                     *)

(* openSessionSse: a session's stream is opened when it is not there. *)
OpenSessionStream(s) ==
    IF sessionStreams[s] = "none"
    THEN [sessionStreams EXCEPT ![s] = "opening"]
    ELSE sessionStreams

(* postConnectedMessage up to its first await: a message of a session      *)
(* waits for the session's stream, for a microtask when that is open.      *)
Write(s, isRequest) ==
    /\ write = "none" /\ writable = "open" /\ connectionId
    /\ isRequest => s # NoSession /\ written < MaxRequests
    /\ IF isClosed
       THEN WriteFails /\ UNCHANGED <<sessionStreams, written>>
       ELSE /\ message' = [session |-> s, request |-> IF isRequest THEN written + 1 ELSE 0]
            /\ written' = IF isRequest THEN written + 1 ELSE written
            /\ UNCHANGED writable
            /\ IF s = NoSession
               THEN write' = "post" /\ UNCHANGED sessionStreams
               ELSE /\ write' = IF sessionStreams[s] = "open" THEN "ready" ELSE "stream"
                    /\ sessionStreams' = OpenSessionStream(s)
    /\ UNCHANGED <<isClosed, connectionId, readable, connectionStream,
                   pendingSessionRequests, cookies, teardown, learned, deletes>>

(* The rest of it: the request is noted, and posted. *)
Post ==
    /\ write \in {"opened", "ready"}
    /\ write' = "post"
    /\ pendingSessionRequests' =
           IF message.request = 0
           THEN pendingSessionRequests
           ELSE pendingSessionRequests \cup {[id |-> message.request, session |-> message.session]}
    /\ UNCHANGED <<isClosed, connectionId, message, writable, readable, connectionStream,
                   sessionStreams, written, cookies, teardown, learned, deletes>>

(* The response to the POST; fetch fails once the stream has closed. *)
PostAnswered(ok) ==
    /\ write = "post"
    /\ ok => ~isClosed
    /\ IF ok
       THEN WriteDone /\ UNCHANGED <<pendingSessionRequests, isClosed, readable, teardown, deletes>>
       ELSE /\ WriteFails
            /\ ErrorReadable(TRUE)
            /\ pendingSessionRequests' =
                   {r \in pendingSessionRequests : r.id # message.request}
    /\ UNCHANGED <<connectionId, connectionStream, sessionStreams, written, cookies, learned>>

-----------------------------------------------------------------------------
(* Event streams: openSse.                                                 *)

(* Faulty: the promise of a stream that did not open is left alone.        *)
WaitsOn(s) == UNCHANGED <<write, message, writable>>

(* onError and onClose: the write that waits for the stream to open fails. *)
RejectReady(s) ==
    IF write = "stream" /\ message.session = s
    THEN WriteFails
    ELSE UNCHANGED <<write, message, writable>>

SessionStreamOpens(s) ==
    /\ sessionStreams[s] = "opening" /\ ~isClosed
    /\ sessionStreams' = [sessionStreams EXCEPT ![s] = "open"]
    /\ write' = IF write = "stream" /\ message.session = s THEN "opened" ELSE write
    /\ UNCHANGED <<isClosed, connectionId, message, writable, readable, connectionStream,
                   pendingSessionRequests, written, cookies, teardown, learned, deletes>>

(* GET or the reading of the stream fails, as it does when the stream of   *)
(* the user closes.                                                        *)
SessionStreamFails(s) ==
    /\ sessionStreams[s] # "none"
    /\ sessionStreams' = [sessionStreams EXCEPT ![s] = "none"]
    /\ RejectReady(s)
    /\ ErrorReadable(TRUE)
    /\ UNCHANGED <<connectionId, connectionStream, pendingSessionRequests, written,
                   cookies, learned>>

(* handleSseEof of a session, then onClose.  To read the end of a stream   *)
(* takes longer than to resume the write that waited for it to open.       *)
SessionStreamEnds(s) ==
    /\ sessionStreams[s] = "open" /\ ~isClosed
    /\ ~(write = "opened" /\ message.session = s)
    /\ sessionStreams' = [sessionStreams EXCEPT ![s] = "none"]
    /\ IF \E r \in pendingSessionRequests : r.session = s
       THEN ErrorReadable(TRUE)
       ELSE UNCHANGED <<isClosed, readable, teardown, deletes>>
    /\ UNCHANGED <<connectionId, write, message, writable, connectionStream,
                   pendingSessionRequests, written, cookies, learned>>

(* The response to a request arrives. *)
ReceiveResponse(r) ==
    /\ r \in pendingSessionRequests /\ ~isClosed
    /\ sessionStreams[r.session] = "open" \/ connectionStream = "open"
    /\ pendingSessionRequests' = pendingSessionRequests \ {r}
    /\ UNCHANGED <<isClosed, connectionId, write, message, writable, readable,
                   connectionStream, sessionStreams, written, cookies, teardown, learned,
                   deletes>>

(* A response that names a session arrives, as that to session/new does. *)
ReceiveSession(s) ==
    /\ connectionStream = "open" /\ ~isClosed
    /\ sessionStreams[s] = "none"
    /\ sessionStreams' = OpenSessionStream(s)
    /\ UNCHANGED <<isClosed, connectionId, write, message, writable, readable,
                   connectionStream, pendingSessionRequests, written, cookies, teardown,
                   learned, deletes>>

ConnectionStreamOpens ==
    /\ connectionStream = "opening" /\ ~isClosed
    /\ connectionStream' = "open"
    /\ UNCHANGED <<isClosed, connectionId, write, message, writable, readable,
                   sessionStreams, pendingSessionRequests, written, cookies, teardown,
                   learned, deletes>>

(* It ends, fails or cannot be opened, or the stream of the user closes. *)
ConnectionStreamEnds ==
    /\ connectionStream # "none"
    /\ connectionStream' = "none"
    /\ ErrorReadable(TRUE)
    /\ UNCHANGED <<connectionId, write, message, writable, sessionStreams,
                   pendingSessionRequests, written, cookies, learned>>

-----------------------------------------------------------------------------
SessionStreamStep ==
    \E s \in Sessions :
        \/ SessionStreamOpens(s) \/ SessionStreamFails(s) \/ SessionStreamEnds(s)
        \/ ReceiveSession(s)

Next ==
    \/ Cancel \/ CloseWritable \/ FinishTeardown
    \/ \E isInitialize \in BOOLEAN : WriteFirst(isInitialize)
    \/ \E hasId, setsCookie \in BOOLEAN : InitializeAnswered(hasId, setsCookie)
    \/ \E isResponse \in BOOLEAN : InitializeRead(isResponse)
    \/ FinishCleanup
    \/ \E s \in Sessions \cup {NoSession}, isRequest \in BOOLEAN : Write(s, isRequest)
    \/ Post
    \/ \E ok \in BOOLEAN : PostAnswered(ok)
    \/ SessionStreamStep
    \/ \E r \in pendingSessionRequests : ReceiveResponse(r)
    \/ ConnectionStreamOpens \/ ConnectionStreamEnds

Spec == Init /\ [][Next]_vars

(* The event loop runs what is queued, a DELETE is answered or fails, and  *)
(* what the abort signal reaches fails.                                    *)
Fairness ==
    /\ WF_vars(FinishTeardown) /\ WF_vars(FinishCleanup) /\ WF_vars(Post)
    /\ WF_vars(isClosed
               /\ \E hasId, setsCookie \in BOOLEAN : InitializeAnswered(hasId, setsCookie))
    /\ WF_vars(isClosed /\ \E isResponse \in BOOLEAN : InitializeRead(isResponse))
    /\ WF_vars(isClosed /\ PostAnswered(FALSE))
    /\ \A s \in Sessions : WF_vars(isClosed /\ SessionStreamFails(s))

LiveSpec == Spec /\ Fairness

-----------------------------------------------------------------------------
(* Properties.                                                             *)

(* The values the variables take. *)
TypeOK ==
    /\ {isClosed, connectionId, cookies, learned} \subseteq BOOLEAN
    /\ write \in {"none", "initialize", "body", "cleanup", "stream", "opened",
                  "ready", "post"}
    /\ message \in [session : Sessions \cup {NoSession}, request : {0} \cup Requests]
    /\ writable \in {"open", "closed", "errored"}
    /\ readable \in {"open", "closed", "errored"}
    /\ connectionStream \in {"none", "opening", "open"}
    /\ sessionStreams \in [Sessions -> {"none", "opening", "open"}]
    /\ pendingSessionRequests \subseteq [id : Requests, session : Sessions]
    /\ written \in 0 .. MaxRequests
    /\ teardown \in {"none", "closing", "erroring", "done"}
    /\ deletes \subseteq [cookie : BOOLEAN]

(* However the stream ends, before, while or after initialize is answered, *)
(* the connection that the server named is deleted, however late it did,   *)
(* and its cookie does not stay in the stream's own store.                 *)
NothingIsLeft == isClosed ~> [](learned => deletes # {} /\ ~cookies)

(* A write whose session's stream ends before it opened, or whose stream   *)
(* of the user closes, does not wait for ever; nor does one whose          *)
(* session's stream opens, or had opened before.                           *)
WritesGoOn ==
    /\ isClosed ~> write = "none"
    /\ [](write = "stream" => sessionStreams[message.session] = "opening")

(* A request of a session is posted when the session's stream is there to  *)
(* bring the response, and fails when that stream ends: "waits for a       *)
(* reopened session SSE before posting session-scoped messages" and        *)
(* "errors the stream when a session SSE closes with a pending request" of *)
(* http-stream.test.ts.                                                    *)
ResponsesHaveAStream ==
    \A r \in pendingSessionRequests : ~isClosed => sessionStreams[r.session] # "none"
=============================================================================
