------------------------------ MODULE RpcBatch ------------------------------
(***************************************************************************)
(* JSON-RPC batches between two `Connection`s of jsonrpc.ts: a caller      *)
(* sends several calls in one message (sendBatch), the callee dispatches   *)
(* each on its own and collects the responses (receiveBatch), and sends    *)
(* them as one message when the last of them and the last notification of  *)
(* the batch are done.  The caller takes that message apart again.         *)
(*                                                                         *)
(* The dispatch of an entry is that of RpcDispatch; whoever answers a      *)
(* request there (a handler, or the connection with an error) uses the     *)
(* request's responder, once.  Batches are allowed on both connections.    *)
(***************************************************************************)
EXTENDS Integers, Sequences, FiniteSets, Functions

CONSTANTS
    Batches,    \* the batches that may be sent
    KindsOf     \* [Batches -> Seq({"request", "notification", "invalid"})]

Kinds   == {"request", "notification", "invalid"}
Results == {"result", "error"}

(* Assumed of KindsOf where a batch is given its members. *)
KindsAreSequences == \A b \in Batches : KindsOf[b] \in Seq(Kinds) /\ KindsOf[b] # <<>>

Members(b)         == 1 .. Len(KindsOf[b])
OfKind(b, kinds)   == {i \in Members(b) : KindsOf[b][i] \in kinds}
RequestsOf(b)      == OfKind(b, {"request"})
NotificationsOf(b) == OfKind(b, {"notification"})
Replied(b)         == OfKind(b, {"request", "invalid"})

(* Faulty: malformed members are not counted.                              *)
RequestCount(b) == Cardinality(RequestsOf(b))

(* How many responses a batch calls for.                                   *)
ResponseCount(b) == Cardinality(Replied(b))

VARIABLES
    \* the caller
    callerAborted,          \* its abortController.signal.aborted
    sent,                   \* the batches it has sent, in order
    promise,                \* the promise of each request of each batch
    \* the callee
    calleeAborted,          \* its abortController.signal.aborted
    cursor,                 \* how many members receiveBatch has gone through
    remaining,              \* responses that are not collected yet
    remainingNotifications, \* notifications that are not processed yet
    responses,              \* the responses collected, in that order
    responseSent,           \* whether they were handed to sendWireMessage
    open,                   \* requests whose responder has not been used
    processing,             \* notifications whose dispatch has not ended
    answer,                 \* history: what each request was answered
    reply                   \* the collected responses on their way to the caller

callerVars  == <<callerAborted, sent, promise>>
collectVars == <<remaining, responses, responseSent, reply>>
calleeVars  == <<calleeAborted, cursor, remainingNotifications, open, processing, answer>>
vars == <<callerVars, collectVars, calleeVars>>

-----------------------------------------------------------------------------
Init ==
    /\ callerAborted = FALSE
    /\ sent = <<>>
    /\ promise = [b \in Batches |-> [i \in RequestsOf(b) |-> "none"]]
    /\ calleeAborted = FALSE
    /\ cursor = [b \in Batches |-> 0]
    /\ remaining = [b \in Batches |-> 0]
    /\ remainingNotifications = [b \in Batches |-> 0]
    /\ responses = [b \in Batches |-> <<>>]
    /\ responseSent = [b \in Batches |-> FALSE]
    /\ open = [b \in Batches |-> {}]
    /\ processing = [b \in Batches |-> {}]
    /\ answer = [b \in Batches |-> [i \in RequestsOf(b) |-> "none"]]
    /\ reply = [b \in Batches |-> "none"]

Looping(b) == cursor[b] \in 1 .. Len(KindsOf[b]) - 1

-----------------------------------------------------------------------------
(* The caller.                                                             *)

(* sendBatch: every request gets its entry in pendingResponses, then the   *)
(* whole batch is one message.                                             *)
SendBatch(b) ==
    /\ ~callerAborted
    /\ b \notin Range(sent)
    /\ sent' = Append(sent, b)
    /\ promise' = [promise EXCEPT ![b] = [i \in RequestsOf(b) |-> "pending"]]
    /\ UNCHANGED <<callerAborted, collectVars, calleeVars>>

(* Faulty: only the first response is looked at.                           *)
FirstResponse(b) == {responses[b][1]}

(* The requests a reply settles.                                           *)
SettledByReply(b) == Range(responses[b])

(* receiveBatch of a response batch: each response settles the request it  *)
(* names.                                                                  *)
ReceiveReply(b) ==
    /\ ~callerAborted
    /\ reply[b] = "landed"
    /\ reply' = [reply EXCEPT ![b] = "received"]
    /\ promise' = [promise EXCEPT ![b] =
           [i \in RequestsOf(b) |->
               IF promise[b][i] = "pending"
                  /\ i \in SettledByReply(b)
               THEN answer[b][i] ELSE promise[b][i]]]
    /\ UNCHANGED <<callerAborted, sent, remaining, responses, responseSent, calleeVars>>

CloseCaller ==
    /\ ~callerAborted
    /\ callerAborted' = TRUE
    /\ promise' = [b \in Batches |-> [i \in RequestsOf(b) |->
           IF promise[b][i] = "pending" THEN "closed" ELSE promise[b][i]]]
    /\ UNCHANGED <<sent, collectVars, calleeVars>>

-----------------------------------------------------------------------------
(* The callee.                                                             *)

(* Faulty: notifications are not waited for.                               *)
ReadyBeforeNotifications(b, collected, left, notificationsLeft) ==
    ~responseSent[b] /\ left = 0 /\ collected # <<>>

(* Faulty: the count of notifications is read before it is decremented.    *)
ReadyByStaleCount(b, collected, left, notificationsLeft) ==
    /\ ~responseSent[b] /\ left = 0 /\ collected # <<>>
    /\ notificationsLeft = 0 /\ remainingNotifications[b] = 0

ReplyReady(b, collected, left, notificationsLeft) ==
    ~responseSent[b] /\ left = 0 /\ notificationsLeft = 0 /\ collected # <<>>

(* sendResponsesIfReady, given the state its caller has brought about.     *)
SendResponsesIfReady(b, collected, left, notificationsLeft) ==
    IF ~ReplyReady(b, collected, left, notificationsLeft)
    THEN UNCHANGED <<responseSent, reply>>
    ELSE /\ responseSent' = [responseSent EXCEPT ![b] = TRUE]
         /\ reply' = [reply EXCEPT ![b] = IF calleeAborted THEN "lost" ELSE "sending"]

(* collectResponse. *)
CollectResponse(b, i, left, notificationsLeft) ==
    /\ responses' = [responses EXCEPT ![b] = Append(@, i)]
    /\ remaining' = [remaining EXCEPT ![b] = left - 1]
    /\ SendResponsesIfReady(b, Append(responses[b], i), left - 1, notificationsLeft)

(* One round of the loop of receiveBatch; both counters are set before the *)
(* first.  Between two rounds only code can run that the dispatch of the   *)
(* first calls synchronously.  On a closed connection the call is not      *)
(* dispatched, but the processing of a notification ends all the same.     *)
ReceiveMember(b) ==
    LET i == cursor[b] + 1
        left == IF i = 1 THEN ResponseCount(b) ELSE remaining[b]
        notificationsLeft ==
            IF i = 1 THEN Cardinality(NotificationsOf(b)) ELSE remainingNotifications[b]
    IN
    /\ i \in Members(b)
    /\ i = 1 => ~calleeAborted
    /\ \E k \in 1 .. Len(sent) :
          /\ sent[k] = b
          /\ \A j \in 1 .. k - 1 : cursor[sent[j]] = Len(KindsOf[sent[j]])
    /\ cursor' = [cursor EXCEPT ![b] = i]
    /\ remainingNotifications' = [remainingNotifications EXCEPT ![b] = notificationsLeft]
    /\ IF i \in OfKind(b, {"invalid"})
       THEN CollectResponse(b, i, left, notificationsLeft)
       ELSE /\ remaining' = [remaining EXCEPT ![b] = left]
            /\ UNCHANGED <<responses, responseSent, reply>>
    /\ open' = IF i \in RequestsOf(b) /\ ~calleeAborted
               THEN [open EXCEPT ![b] = @ \cup {i}] ELSE open
    /\ processing' = IF i \in NotificationsOf(b)
                     THEN [processing EXCEPT ![b] = @ \cup {i}] ELSE processing
    /\ UNCHANGED <<callerVars, calleeAborted, answer>>

(* The responder of a request is used, by its handler or by the dispatch   *)
(* loop, synchronously with the loop of receiveBatch perhaps.              *)
Respond(b, i, r) ==
    /\ i \in open[b]
    /\ open' = [open EXCEPT ![b] = @ \ {i}]
    /\ answer' = [answer EXCEPT ![b][i] = r]
    /\ CollectResponse(b, i, remaining[b], remainingNotifications[b])
    /\ UNCHANGED <<callerVars, calleeAborted, cursor, remainingNotifications, processing>>

(* The dispatch of a notification ends: handled, unhandled, failed or put  *)
(* into the retry queue.  That is a continuation, never synchronous.       *)
NotificationProcessed(b, i) ==
    /\ i \in processing[b]
    /\ \A c \in Batches : ~Looping(c)
    /\ processing' = [processing EXCEPT ![b] = @ \ {i}]
    /\ remainingNotifications' = [remainingNotifications EXCEPT ![b] = @ - 1]
    /\ SendResponsesIfReady(b, responses[b], remaining[b], remainingNotifications[b] - 1)
    /\ UNCHANGED <<callerVars, remaining, responses, calleeAborted, cursor, open, answer>>

(* The write chain takes the reply to the transport, or the callee's       *)
(* connection closes first.                                                *)
LandReply(b) ==
    /\ reply[b] = "sending"
    /\ reply' = [reply EXCEPT ![b] = IF calleeAborted THEN "lost" ELSE "landed"]
    /\ UNCHANGED <<callerVars, remaining, responses, responseSent, calleeVars>>

CloseCallee ==
    /\ ~calleeAborted
    /\ calleeAborted' = TRUE
    /\ UNCHANGED <<callerVars, collectVars, cursor, remainingNotifications, open,
                   processing, answer>>

-----------------------------------------------------------------------------
Next ==
    \/ \E b \in Batches :
          \/ SendBatch(b)
          \/ ReceiveReply(b)
          \/ ReceiveMember(b)
          \/ \E i \in RequestsOf(b), r \in Results : Respond(b, i, r)
          \/ \E i \in NotificationsOf(b) : NotificationProcessed(b, i)
          \/ LandReply(b)
    \/ CloseCaller
    \/ CloseCallee

Spec == Init /\ [][Next]_vars

(* The event loop of both sides runs, and notification handlers settle.    *)
(* Nobody has to answer a request.                                         *)
Fairness ==
    \A b \in Batches :
        /\ WF_vars(ReceiveMember(b)) /\ WF_vars(ReceiveReply(b)) /\ WF_vars(LandReply(b))
        /\ \A i \in NotificationsOf(b) : WF_vars(NotificationProcessed(b, i))

LiveSpec == Spec /\ Fairness

-----------------------------------------------------------------------------
(* Properties.                                                             *)

(* The values the variables take. *)
TypeOK ==
    /\ sent \in Seq(Batches)
    /\ callerAborted \in BOOLEAN /\ calleeAborted \in BOOLEAN
    /\ \A b \in Batches :
        /\ promise[b] \in [RequestsOf(b) -> {"none", "pending", "closed"} \cup Results]
        /\ answer[b] \in [RequestsOf(b) -> {"none"} \cup Results]
        /\ cursor[b] \in 0 .. Len(KindsOf[b])
        /\ remaining[b] \in 0 .. Cardinality(Replied(b))
        /\ remainingNotifications[b] \in 0 .. Cardinality(NotificationsOf(b))
        /\ responses[b] \in Seq(Replied(b))
        /\ responseSent[b] \in BOOLEAN
        /\ open[b] \subseteq RequestsOf(b)
        /\ processing[b] \subseteq NotificationsOf(b)
        /\ reply[b] \in {"none", "sending", "landed", "received", "lost"}

(* The reply to a batch is complete when it is sent: one response for each *)
(* request and each malformed member, none twice, and no notification of   *)
(* the batch is still being processed.  A batch that calls for no response *)
(* is not replied to.  And the reply is never forgotten: whichever of the  *)
(* responses and the notifications comes last, and even if that happens    *)
(* while the batch is still being taken apart, it sends the reply.         *)
RepliedWhenComplete ==
    \A b \in Batches :
        LET isComplete ==
                /\ cursor[b] = Len(KindsOf[b])
                /\ open[b] = {} /\ processing[b] = {}
        IN  /\ responseSent[b] =>
                /\ Replied(b) # {}
                /\ Range(responses[b]) = Replied(b)
                /\ Len(responses[b]) = Cardinality(Replied(b))
                /\ processing[b] = {}
                /\ cursor[b] = Len(KindsOf[b])
            /\ ~calleeAborted /\ isComplete /\ Replied(b) # {} => responseSent[b]

(* When every request of a batch has been answered the caller learns it,   *)
(* unless a connection closes.                                             *)
BatchReturns ==
    \A b \in Batches :
        (cursor[b] = Len(KindsOf[b]) /\ open[b] = {} /\ RequestsOf(b) # {}) ~>
            \/ callerAborted \/ calleeAborted
            \/ \A i \in RequestsOf(b) : promise[b][i] = answer[b][i] /\ answer[b][i] \in Results
=============================================================================
