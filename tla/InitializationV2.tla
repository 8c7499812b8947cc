-------------------------- MODULE InitializationV2 --------------------------
(***************************************************************************)
(* InitializationState of v2/acp.ts and what goes through it: nothing but  *)
(* initialize passes a connection before initialize has been answered.     *)
(* The guards hold back what the peer sends, the contexts what the user    *)
(* sends; what comes while initialize is under way waits for its end.      *)
(*                                                                         *)
(* One connection of an agent, whose peer initializes it, or of a client,  *)
(* which initializes its peer.  Promise reactions run in the order of the  *)
(* microtask queue; everything else may happen between two of them.        *)
(***************************************************************************)
EXTENDS Integers, Sequences

CONSTANT MaxItems       \* bound on the messages, and on the calls

Directions == {"in", "out"}     \* messages of the peer, calls of the user

VARIABLES
    role,           \* "agent" or "client"
    phase,          \* "uninitialized", "initializing", "initialized", "failed"
    exchange,       \* the initialize request: "none", "handled" (by the
                    \* agent's handler), "answered" (the response is being
                    \* written), "sent" (by the client), "rejected" (so its
                    \* promise, which has not reacted) or "over"
    waiting,        \* what waits for the barrier: [dir, item]
    jobs,           \* the microtasks: [at, dir, item, ok]
    count,          \* how many items there were, by direction
    waited,         \* history: the items that had to wait
    passed,         \* history: the items that passed, in their order
    refused,        \* history: those that were refused, or dropped
    closed          \* whether the connection is closed

vars == <<role, phase, exchange, waiting, jobs, count, waited, passed, refused, closed>>

items == <<waiting, jobs, count, waited, passed, refused>>

Init ==
    /\ role \in {"agent", "client"}
    /\ phase = "uninitialized"
    /\ exchange = "none"
    /\ waiting = <<>>
    /\ jobs = <<>>
    /\ count = [d \in Directions |-> 0]
    /\ waited = [d \in Directions |-> {}]
    /\ passed = [d \in Directions |-> <<>>]
    /\ refused = [d \in Directions |-> {}]
    /\ closed = FALSE

Job(at, w, ok) == [at |-> at, dir |-> w.dir, item |-> w.item, ok |-> ok]

-----------------------------------------------------------------------------
(* InitializationState.                                                    *)

(* The barrier settles: everything that waits for it reacts. *)
Settle(ok) ==
    /\ jobs' = jobs \o [i \in 1 .. Len(waiting) |-> Job("settled", waiting[i], ok)]
    /\ waiting' = <<>>

(* Faulty: an initialize that is under way is left to its response.        *)
MayFailBefore == phase = "uninitialized"

(* failIfPending. *)
MayFail == phase \in {"uninitialized", "initializing"}

FailState ==
    IF MayFail
    THEN phase' = "failed" /\ Settle(FALSE)
    ELSE UNCHANGED <<phase, jobs, waiting>>

CompleteState == phase' = "initialized" /\ Settle(TRUE)

-----------------------------------------------------------------------------
(* initialize.                                                             *)

(* The agent's guard sees an initialize request: good, malformed or one of *)
(* a larger batch.  Another one is rejected without more ado.              *)
ReceiveInitialize(good) ==
    /\ role = "agent" /\ ~closed
    /\ phase = "uninitialized"
    /\ IF good
       THEN /\ phase' = "initializing"
            /\ exchange' = "handled"
            /\ UNCHANGED items
       ELSE /\ FailState
            /\ UNCHANGED <<exchange, count, waited, passed, refused>>
    /\ UNCHANGED <<role, closed>>

(* The handler returns a response, or throws. *)
InitializeHandled(ok) ==
    /\ exchange = "handled"
    /\ IF ok
       THEN exchange' = "answered" /\ UNCHANGED <<phase, jobs, waiting>>
       ELSE exchange' = "over" /\ FailState
    /\ UNCHANGED <<role, count, waited, passed, refused, closed>>

(* The response is written, or cannot be.  complete() throws, and fail()   *)
(* does nothing, when the connection has closed meanwhile.                 *)
ResponseWritten(ok) ==
    /\ exchange = "answered"
    /\ exchange' = "over"
    /\ IF ok /\ phase = "initializing" THEN CompleteState ELSE FailState
    /\ UNCHANGED <<role, count, waited, passed, refused, closed>>

(* The client's call of initialize, which throws when it is not the first. *)
CallInitialize ==
    /\ role = "client" /\ phase = "uninitialized"
    /\ phase' = "initializing"
    /\ exchange' = "sent"
    /\ UNCHANGED <<role, items, closed>>

(* The response is mapped; what does not suit, or is an error, rejects the *)
(* call, and so does the end of the connection.                            *)
InitializeAnswered(ok) ==
    /\ exchange = "sent"
    /\ ok => ~closed
    /\ IF ok
       THEN exchange' = "over" /\ CompleteState
       ELSE exchange' = "rejected" /\ UNCHANGED <<phase, jobs, waiting>>
    /\ UNCHANGED <<role, count, waited, passed, refused, closed>>

(* The call's promise reacts: the state fails, and the connection closes. *)
InitializeRejected ==
    /\ exchange = "rejected"
    /\ exchange' = "over"
    /\ FailState
    /\ closed' = TRUE
    /\ UNCHANGED <<role, count, waited, passed, refused>>

-----------------------------------------------------------------------------
(* What goes through.                                                      *)

(* Faulty: what comes while initialize is under way passes.                *)
PassesWhenBegun == phase \in {"initializing", "initialized"}

(* The guards let an item pass, waitUntilInitialized sends it. *)
Passes == phase = "initialized"

(* A message of the peer, or a call of the user, that is not initialize:   *)
(* it passes a microtask later, waits, or is refused, and then a message   *)
(* fails the initialization.                                               *)
Arrive(dir) ==
    /\ dir = "in" => ~closed
    /\ count[dir] < MaxItems
    /\ LET w == [dir |-> dir, item |-> count[dir] + 1]
       IN  /\ count' = [count EXCEPT ![dir] = @ + 1]
           /\ CASE Passes ->
                     /\ jobs' = Append(jobs, Job("pass", w, TRUE))
                     /\ UNCHANGED <<phase, waiting, waited, refused>>
                [] ~Passes /\ phase = "initializing" ->
                     /\ waiting' = Append(waiting, w)
                     /\ waited' = [waited EXCEPT ![dir] = @ \cup {w.item}]
                     /\ UNCHANGED <<phase, jobs, refused>>
                [] OTHER ->
                     /\ refused' = [refused EXCEPT ![dir] = @ \cup {w.item}]
                     /\ IF dir = "in" THEN FailState ELSE UNCHANGED <<phase, jobs, waiting>>
                     /\ UNCHANGED waited
    /\ UNCHANGED <<role, exchange, passed, closed>>

(* A $/cancel_request: the guard takes it, and it fails the initialization *)
(* when it comes first.                                                    *)
ReceiveCancel ==
    /\ ~closed
    /\ phase = "uninitialized"
    /\ FailState
    /\ UNCHANGED <<role, exchange, count, waited, passed, refused, closed>>

(* The next microtask.  From the barrier on, a message takes two more than *)
(* a call, through the guard and back to the connection.                   *)
RunJob ==
    /\ jobs # <<>>
    /\ LET j == Head(jobs)
           goesOn(at) ==
               /\ jobs' = Append(Tail(jobs), [j EXCEPT !.at = at])
               /\ UNCHANGED <<passed, refused>>
       IN  CASE j.at = "settled" -> goesOn(IF j.dir = "in" THEN "guard" ELSE "pass")
             [] j.at = "guard" -> goesOn("pass")
             [] j.at = "pass" ->
                  /\ jobs' = Tail(jobs)
                  /\ IF j.ok /\ ~closed
                     THEN /\ passed' = [passed EXCEPT ![j.dir] = Append(@, j.item)]
                          /\ UNCHANGED refused
                     ELSE /\ refused' = [refused EXCEPT ![j.dir] = @ \cup {j.item}]
                          /\ UNCHANGED passed
    /\ UNCHANGED <<role, phase, exchange, waiting, count, waited, closed>>

(* The connection closes: its signal fails the initialization. *)
Close ==
    /\ ~closed
    /\ closed' = TRUE
    /\ FailState
    /\ UNCHANGED <<role, exchange, count, waited, passed, refused>>

-----------------------------------------------------------------------------
Next ==
    \/ \E ok \in BOOLEAN :
        \/ ReceiveInitialize(ok) \/ InitializeHandled(ok) \/ ResponseWritten(ok)
        \/ InitializeAnswered(ok)
    \/ CallInitialize \/ InitializeRejected
    \/ \E dir \in Directions : Arrive(dir)
    \/ ReceiveCancel \/ RunJob \/ Close

Spec == Init /\ [][Next]_vars

(* Microtasks run, the agent's handler of initialize returns, the response *)
(* is written or fails, and a client's call is settled by its connection.  *)
Fairness ==
    /\ WF_vars(RunJob) /\ WF_vars(InitializeRejected)
    /\ WF_vars(\E ok \in BOOLEAN : InitializeHandled(ok))
    /\ WF_vars(\E ok \in BOOLEAN : ResponseWritten(ok))
    /\ WF_vars(\E ok \in BOOLEAN : InitializeAnswered(ok))

LiveSpec == Spec /\ Fairness

-----------------------------------------------------------------------------
(* Properties.                                                             *)

JobsTypeOK ==
    jobs \in Seq([at : {"settled", "guard", "pass"}, dir : Directions,
                  item : 1 .. MaxItems, ok : BOOLEAN])

(* The values the variables take. *)
TypeOK ==
    /\ role \in {"agent", "client"}
    /\ phase \in {"uninitialized", "initializing", "initialized", "failed"}
    /\ exchange \in {"none", "handled", "answered", "sent", "rejected", "over"}
    /\ waiting \in Seq([dir : Directions, item : 1 .. MaxItems])
    /\ JobsTypeOK
    /\ count \in [Directions -> 0 .. MaxItems]
    /\ waited \in [Directions -> SUBSET (1 .. MaxItems)]
    /\ passed \in [Directions -> Seq(1 .. MaxItems)]
    /\ refused \in [Directions -> SUBSET (1 .. MaxItems)]
    /\ closed \in BOOLEAN

(* Nothing passes a connection that is not, or never was, initialized; and *)
(* what waited goes out and is handled in the order in which it came.      *)
(* (What comes in the microtasks after the end of initialize may overtake  *)
(* it: the status is "initialized" before those that wait react.)          *)
PassesInitialized ==
    \A d \in Directions :
        /\ passed[d] # <<>> => phase = "initialized"
        /\ \A i, j \in 1 .. Len(passed[d]) :
            i < j /\ {passed[d][i], passed[d][j]} \subseteq waited[d]
                => passed[d][i] < passed[d][j]

(* Whatever waits for initialize is let go or refused in the end, also     *)
(* when initialize fails, or the connection closes before it is answered.  *)
WaitersSettle ==
    \A n \in 1 .. MaxItems, d \in Directions :
        n \in waited[d] ~>
            n \in refused[d] \/ \E i \in 1 .. Len(passed[d]) : passed[d][i] = n
=============================================================================
