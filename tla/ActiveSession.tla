---------------------------- MODULE ActiveSession ----------------------------
(***************************************************************************)
(* The active sessions of a client connection, acp.ts: SessionBuilder      *)
(* starts them, SessionUpdateRouter gives each the updates of its session, *)
(* ActiveSession sends prompts and AsyncQueue brings updates and the ends  *)
(* of prompts to the reader.                                               *)
(*                                                                         *)
(* The connection handles one message of the agent after another.  A       *)
(* router's or a response's handler runs in that step; the reaction to a   *)
(* prompt's promise is a microtask, which runs before the next message is  *)
(* read.  The agent is external and may name a session twice.              *)
(***************************************************************************)
EXTENDS ArrayFilter, SequencesExt

CONSTANTS
    SessionIds,     \* the ids that the agent gives to sessions
    MaxSessions,    \* bound on the active sessions that are started
    MaxPrompts,     \* bound on the prompts
    MaxUpdates,     \* bound on the updates that the agent sends
    MaxWaiters      \* bound on the calls of nextUpdate() that wait together

VARIABLES
    requested,      \* how many session/new requests are unanswered
    wire,           \* what the agent has sent and the client has not handled
    reactions,      \* prompts that are answered, until their promise reacts
    sessions,       \* the active sessions, in the order in which they started:
                    \* [id, attached, values, waiters, failed, reading]
    prompts,        \* the prompts: [session, answered]
    closed,         \* whether the connection is closed
    updates,        \* history: how many updates the agent has sent
    seen,           \* history: what each active session's readers were given
    due             \* history: what the client was sent for each of them

vars == <<requested, wire, reactions, sessions, prompts, closed, updates, seen, due>>

(* What the agent sends: the responses to session/new, what is for a       *)
(* session, and the answers to the prompts.                                *)
Messages ==
    [kind : {"session", "update", "result", "error"}, id : SessionIds, number : Nat]

Starts == [kind : {"session"}, id : SessionIds, number : Nat]

(* The entries of a queue, and those of kind "value". *)
Entries == [kind : {"update", "stop", "error"}, number : Nat]
Values == [kind : {"update", "stop"}, number : Nat]

Update(n) == [kind |-> "update", number |-> n]
Stop(p) == [kind |-> "stop", number |-> p]
Error(p) == [kind |-> "error", number |-> p]

Init ==
    /\ requested = 0
    /\ wire = <<>>
    /\ reactions = <<>>
    /\ sessions = <<>>
    /\ prompts = <<>>
    /\ closed = FALSE
    /\ updates = 0
    /\ seen = <<>>
    /\ due = <<>>

Active == 1 .. Len(sessions)

-----------------------------------------------------------------------------
(* AsyncQueue.                                                             *)

NewQueue(id) ==
    [id |-> id, attached |-> TRUE, values |-> <<>>, waiters |-> 0, failed |-> FALSE,
     reading |-> FALSE]

(* Whether enqueue finds a reader that waits for the value. *)
IsTaken(q) == ~q.failed /\ q.waiters > 0

(* What reading is after its reader was given an entry: readText() returns *)
(* with a stop and throws an error.                                        *)
ReadingAfter(q, entry) == IF entry.kind = "update" THEN q.reading ELSE FALSE

Enqueue(q, entry) ==
    CASE q.failed -> q
      [] IsTaken(q) -> [q EXCEPT !.waiters = @ - 1, !.reading = ReadingAfter(q, entry)]
      [] OTHER -> [q EXCEPT !.values = Append(@, entry)]

(* reject: an error goes to every reader that waits, or waits for one. *)
RejectQueue(q, entry) ==
    CASE q.failed -> q
      [] ~q.failed /\ q.waiters > 0 -> [q EXCEPT !.waiters = 0, !.reading = FALSE]
      [] OTHER -> [q EXCEPT !.values = Append(@, entry)]

(* Faulty: what is queued of the turns before is dropped with their errors. *)
ClearsTurn(q) == [q EXCEPT !.values = <<>>]

ClearErrors(q) == [q EXCEPT !.values = Filter(@, Values)]

(* Faulty: readers that wait already are forgotten.                        *)
FailsLater(q) == [q EXCEPT !.failed = TRUE]

Fail(q) ==
    IF q.failed THEN q
    ELSE [q EXCEPT !.failed = TRUE, !.waiters = 0, !.reading = FALSE]

(* What the readers of a session have seen, when one is given an entry. *)
SeenAfter(s, entry) == IF entry.kind = "error" THEN seen[s] ELSE Append(seen[s], entry)

-----------------------------------------------------------------------------
(* The agent.                                                              *)

Sends(msg) == ~closed /\ wire' = Append(wire, msg)

AgentStarts(id) ==
    /\ requested > 0
    /\ requested' = requested - 1
    /\ Sends([kind |-> "session", id |-> id, number |-> 0])
    /\ UNCHANGED <<reactions, sessions, prompts, closed, updates, seen, due>>

AgentUpdates(id) ==
    /\ updates < MaxUpdates
    /\ updates' = updates + 1
    /\ Sends([kind |-> "update", id |-> id, number |-> updates + 1])
    /\ UNCHANGED <<requested, reactions, sessions, prompts, closed, seen, due>>

AgentAnswers(p, kind) ==
    /\ ~prompts[p].answered
    /\ prompts' = [prompts EXCEPT ![p].answered = TRUE]
    /\ Sends([kind |-> kind, id |-> sessions[prompts[p].session].id, number |-> p])
    /\ UNCHANGED <<requested, reactions, sessions, closed, updates, seen, due>>

-----------------------------------------------------------------------------
(* The client's connection.                                                *)

(* The reaction to a response runs before the next message is handled. *)
Receives(kind) ==
    /\ ~closed /\ reactions = <<>>
    /\ wire # <<>> /\ Head(wire).kind = kind
    /\ wire' = Tail(wire)

(* attachSession, with the mapping of the response. *)
ReceiveSession ==
    /\ Receives("session")
    /\ sessions' = Append(sessions, NewQueue(Head(wire).id))
    /\ seen' = Append(seen, <<>>)
    /\ due' = Append(due, <<>>)
    /\ UNCHANGED <<requested, reactions, prompts, closed, updates>>

(* Faulty: an update goes to the session that was started last.            *)
RoutedToLast(id) ==
    {s \in Active : sessions[s].id = id /\ sessions[s].attached
                    /\ \A t \in Active : sessions[t].id = id => t <= s}

(* The active sessions that the router has for an id. *)
RoutedTo(id) == {s \in Active : sessions[s].id = id /\ sessions[s].attached}

(* SessionUpdateRouter.handleMessage. *)
ReceiveUpdate ==
    /\ Receives("update")
    /\ LET to == RoutedTo(Head(wire).id)
           entry == Update(Head(wire).number)
       IN  /\ sessions' = [s \in Active |->
                  IF s \in to THEN Enqueue(sessions[s], entry) ELSE sessions[s]]
           /\ seen' = [s \in Active |->
                  IF s \in to /\ IsTaken(sessions[s]) THEN SeenAfter(s, entry) ELSE seen[s]]
    /\ due' = [s \in Active |->
           IF sessions[s].id = Head(wire).id /\ ~sessions[s].failed
           THEN Append(due[s], Update(Head(wire).number))
           ELSE due[s]]
    /\ UNCHANGED <<requested, reactions, prompts, closed, updates>>

(* handleResponse settles the promise of a prompt. *)
ReceiveAnswer(kind) ==
    /\ Receives(kind)
    /\ LET p == Head(wire).number
           s == prompts[p].session
       IN  /\ reactions' = Append(reactions,
                  IF kind = "result" THEN Stop(p) ELSE Error(p))
           /\ due' = IF kind = "result" /\ ~sessions[s].failed
                     THEN [due EXCEPT ![s] = Append(@, Stop(p))]
                     ELSE due
    /\ UNCHANGED <<requested, sessions, prompts, closed, updates, seen>>

(* What ActiveSession.prompt does when its request is answered. *)
React ==
    /\ reactions # <<>>
    /\ reactions' = Tail(reactions)
    /\ LET entry == Head(reactions)
           s == prompts[entry.number].session
           q == sessions[s]
       IN  IF entry.kind = "error"
           THEN /\ sessions' = [sessions EXCEPT ![s] = RejectQueue(q, entry)]
                /\ UNCHANGED seen
           ELSE /\ sessions' = [sessions EXCEPT ![s] = Enqueue(q, entry)]
                /\ seen' = IF IsTaken(q) THEN [seen EXCEPT ![s] = SeenAfter(s, entry)] ELSE seen
    /\ UNCHANGED <<requested, wire, prompts, closed, updates, due>>

(* The connection closes: its signal fails every queue, before the pending *)
(* requests are rejected, which then has no effect here.  What has arrived *)
(* is not read any more.                                                   *)
Close ==
    /\ ~closed
    /\ closed' = TRUE
    /\ wire' = <<>>
    /\ requested' = 0
    /\ sessions' = [s \in Active |->
           IF sessions[s].attached THEN Fail(sessions[s]) ELSE sessions[s]]
    /\ UNCHANGED <<reactions, prompts, updates, seen, due>>

-----------------------------------------------------------------------------
(* The user.                                                               *)

NewSession ==
    /\ ~closed
    /\ requested + Len(Filter(wire, Starts)) + Len(sessions) < MaxSessions
    /\ requested' = requested + 1
    /\ UNCHANGED <<wire, reactions, sessions, prompts, closed, updates, seen, due>>

Prompt(s) ==
    /\ ~closed /\ Len(prompts) < MaxPrompts
    /\ prompts' = Append(prompts, [session |-> s, answered |-> FALSE])
    /\ sessions' = [sessions EXCEPT ![s] = ClearErrors(@)]
    /\ UNCHANGED <<requested, wire, reactions, closed, updates, seen, due>>

(* AsyncQueue.next, by nextUpdate(), or by readText(), which is reading. *)
Take(s, reading) ==
    LET q == [sessions[s] EXCEPT !.reading = reading] IN
    /\ IF q.values # <<>>
       THEN /\ sessions' = [sessions EXCEPT ![s] =
                   [q EXCEPT !.values = Tail(@), !.reading = ReadingAfter(q, Head(q.values))]]
            /\ seen' = [seen EXCEPT ![s] = SeenAfter(s, Head(q.values))]
       ELSE /\ sessions' = [sessions EXCEPT ![s] =
                   IF q.failed THEN [q EXCEPT !.reading = FALSE] ELSE [q EXCEPT !.waiters = @ + 1]]
            /\ UNCHANGED seen
    /\ UNCHANGED <<requested, wire, reactions, prompts, closed, updates, due>>

NextUpdate(s) ==
    /\ ~sessions[s].reading /\ sessions[s].waiters < MaxWaiters
    /\ Take(s, FALSE)

ReadText(s) ==
    /\ ~sessions[s].reading /\ sessions[s].waiters = 0
    /\ Take(s, TRUE)

(* Its loop, which asks for an entry after another. *)
ReadTextGoesOn(s) ==
    /\ sessions[s].reading /\ sessions[s].waiters = 0
    /\ Take(s, TRUE)

Dispose(s) ==
    /\ sessions[s].attached
    /\ sessions' = [sessions EXCEPT ![s] = [Fail(@) EXCEPT !.attached = FALSE]]
    /\ UNCHANGED <<requested, wire, reactions, prompts, closed, updates, seen, due>>

Next ==
    \/ \E id \in SessionIds : AgentStarts(id) \/ AgentUpdates(id)
    \/ \E p \in 1 .. Len(prompts), kind \in {"result", "error"} : AgentAnswers(p, kind)
    \/ ReceiveSession \/ ReceiveUpdate
    \/ \E kind \in {"result", "error"} : ReceiveAnswer(kind)
    \/ React \/ Close \/ NewSession
    \/ \E s \in Active :
        Prompt(s) \/ NextUpdate(s) \/ ReadText(s) \/ ReadTextGoesOn(s) \/ Dispose(s)

Spec == Init /\ [][Next]_vars

-----------------------------------------------------------------------------
(* Properties.                                                             *)

(* The values the variables take. *)
TypeOK ==
    /\ requested \in Nat
    /\ wire \in Seq(Messages)
    /\ reactions \in Seq(Entries)
    /\ sessions \in Seq([id : SessionIds, attached : BOOLEAN, values : Seq(Entries),
                         waiters : Nat, failed : BOOLEAN, reading : BOOLEAN])
    /\ prompts \in Seq([session : Nat, answered : BOOLEAN])
    /\ closed \in BOOLEAN
    /\ updates \in Nat
    /\ seen \in Seq(Seq(Values)) /\ due \in Seq(Seq(Values))

(* What the agent sends for a session, from the response that starts it    *)
(* on, reaches its readers in the order in which it was sent: no update is *)
(* missed or misattributed, however close behind the response it comes,    *)
(* and the stop of a prompt stands between the updates before and behind   *)
(* the response.  Every active session of the same id gets every update.   *)
InOrderOfTheWire ==
    \A s \in Active :
        LET queued == Filter(sessions[s].values, Values)
        IN  IF reactions = <<>> /\ ~sessions[s].failed
            THEN seen[s] \o queued = due[s]
            ELSE IsPrefix(seen[s] \o queued, due[s])

(* No reader waits for what is there already, and none waits when the      *)
(* session is disposed or the connection is closed, a session that is      *)
(* started then included.                                                  *)
NoReaderWaits ==
    \A s \in Active :
        sessions[s].waiters > 0 =>
            /\ sessions[s].values = <<>>
            /\ ~sessions[s].failed /\ sessions[s].attached /\ ~closed
=============================================================================
