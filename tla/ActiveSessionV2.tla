--------------------------- MODULE ActiveSessionV2 ---------------------------
(***************************************************************************)
(* An active session of a client connection, v2/acp.ts: its start, the     *)
(* SessionUpdateRouter, the AsyncQueue with its cursors, prompts that may  *)
(* overlap, and readText().                                                *)
(*                                                                         *)
(* A prompt's answer does not end its turn in ACP v2: an idle state_update *)
(* does.  The session is attached two microtasks after its response, and   *)
(* an update reaches the router one after it is read, behind the guard of  *)
(* initialize; so the microtasks are modelled one by one, in the order of  *)
(* their queue.  The agent and the user act between any two of them.       *)
(***************************************************************************)
EXTENDS ArrayFilter, SequencesExt

CONSTANTS
    MaxPrompts,     \* bound on the prompts
    MaxUpdates,     \* bound on the updates that the agent sends
    MaxWaiters      \* bound on the reads that wait together

VARIABLES
    stage,          \* of the session: "none", "requested", "started" (by the
                    \* agent), "received", "attached" or "over"
    wire,           \* what the agent has sent and the client has not read
    jobs,           \* the microtasks: [at, and an entry]
    queue,          \* AsyncQueue: [values, waiters, failed, next]
    prompts,        \* the prompts: [cursor, active, overlaps, refused, and as
                    \* history beside: the prompts that were active with it]
    text,           \* the readText() under way: [on, prompt, and as history
                    \* early: whether it used what was there before its prompt]
    closed,         \* whether the connection is closed
    updates,        \* history: how many updates the agent has sent
    due,            \* history: the updates read since the session's response
    seen,           \* history: those that a reader was given, or had skipped
    texts           \* history: the readText() that returned: [prompt, early]

vars == <<stage, wire, jobs, queue, prompts, text, closed, updates, due, seen, texts>>

Numbers == 1 .. Len(prompts)

(* An update of the agent; idle ends a turn. *)
Update(idle) ==
    [kind |-> IF idle THEN "idle" ELSE "update", number |-> updates + 1]

(* An entry of the queue: an update that is routed, or the error of prompt *)
(* e.number.                                                               *)
Entry(e, kind) ==
    [kind |-> kind, number |-> e.number, sequence |-> queue.next,
     asked |-> Len(prompts)]

Messages == [kind : {"session", "update", "idle", "refusal"}, number : Nat]

(* The entries of a queue, and those of kind "value". *)
Entries ==
    [kind : {"update", "stop", "error"}, number : Nat, sequence : Nat, asked : Nat]
Values == [kind : {"update", "stop"}, number : Nat, sequence : Nat, asked : Nat]

Job(at, e) == [at |-> at, entry |-> e]
NoEntry == [kind |-> "none", number |-> 0]
NoText == [on |-> FALSE, prompt |-> 0, early |-> FALSE]

Init ==
    /\ stage = "none"
    /\ wire = <<>>
    /\ jobs = <<>>
    /\ queue = [values |-> <<>>, waiters |-> <<>>, failed |-> FALSE, next |-> 0]
    /\ prompts = <<>>
    /\ text = NoText
    /\ closed = FALSE
    /\ updates = 0
    /\ due = <<>>
    /\ seen = <<>>
    /\ texts = {}

-----------------------------------------------------------------------------
(* AsyncQueue.                                                             *)

Failed(q) == [q EXCEPT !.failed = TRUE, !.waiters = <<>>]

(* A failed readText() is over. *)
TextAfterFailure == IF Contains(queue.waiters, "text") THEN NoText ELSE text

(* fail: every reader that waits is told. *)
Fail ==
    IF queue.failed THEN UNCHANGED <<queue, text>>
    ELSE queue' = Failed(queue) /\ text' = TextAfterFailure

(* enqueue, in the microtask that runs: the first reader that waits has    *)
(* the entry, and readText() goes on with it a microtask later.            *)
Enqueue(entry) ==
    CASE queue.failed ->
           /\ jobs' = Tail(jobs)
           /\ UNCHANGED <<queue, seen>>
      [] ~queue.failed /\ queue.waiters = <<>> ->
           /\ queue' = [queue EXCEPT !.next = @ + 1, !.values = Append(@, entry)]
           /\ jobs' = Tail(jobs)
           /\ UNCHANGED seen
      [] OTHER ->
           /\ queue' = [queue EXCEPT !.next = @ + 1, !.waiters = Tail(@)]
           /\ seen' = Append(seen, entry.number)
           /\ jobs' = IF Head(queue.waiters) = "text"
                      THEN Append(Tail(jobs), Job("text", entry))
                      ELSE Tail(jobs)

(* reject: the error goes to all that wait, or waits for one. *)
RejectQueue(entry) ==
    CASE queue.failed -> UNCHANGED <<queue, text>>
      [] ~queue.failed /\ queue.waiters = <<>> ->
           /\ queue' = [queue EXCEPT !.next = @ + 1, !.values = Append(@, entry)]
           /\ UNCHANGED text
      [] OTHER ->
           /\ queue' = [queue EXCEPT !.next = @ + 1, !.waiters = <<>>]
           /\ text' = TextAfterFailure

ClearErrors(values) == Filter(values, Values)

(* The numbers of the updates among them. *)
Updates(values) ==
    LET kept == ClearErrors(values) IN [i \in 1 .. Len(kept) |-> kept[i].number]

(* next, when the first of the values are skipped: the reader has the next *)
(* one, or waits.  t is what text is for it, and NoText for nextUpdate();  *)
(* rest are the microtasks that remain.                                    *)
TakeNext(t, skips, rest) ==
    LET kind == IF t.on THEN "text" ELSE "next"
        textIs(goesOn) == text' = IF t.on THEN goesOn ELSE text
        values == SubSeq(queue.values, skips + 1, Len(queue.values))
        skipped == Updates(SubSeq(queue.values, 1, skips))
    IN  IF values = <<>>
        THEN /\ queue' = [queue EXCEPT !.values = <<>>,
                             !.waiters = IF queue.failed THEN @ ELSE Append(@, kind)]
             /\ textIs(IF queue.failed THEN NoText ELSE t)
             /\ jobs' = rest
             /\ seen' = seen \o skipped
        ELSE LET e == Head(values) IN
             /\ queue' = [queue EXCEPT !.values = Tail(values)]
             /\ textIs(IF e.kind = "error" THEN NoText ELSE t)
             /\ jobs' = IF t.on /\ e.kind # "error" THEN Append(rest, Job("text", e)) ELSE rest
             /\ seen' = seen \o skipped \o Updates(<<e>>)

(* Faulty: what came before the prompt is read with its turn.              *)
FromTheStart(p) == 0

CursorOf(p) == IF p = 0 THEN 0 ELSE prompts[p].cursor

(* How many entries nextAfter drops, one after another, for a cursor. *)
Dropped(cursor) ==
    CHOOSE n \in 0 .. Len(queue.values) :
        /\ \A i \in 1 .. n : queue.values[i].sequence < cursor
        /\ n < Len(queue.values) => queue.values[n + 1].sequence >= cursor

(* nextAfter, for readText(): refused when its prompt overlaps another,    *)
(* and without what came before it.                                        *)
NextAfter(t, rest) ==
    IF t.prompt # 0 /\ prompts[t.prompt].overlaps
    THEN /\ text' = NoText
         /\ jobs' = rest
         /\ UNCHANGED <<queue, seen>>
    ELSE TakeNext(t, Dropped(CursorOf(t.prompt)), rest)

-----------------------------------------------------------------------------
(* The agent.  What it sends wakes the connection's reader, which is an    *)
(* await, and so a microtask, away from it.                                *)

Awake == \E i \in 1 .. Len(jobs) : jobs[i].at = "read"

Sends(msg) ==
    /\ ~closed
    /\ wire' = Append(wire, msg)
    /\ jobs' = IF Awake THEN jobs ELSE Append(jobs, Job("read", NoEntry))

AgentStarts ==
    /\ stage = "requested"
    /\ stage' = "started"
    /\ Sends([NoEntry EXCEPT !.kind = "session"])
    /\ UNCHANGED <<queue, prompts, text, closed, updates, due, seen, texts>>

AgentUpdates(idle) ==
    /\ stage \notin {"none", "requested"}
    /\ updates < MaxUpdates
    /\ updates' = updates + 1
    /\ Sends(Update(idle))
    /\ UNCHANGED <<stage, queue, prompts, text, closed, due, seen, texts>>

(* The agent answers a prompt with an error; a result has no effect here. *)
AgentRefuses(p) ==
    /\ ~prompts[p].refused
    /\ prompts' = [prompts EXCEPT ![p].refused = TRUE]
    /\ Sends([NoEntry EXCEPT !.kind = "refusal", !.number = p])
    /\ UNCHANGED <<stage, queue, text, closed, updates, due, seen, texts>>

-----------------------------------------------------------------------------
(* The microtasks of the client.                                           *)

Runs(at) == jobs # <<>> /\ Head(jobs).at = at

(* What follows on a message: its request's promise is adopted by the one  *)
(* that the user has, or the guard lets it go on to the router.            *)
FollowUp(msg) ==
    Job(CASE msg.kind = "session" -> "adopt"
          [] msg.kind = "refusal" -> "settle"
          [] OTHER -> "route", msg)

(* The connection reads a message, unless it is closed, and asks for more. *)
Read ==
    /\ Runs("read")
    /\ IF wire = <<>>
       THEN /\ jobs' = Tail(jobs)
            /\ UNCHANGED <<stage, wire, due>>
       ELSE LET msg == Head(wire) IN
            /\ wire' = Tail(wire)
            /\ jobs' = Append(Tail(jobs), FollowUp(msg))
                       \o (IF wire' = <<>> THEN <<>> ELSE <<Job("read", NoEntry)>>)
            /\ stage' = IF msg.kind = "session" THEN "received" ELSE stage
            /\ due' = IF msg.kind \in {"update", "idle"} THEN Append(due, msg.number) ELSE due
    /\ UNCHANGED <<queue, prompts, text, closed, updates, seen, texts>>

(* Faulty: there is another promise between the response and the session. *)
LateAfterAdoption(j) ==
    CASE j.at = "adopt" /\ j.entry.number = 0 -> Job("adopt", [j.entry EXCEPT !.number = 1])
      [] j.at = "adopt" /\ j.entry.number # 0 -> Job("attach", j.entry)
      [] OTHER -> Job("reject", j.entry)

AfterAdoption(j) == Job(IF j.at = "adopt" THEN "attach" ELSE "reject", j.entry)

(* The promise that the user has follows the one of the request. *)
Adopt ==
    /\ Runs("adopt") \/ Runs("settle")
    /\ jobs' = Append(Tail(jobs), AfterAdoption(Head(jobs)))
    /\ UNCHANGED <<stage, wire, queue, prompts, text, closed, updates, due, seen, texts>>

(* Faulty: the end of the connection is missed when it comes first.        *)
HearsLater(q) == q

(* The queue hears the signal of the connection, aborted or not. *)
Hears(q) == IF closed THEN Failed(q) ELSE q

(* attachSession. *)
Attach ==
    /\ Runs("attach")
    /\ jobs' = Tail(jobs)
    /\ stage' = "attached"
    /\ queue' = Hears(queue)
    /\ UNCHANGED <<wire, prompts, text, closed, updates, due, seen, texts>>

IsAwaitingCompletion == \E p \in Numbers : prompts[p].active

(* SessionUpdateRouter.handleMessage: the first idle after a prompt stops  *)
(* all that are active.                                                    *)
Route ==
    /\ Runs("route")
    /\ LET e == Head(jobs).entry
           stops == e.kind = "idle" /\ IsAwaitingCompletion
       IN  IF stage # "attached" \/ closed
           THEN /\ jobs' = Tail(jobs)
                /\ UNCHANGED <<queue, prompts, seen>>
           ELSE /\ prompts' = IF stops
                              THEN [p \in Numbers |-> [prompts[p] EXCEPT !.active = FALSE]]
                              ELSE prompts
                /\ Enqueue(Entry(e, IF stops THEN "stop" ELSE "update"))
    /\ UNCHANGED <<stage, wire, text, closed, updates, due, texts>>

(* A refused prompt is no longer active; its error is for the reader.      *)
(* Nothing is queued when an idle update has ended its turn already.       *)
CancelPrompt ==
    /\ Runs("reject")
    /\ jobs' = Tail(jobs)
    /\ LET p == Head(jobs).entry.number IN
       IF prompts[p].active
       THEN /\ prompts' = [prompts EXCEPT ![p].active = FALSE]
            /\ RejectQueue(Entry(Head(jobs).entry, "error"))
       ELSE UNCHANGED <<queue, prompts, text>>
    /\ UNCHANGED <<stage, wire, closed, updates, due, seen, texts>>

(* readText() goes on with an entry: it returns with a stop. *)
TextGoesOn ==
    /\ Runs("text")
    /\ LET e == Head(jobs).entry
           early == text.early \/ e.asked < text.prompt
       IN  IF e.kind = "stop"
           THEN /\ texts' = texts \cup {[prompt |-> text.prompt, early |-> early]}
                /\ text' = NoText
                /\ jobs' = Tail(jobs)
                /\ UNCHANGED <<queue, seen>>
           ELSE /\ NextAfter([text EXCEPT !.early = early], Tail(jobs))
                /\ UNCHANGED texts
    /\ UNCHANGED <<stage, wire, prompts, closed, updates, due>>

-----------------------------------------------------------------------------
(* The user, and the end of the connection.                                *)

NewSession ==
    /\ stage = "none" /\ ~closed
    /\ stage' = "requested"
    /\ UNCHANGED <<wire, jobs, queue, prompts, text, closed, updates, due, seen, texts>>

(* Faulty: only the prompts that were active are told.                     *)
OldOverlap(active, p) == p \in active

(* Whether prompt p overlaps, when another one is begun. *)
Overlaps(active, p) == p \in active \/ (p = Len(prompts) + 1 /\ active # {})

(* clearErrors and beginPrompt: prompts that are active together are told  *)
(* so, and readText() of one of them fails when it waits.                  *)
Prompt ==
    /\ stage \in {"attached", "over"} /\ ~closed
    /\ Len(prompts) < MaxPrompts
    /\ LET active == {p \in Numbers : prompts[p].active}
           new == Len(prompts) + 1
           begun == Append(prompts, [cursor |-> queue.next, active |-> TRUE, overlaps |-> FALSE,
                                     refused |-> FALSE, beside |-> active])
           aborts == Contains(queue.waiters, "text") /\ Overlaps(active, text.prompt)
       IN  /\ prompts' = [p \in 1 .. new |->
                  [begun[p] EXCEPT !.overlaps = @ \/ Overlaps(active, p),
                                   !.beside = IF p \in active THEN @ \cup {new} ELSE @]]
           /\ queue' = [queue EXCEPT !.values = ClearErrors(@),
                           !.waiters = IF aborts THEN Filter(@, {"next"}) ELSE @]
           /\ text' = IF aborts THEN NoText ELSE text
    /\ UNCHANGED <<stage, wire, jobs, closed, updates, due, seen, texts>>

NextUpdate ==
    /\ stage \in {"attached", "over"} /\ Len(queue.waiters) < MaxWaiters
    /\ TakeNext(NoText, 0, jobs)
    /\ UNCHANGED <<stage, wire, prompts, closed, updates, due, texts>>

(* readText(), one at a time, for the latest prompt if there is one. *)
ReadText ==
    /\ stage \in {"attached", "over"} /\ Len(queue.waiters) < MaxWaiters
    /\ ~text.on
    /\ NextAfter([on |-> TRUE, prompt |-> Len(prompts), early |-> FALSE], jobs)
    /\ UNCHANGED <<stage, wire, prompts, closed, updates, due, texts>>

Dispose ==
    /\ stage = "attached"
    /\ stage' = "over"
    /\ Fail
    /\ UNCHANGED <<wire, jobs, prompts, closed, updates, due, seen, texts>>

(* The connection closes: its signal fails the queue, if there is one, and *)
(* what has arrived is not read any more.                                  *)
Close ==
    /\ ~closed
    /\ closed' = TRUE
    /\ wire' = <<>>
    /\ IF stage = "attached" THEN Fail ELSE UNCHANGED <<queue, text>>
    /\ UNCHANGED <<stage, jobs, prompts, updates, due, seen, texts>>

-----------------------------------------------------------------------------
Next ==
    \/ AgentStarts
    \/ \E idle \in BOOLEAN : AgentUpdates(idle)
    \/ \E p \in Numbers : AgentRefuses(p)
    \/ Read \/ Adopt \/ Attach \/ Route \/ CancelPrompt \/ TextGoesOn
    \/ NewSession \/ Prompt \/ NextUpdate \/ ReadText \/ Dispose \/ Close

Spec == Init /\ [][Next]_vars

-----------------------------------------------------------------------------
(* Properties.                                                             *)

(* The values the variables take. *)
TypeOK ==
    /\ stage \in {"none", "requested", "started", "received", "attached", "over"}
    /\ wire \in Seq(Messages)
    /\ jobs \in Seq([at : {"read", "adopt", "settle", "route", "attach", "reject", "text"},
                     entry : {NoEntry} \cup Messages \cup Entries])
    /\ queue \in [values : Seq(Entries), waiters : Seq({"text", "next"}), failed : BOOLEAN,
                  next : Nat]
    /\ prompts \in Seq([cursor : Nat, active : BOOLEAN, overlaps : BOOLEAN, refused : BOOLEAN,
                        beside : SUBSET Nat])
    /\ text \in [on : BOOLEAN, prompt : Nat, early : BOOLEAN]
    /\ closed \in BOOLEAN
    /\ updates \in Nat /\ due \in Seq(Nat) /\ seen \in Seq(Nat)
    /\ texts \in SUBSET [prompt : Nat, early : BOOLEAN]

(* The updates that the guard has let go on, and the router has not got. *)
InGuard == Filter(jobs, [at : {"route"}, entry : [kind : {"update", "idle"}, number : Nat]])

(* What the agent sends from the session's response on reaches a reader in *)
(* the order in which it was sent, or waits for one: the session is        *)
(* attached before the first update can reach the router, however close    *)
(* behind the response it comes.  What readText() skips is seen.           *)
InOrderOfTheWire ==
    stage = "attached" /\ ~closed =>
        seen \o Updates(queue.values) \o [i \in 1 .. Len(InGuard) |-> InGuard[i].entry.number]
            = due

(* readText() returns with nothing that came before its prompt, and not at *)
(* all when another prompt was active with it: updates name no prompt.     *)
TextIsOfOneTurn ==
    \A t \in texts :
        /\ ~t.early
        /\ t.prompt # 0 => prompts[t.prompt].beside = {}

(* No reader waits for what is there already, when the session is disposed *)
(* or the connection is closed (before it is attached, too), or when it is *)
(* to be told that its prompt overlaps another.                            *)
NoReaderWaits ==
    queue.waiters # <<>> =>
        /\ queue.values = <<>>
        /\ ~queue.failed /\ stage = "attached" /\ ~closed
        /\ Contains(queue.waiters, "text") /\ text.prompt # 0 =>
               ~prompts[text.prompt].overlaps
=============================================================================
