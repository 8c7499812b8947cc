--------------------------- MODULE MCApplications ---------------------------
(* The parts of the application APIs, of which only the chosen one takes   *)
(* steps: the router that selects the version of an agent, the sessions of *)
(* a client of version 1, and initialization and a session in version 2.   *)
EXTENDS ProtocolRouter

CONSTANTS
    SessionIds, MaxSessions, MaxPrompts, MaxUpdates, MaxWaiters, MaxItems,
    MaxUpdatesV2, MaxWaitersV2

ASSUME ApplicationBoundsAssumption ==
    {MaxSessions, MaxPrompts, MaxUpdates, MaxWaiters, MaxItems, MaxUpdatesV2, MaxWaitersV2}
        \subseteq Nat

VARIABLES
    part,
    requested, wire, reactions, sessions, prompts, closed, updates, seen, due,
    role, phase, exchange, waiting, jobs, count, waited, passed, refused, initClosed,
    stage, wireV2, jobsV2, queue, promptsV2, text, closedV2, updatesV2, dueV2, seenV2, texts

sessionVars == <<requested, wire, reactions, sessions, prompts, closed, updates, seen, due>>

initVars ==
    <<role, phase, exchange, waiting, jobs, count, waited, passed, refused, initClosed>>

sessionV2Vars ==
    <<stage, wireV2, jobsV2, queue, promptsV2, text, closedV2, updatesV2, dueV2, seenV2, texts>>

V1 == INSTANCE ActiveSession

Initialization == INSTANCE InitializationV2 WITH closed <- initClosed

V2 == INSTANCE ActiveSessionV2 WITH
          MaxUpdates <- MaxUpdatesV2, MaxWaiters <- MaxWaitersV2,
          wire <- wireV2, jobs <- jobsV2, prompts <- promptsV2, closed <- closedV2,
          updates <- updatesV2, due <- dueV2, seen <- seenV2

(* What differs between the starts of a part is fixed when it has no part. *)
ApplicationsInit ==
    /\ part \in {"router", "initialization", "session", "sessionV2"}
    /\ Init /\ V1!Init /\ Initialization!Init /\ V2!Init
    /\ part # "router" =>
           configured = {} /\ first = (CHOOSE item \in FirstItems : TRUE) /\ ~startRequested
    /\ part # "initialization" => role = "agent"

RouterNext ==
    part = "router" /\ Next /\ UNCHANGED <<part, sessionVars, initVars, sessionV2Vars>>

SessionNext ==
    part = "session" /\ V1!Next /\ UNCHANGED <<part, vars, initVars, sessionV2Vars>>

InitializationNext ==
    /\ part = "initialization" /\ Initialization!Next
    /\ UNCHANGED <<part, vars, sessionVars, sessionV2Vars>>

SessionV2Next ==
    part = "sessionV2" /\ V2!Next /\ UNCHANGED <<part, vars, sessionVars, initVars>>

ApplicationsNext == RouterNext \/ SessionNext \/ InitializationNext \/ SessionV2Next

When(p, A) == part = p /\ A

(* The fairness of the chosen part, as its module justifies it. *)
ApplicationsSpec ==
    /\ ApplicationsInit
    /\ [][ApplicationsNext]_<<part, vars, sessionVars, initVars, sessionV2Vars>>
    /\ WF_vars(When("router", ReadFirst)) /\ WF_vars(When("router", ReadNothing))
    /\ WF_vars(When("router", WriteError)) /\ WF_vars(When("router", CloseOutput))
    /\ WF_vars(When("router", CancelInput)) /\ WF_vars(When("router", AbortOutput))
    /\ WF_vars(When("router", TakeInitialize)) /\ WF_vars(When("router", RoutedEnds))
    /\ WF_initVars(When("initialization", Initialization!RunJob))
    /\ WF_initVars(When("initialization", Initialization!InitializeRejected))
    /\ WF_initVars(When("initialization",
           \E ok \in BOOLEAN : Initialization!InitializeHandled(ok)))
    /\ WF_initVars(When("initialization",
           \E ok \in BOOLEAN : Initialization!ResponseWritten(ok)))
    /\ WF_initVars(When("initialization",
           \E ok \in BOOLEAN : Initialization!InitializeAnswered(ok)))

(* Nothing passes a connection of version 2 that is not initialized, and   *)
(* what waited passes in its order: InitializationV2 says more.            *)
PassesInitialized == Initialization!PassesInitialized

(* What waits for initialize is let go or refused in the end, whatever     *)
(* becomes of it: InitializationV2 says more.                              *)
WaitersSettle == Initialization!WaitersSettle

(* What the agent sends for an active session reaches its readers in the   *)
(* order of the wire: ActiveSession says more.                             *)
InOrderOfTheWire == V1!InOrderOfTheWire

(* No reader of an active session waits for what is there, or for what     *)
(* never comes: ActiveSession says more.                                   *)
NoReaderWaits == V1!NoReaderWaits

(* The same order in version 2, where readers skip: ActiveSessionV2 says   *)
(* more.                                                                   *)
InOrderOfTheWireV2 == V2!InOrderOfTheWire

(* readText() returns one turn of version 2, or none, when prompts overlap *)
(* or updates came before: ActiveSessionV2 says more.                      *)
TextIsOfOneTurn == V2!TextIsOfOneTurn

(* No reader of version 2 waits for what is there, for what never comes,   *)
(* or with a prompt that overlaps: ActiveSessionV2 says more.              *)
NoReaderWaitsV2 == V2!NoReaderWaits
=============================================================================
