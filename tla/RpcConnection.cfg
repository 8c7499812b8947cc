\* Two connections with two requests, of the client or one of each.
CONSTANTS
    Client = Client
    Agent = Agent
    IdBound = 2
    MaxRequests <- TwoEach
SPECIFICATION MCSpec
INVARIANTS
    PendingIsTracked
    PeersAgree
PROPERTIES
    AnswersAndCancelsArrive
    ImplementsCalls
CHECK_DEADLOCK FALSE
