\* Three batches between two connections, and no other message.
CONSTANTS
    Requests = {}
    Notifications = {}
    IdOf <- NoIds
    StaticHandlers <- NoHandlers
    DynamicHandlers = {}
    NoRequest = NoRequest
    b1 = b1
    b2 = b2
    b3 = b3
    Batches = {b1, b2, b3}
    KindsOf <- MCKindsOf
SPECIFICATION BatchesSpec
INVARIANTS
    RepliedWhenComplete
PROPERTIES
    BatchReturns
CHECK_DEADLOCK FALSE
