\* A request for which the first of two static handlers asks for a retry while a
\* dynamic handler is added.
CONSTANTS
    r1 = r1
    r2 = r2
    s1 = s1
    s2 = s2
    id1 = id1
    Requests = {r1}
    Notifications = {}
    IdOf <- OwnId
    StaticHandlers <- TwoStatics
    DynamicHandlers = {h1}
    NoRequest = NoRequest
SPECIFICATION Spec
INVARIANTS
    RetriedAfterHandlerAdded
CHECK_DEADLOCK FALSE
