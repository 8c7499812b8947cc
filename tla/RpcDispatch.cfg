\* Two of two requests with one id and a notification, one static and up to two
\* dynamic handlers.
CONSTANTS
    r1 = r1
    r2 = r2
    s1 = s1
    s2 = s2
    id1 = id1
    Requests = {r1, r2}
    Notifications = {n1}
    IdOf <- SharedId
    StaticHandlers <- OneStatic
    DynamicHandlers = {h1, h2}
    NoRequest = NoRequest
SPECIFICATION MCSpec
INVARIANTS
    NothingDropped
    RegistryIsExact
PROPERTIES
    DispatchEnds
CHECK_DEADLOCK FALSE
