\* Two sessions, or two client requests, and up to three messages of the agent.
CONSTANTS
    s1 = s1
    s2 = s2
    r1 = r1
    r2 = r2
    Sessions = {s1, s2}
    Connection = Connection
    TooLong = TooLong
    Requests = {r1, r2}
    RouteOf <- MCRouteOf
    NoRoute = NoRoute
    MaxBuffered = 2
    MaxSessionStreams = 1
    MaxOutput = 3
SPECIFICATION MCSpec
INVARIANTS
    OutputIsBounded
    NoMissedProgress
    InOrderPerStream
PROPERTIES
    WaitingEnds
    AgentGoneIsNoticed
CHECK_DEADLOCK FALSE
