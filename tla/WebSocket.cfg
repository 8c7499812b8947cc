\* The server's end with four frames and two messages of the agent, or the client's
\* with four sends, on every kind of socket.
CONSTANTS
    MaxBuffered = 2
    MaxFrames = 4
    MaxOutput = 2
    MaxSends = 4
SPECIFICATION EndsSpec
INVARIANTS
    BuffersAreBounded
    NothingLeftBehind
    SentInOrder
PROPERTIES
    SessionsEnd
    SendsSettle
CHECK_DEADLOCK FALSE
