\* Versions below, at and above those there are agents for, and at both sides
\* of the largest; three messages show a second and a third response.  Two
\* active sessions, of one id or two, with an update and two prompts, in one or
\* both.  Two items each way wait for initialize, together or one by one.
\* Version 2 has two prompts, which may overlap, a reader of each
\* kind, and two updates: one of before, and the end of a turn.
CONSTANTS
    Versions = {0, 1, 2, 3, 65535, 65536}
    MaxAnswers = 3
    SessionIds = {a, b}
    MaxSessions = 2
    MaxPrompts = 2
    MaxUpdates = 1
    MaxWaiters = 1
    MaxItems = 2
    MaxUpdatesV2 = 2
    MaxWaitersV2 = 2
SPECIFICATION ApplicationsSpec
INVARIANTS
    RoutedAsAsked
    PassesInitialized
    InOrderOfTheWire
    NoReaderWaits
    InOrderOfTheWireV2
    TextIsOfOneTurn
    NoReaderWaitsV2
PROPERTIES
    ClosedResolves
    WaitersSettle
CHECK_DEADLOCK FALSE
