\* One connection of each kind.
CONSTANTS
    Http = {h}
    Ws = {w}
SPECIFICATION LiveSpec
INVARIANTS
    LiveConnectionsAreHeld
PROPERTIES
    InitializeIsAnswered
    TheEndIsFinal
CHECK_DEADLOCK FALSE
