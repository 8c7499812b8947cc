\* One session and one request suffice.
CONSTANTS
    Sessions = {s1}
    MaxRequests = 1
SPECIFICATION Spec
INVARIANTS
    ResponsesHaveAStream
CHECK_DEADLOCK FALSE
