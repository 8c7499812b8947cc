\* Two sessions, whose event streams open, end and open again, and three requests;
\* lines of two bytes and their ends, one that is too long, and what follows.
CONSTANTS
    Sessions = {s1, s2}
    MaxRequests = 3
    MaxMessageBytes = 2
    MaxInput = 5
    MaxLines = 1
SPECIFICATION StreamsSpec
INVARIANTS
    MessagesAreTheLines
PROPERTIES
    NothingIsLeft
    WritesGoOn
CHECK_DEADLOCK FALSE
