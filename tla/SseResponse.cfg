\* Three GET requests, one after the other, on a mailbox of three messages.
CONSTANTS
    Leases = {l1, l2, l3}
    NoLease = NoLease
    MaxMessages = 3
SPECIFICATION SseLiveSpec
INVARIANTS
    InOrderOnceEach
    NoLostWakeup
    OneMessageAtRisk
PROPERTIES
    LeasesComeBack
CHECK_DEADLOCK FALSE
