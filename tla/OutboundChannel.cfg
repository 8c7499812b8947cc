\* An agent that writes, closes, aborts and ends against a router that reads;
\* no response has a lease.
CONSTANTS
    Leases = {}
    NoLease = NoLease
    MaxMessages = 4
SPECIFICATION ChannelSpec
INVARIANTS
    WritesThenTheEnd
PROPERTIES
    WritersGoOn
CHECK_DEADLOCK FALSE
