SPECIFICATION FairSpec
CONSTANTS
    uplink = uplink
    test = test
    client = client
    Names <- Two
    None = None
    Uplink <- OneUplink
    Networked <- Two
    Configured <- First
    Slice <- OwnSlice
    Inside <- NoneInside
    Requests = {r1, r2, r3}
    Ops = {"start", "stop"}
    Faults = {"call", "job"}
    MaxCommits = 1
INVARIANTS
    TypeOK
    NoOrphan
PROPERTIES
    ImplementsQueue
    Answered
CHECK_DEADLOCK FALSE
