SPECIFICATION Spec
CONSTANTS
    uplink = uplink
    test = test
    client = client
    Names <- Two
    None = None
    Uplink <- OneUplink
    Networked <- Two
    Configured <- Two
    Slice <- OwnSlice
    Inside <- NoneInside
    Requests = {r1, r2, r3}
    Ops = {"start", "stop"}
    Faults = {}
    MaxCommits = 0
INVARIANTS
    DaemonStaysUp
CHECK_DEADLOCK FALSE
