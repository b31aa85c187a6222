SPECIFICATION Spec
CONSTANTS
    uplink = uplink
    test = test
    client = client
    Names <- Two
    None = None
    Uplink <- OneUplink
    Networked <- Two
    Configured <- Two
    Slice <- OwnSlice
    Inside <- NoneInside
    Requests = {r1, r2}
    Ops = {"start"}
    Faults = {}
    MaxCommits = 1
INVARIANTS
    NoDanglingSelf
CHECK_DEADLOCK FALSE
