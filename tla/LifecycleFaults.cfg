SPECIFICATION Spec
CONSTANTS
    uplink = uplink
    test = test
    client = client
    Names <- Two
    None = None
    Uplink <- OneUplink
    Networked <- Two
    Configured <- Two
    Slice <- OwnSlice
    Inside <- TestInside
    Requests = {r1, r2, r3}
    Ops = {"start", "stop"}
    Faults = {"fork", "alloc", "bus", "handshake", "job", "die", "crash", "systemdTimeout", "entitydTimeout"}
    MaxCommits = 0
INVARIANTS
    NoLostWakeup
PROPERTIES
    StopOkMeansDown
SYMMETRY Symmetry
CHECK_DEADLOCK FALSE
