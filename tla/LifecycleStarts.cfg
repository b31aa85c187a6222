SPECIFICATION Spec
CONSTANTS
    uplink = uplink
    test = test
    client = client
    Names <- Three
    None = None
    Uplink <- TwoUplinks
    Networked <- Three
    Configured <- Three
    Slice <- OwnSlice
    Inside <- NoneInside
    Requests = {r1, r2, r3}
    Ops = {"start"}
    Faults = {"fork", "handshake"}
    MaxCommits = 0
INVARIANTS
    UplinkFirst
PROPERTIES
    StartOkMeansUp
SYMMETRY Symmetry
CHECK_DEADLOCK FALSE
