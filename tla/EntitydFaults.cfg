SPECIFICATION FairSpec
CONSTANTS
    None = None
    Host = Host
    root = root
    sw = sw
    low = low
    client = client
    Names = {root, sw, low, client}
    Space <- MCOwn
    Role <- MCRole
    Uplink <- MCUplink
    Address <- MCAddress
    MaxStarts = 1
    Faults = {"command", "hangup"}
INVARIANTS
    TypeOK
    NoTrace
    RoutesComplete
PROPERTIES
    TornDown
CHECK_DEADLOCK FALSE
