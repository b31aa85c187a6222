SPECIFICATION Spec
CONSTANTS
    None = None
    Host = Host
    root = root
    sw = sw
    low = low
    client = client
    Names = {root, sw, low}
    Space <- MCOwn
    Role <- MCRole
    Uplink <- MCUplink
    Address <- MCAddress
    MaxStarts = 2
    Faults = {}
INVARIANTS
    NoTrace
    RoutesComplete
    AddSucceeds
CHECK_DEADLOCK FALSE
