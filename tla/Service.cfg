CONSTANTS
    Main = Main
    e1 = e1
    e2 = e2
    Buses = {e1, e2}
    MaxOthers = 2
SPECIFICATION FairSpec
INVARIANTS TypeOK NoFreedBus
PROPERTY EveryMessageDispatched
CHECK_DEADLOCK FALSE
