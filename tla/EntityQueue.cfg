SPECIFICATION FairSpec
CONSTANTS
    Names = {uplink, test}
    Coroutines = {c1, c2, c3, c4}
    None = None
INVARIANTS
    TypeOK
    MutualExclusion
    FlagMatchesToken
    ResumedOnce
PROPERTIES
    NoOvertaking
    ImplementsLock
    WaiterServed
