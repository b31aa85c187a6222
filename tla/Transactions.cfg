SPECIFICATION Spec
CONSTANTS
    Json <- MCJson
    EarlyNames <- MCEarlyNames
    Files <- SomeFiles
    Ids = {t1}
    Uids = {0}
    Names = {"a", "b", ":default-netns"}
    Parameters <- Wide
    MaxOps = 2
    None = None
INVARIANTS
    TypeOK
    RunningValid
    DefaultNetnsOwned
    NoUplinkLoop
PROPERTIES
    AllOrNothing
CHECK_DEADLOCK FALSE
