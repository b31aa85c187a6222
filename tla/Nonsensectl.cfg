SPECIFICATION CtlSpec
CONSTANTS
    alice = alice
    root = root
    None = None
    Json <- NoJson
    EarlyNames <- NoNames
    Files <- EmptyFile
    Uids = {0, 1}
    Names = {"a", "b"}
    Parameters <- Lists
    Users = {alice, root}
    Uid <- MCUid
    Ids = {t1}
    MaxOps = 6
    Commands <- MCCommands
    Faults = {"timeout"}
    MaxCommands = 4
INVARIANTS
    CtlTypeOK
    CommitMeansApplied
    AnswerOnItsWay
CHECK_DEADLOCK FALSE
