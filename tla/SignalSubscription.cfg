CONSTANTS
    a = a
    b = b
    job1 = job1
    job2 = job2
    job3 = job3
    unit1 = unit1
    unit2 = unit2
    NoKey = NoKey
    NoSignal = NoSignal
    NoOne = NoOne
    Coroutines = {a, b}
    Signals <- MCSignals
    MaxMatches = 2
SPECIFICATION FairSpec
INVARIANTS TypeOK MemorySafe OneShot NotForgotten
PROPERTIES ImplementsMatch DispatchEnds
