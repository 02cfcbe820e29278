SPECIFICATION FairSpec
CONSTANTS
    Items = {i1, i2}
    NoItem = NoItem
    Producers = {p1, p2, p3}
    Dispatchers = {d1, d2}
    MaxAttempts = 2
    Limit = 2
    MaxCrashes = 1
CHECK_DEADLOCK FALSE
INVARIANTS
    CallsAreCounted
PROPERTIES
    DispatchedIsFinal
    ImplementsQueue
    EveryItemSettles
