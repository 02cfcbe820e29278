SPECIFICATION FairSpec
CONSTANTS
    Workers = {w1, w2}
    Replays = {}
    Askers = {a1}
    Customers = {"cus"}
    NoCustomer = NoCustomer
    NoObject = NoObject
    Objects <- ObjectNames
    Events <- TwoEvents
    Histories <- LiveHistories
    MaxRow = 4
    MaxTries = 2
    MaxFaults = 1
CHECK_DEADLOCK FALSE
PROPERTIES
    EveryEventIsAcked
    AppliedOnceUnlessDisturbed
