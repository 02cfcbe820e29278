SPECIFICATION Spec
CONSTANTS
    Workers = {w1}
    Replays = {}
    Askers = {}
    Customers = {"cus"}
    NoCustomer = NoCustomer
    NoObject = NoObject
    Objects <- ObjectNames
    Events <- OneEvent
    Histories <- DatedHistory
    MaxRow = 2
    MaxTries = 1
    MaxFaults = 0
CHECK_DEADLOCK FALSE
INVARIANTS
    SnapshotFollowsEvents
