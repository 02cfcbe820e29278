SPECIFICATION Spec
CONSTANTS
    Workers = {w1, w2}
    Replays = {}
    Askers = {}
    Customers = {"cus"}
    NoCustomer = NoCustomer
    NoObject = NoObject
    Objects <- ObjectNames
    Events <- TwoEvents
    Histories <- TwinHistory
    MaxRow = 2
    MaxTries = 1
    MaxFaults = 0
CHECK_DEADLOCK FALSE
INVARIANTS
    OneRowPerObject
