SPECIFICATION Spec
CONSTANTS
    Workers = {w1, w2}
    Replays = {q1}
    Askers = {}
    Customers = {"cus"}
    NoCustomer = NoCustomer
    NoObject = NoObject
    Objects <- ObjectNames
    Events <- RaceEvents
    Histories <- RaceHistories
    MaxRow = 4
    MaxTries = 2
    MaxFaults = 1
CHECK_DEADLOCK FALSE
SYMMETRY WorkerSymmetry
INVARIANTS
    ProcessedIsAnnounced
    AnnouncedIsApplied
    SnapshotIsLogged
    ProcessedIsStored
    NoFailureIsForgotten
PROPERTIES
    DeliveryIsAQueue
    SnapshotReflectsRun
