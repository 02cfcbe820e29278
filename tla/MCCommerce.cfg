SPECIFICATION Spec
CONSTANTS
    Workers = {w1, w2}
    Users = {}
    MaxRequests = 4
    StripeSubs = {"s1"}
    LocalSubs = {"s2"}
    Plans = {"pro", "team"}
    Quantities = {2}
    AddOns = {"seats"}
    EventEnds = {"never"}
    Payments = {"p1"}
    Customers = {"c1", "c2"}
    PrefixOf <- DefaultPrefix
    UsageKeys = {"", "k1", "k2"}
    DiscountLimit = 2
    PromoLimit = 1
    Windows = {x1, x2}
    Aggregation = "sum"
    EventKeys = {"e1", "e2"}
    EventUnits <- Readings
    FreeUnits = 1
    UnitCents = 2
    NewGrants <- Posted
SYMMETRY Symmetry
CHECK_DEADLOCK FALSE
INVARIANTS
    TypeOK
    ProviderColumnsCameFromStripe
    SnapshotKeepsPromises
    RefundedMeansPaidBack
    NumbersHaveNoGaps
    AckedUsageCountsOnce
    RedemptionsWithinLimit
    CreditsAreAccountedFor
