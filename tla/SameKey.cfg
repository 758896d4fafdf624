SPECIFICATION FairSpec
\* All requests may be answered for good.
CHECK_DEADLOCK FALSE
CONSTANTS
    s1 = s1
    s2 = s2
    b1 = b1
    b2 = b2
    k1 = k1
    k2 = k2
    NoRequest = NoRequest
    Requests = {s1, s2, b1, b2}
    Batches = {b1, b2}
    Keys = {k1, k2}
    Items <- MCItems
    CostNormal = 1
    CostExpress = 2
    TopUpAmount = 2
    MaxTopUps = 2
    MaxTries <- MCTries
    MaxFaults = 1
INVARIANTS
    TypeOK
    OneMessagePerKey
    ReservationsAddUp
PROPERTIES
    KeyIsReplayed
    ImplementsSerial
    EveryRequestIsAnswered
