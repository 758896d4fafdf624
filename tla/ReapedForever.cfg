SPECIFICATION FairSpec
\* All messages may be settled, and nobody submits another: the system rests.
CHECK_DEADLOCK FALSE
CONSTANTS
    u1 = u1
    m1 = m1
    r1 = r1
    w1 = w1
    None = None
    Dead = Dead
    Users = {u1}
    Messages = {m1}
    UserOf <- MCUserOf
    ExpressMessages = {}
    CostNormal = 1
    CostExpress = 2
    TopUpAmount = 2
    MaxToppedUp = 2
    AppDebug = FALSE
    Relays = {r1}
    ExpressRelays = {}
    BatchSize = 2
    ReapLimit = 2
    Workers = {w1}
    MaxDeliveryAttempts = 2
    QueueCap = 2
    MaxFaults = 1
PROPERTIES
    EveryJobRetires
