SPECIFICATION Spec
\* Every request may be answered and the time be up.
CHECK_DEADLOCK FALSE
CONSTANTS
    q1 = q1
    q2 = q2
    q3 = q3
    b1 = b1
    h1 = h1
    NoUser = NoUser
    Requests = {q1, q2, q3, b1, h1}
    RequestOf <- MCRequestOf
    Limit <- MCLimit
    Burst <- MCBurst
    Window = 2
    FailOpen = TRUE
    MaxDelay = 1
    MaxTime = 4
    MaxFaults = 1
SYMMETRY Alike
INVARIANTS
    TypeOK
    LimitsKept
PROPERTIES
    RefusedOnlyOverBudget
    RetryAfterIsEnough
    BatchPaysPerMessage
