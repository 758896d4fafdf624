SPECIFICATION FairSpec
\* Relays and customers rest when nothing is due.
CHECK_DEADLOCK FALSE
CONSTANTS
    big = big
    small = small
    None = None
    Dead = Dead
    Jobs = {1, 2, 3, 4}
    UserOf <- MCUserOf
    Relays = {r1, r2}
    r1 = r1
    r2 = r2
    BatchSize = 3
    PerUserLimit = 2
    MaxFaults = 1
INVARIANTS
    TypeOK
    ClaimsExclude
PROPERTIES
    NoRoomWasted
    RoundRobin
    EveryCustomerServed
    EveryJobIsClaimed
