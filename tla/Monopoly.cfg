SPECIFICATION HistorySpec
\* Relays and customers rest when nothing is due.
CHECK_DEADLOCK FALSE
CONSTANTS
    big = big
    small = small
    None = None
    Dead = Dead
    r1 = r1
    r2 = r2
    Jobs = {1, 2, 3, 4, 5}
    UserOf <- MCUserOf
    Relays = {r1, r2}
    BatchSize = 2
    PerUserLimit = 1
    MaxFaults = 0
PROPERTIES
    NoMonopoly
