SPECIFICATION FairSpec
CONSTANTS
    TTL <- MCTTL
    InitialCredits = 2
    AppDebug = TRUE
    MaxReady = 1
    MaxScrape = 2
    MaxFaults = 2
    NoValue = NoValue
INVARIANTS
    TypeOK
    StaleOnlyAfterFailure
    NoFalseAlarm
PROPERTIES
    MismatchIsReported
    GaugesConverge
