SPECIFICATION Spec
CONSTANTS
    PageSize = 2
    MaxBatch = 2
    MaxRequests = 4
INVARIANTS
    TypeOK
    NothingMissed
    QuietListIsExact
