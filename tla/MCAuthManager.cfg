CONSTANTS
    TTLs <- TTLValues
    RetryWait = 2
    FallbackWait = 60
    FetchTimeout = 2
    Unknown = Unknown
SPECIFICATION Spec
INVARIANTS
    TypeOK
    ExpiredOnlyAfterFailure
    AtMostOneLateFetch
PROPERTIES
    StopEndsLoop
    KeepsRefreshing
