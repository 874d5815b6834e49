\* The default of two retries, two calls, one crash.
SPECIFICATION FairSpec
CONSTANTS
    MaxRetries = 2
    MaxCalls = 2
    MaxCrashes = 1
INVARIANTS
    TypeOK
    SessionNotShared
    UpsertNotStale
    AuditTellsTheTruth
    RetriesAreExhausted
PROPERTIES
    EveryCallEnds
CHECK_DEADLOCK FALSE
