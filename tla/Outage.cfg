SPECIFICATION Spec
CONSTANTS
    DialTimeout = 1
    FetchTimeout = 1
    Interval = 1
    MaxBackoff = 3
    RequestTimeout = 1
    MaxAge = 3
    Accounts = 1
    MaxBatch = 1
    MaxFailures = 2
    Intents <- MCIntents
INVARIANT OutageBacksOff
