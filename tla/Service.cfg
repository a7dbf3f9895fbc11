SPECIFICATION FairSpec
CONSTANTS
    DialTimeout = 2
    FetchTimeout = 3
    Interval = 2
    MaxBackoff = 7
    RequestTimeout = 1
    MaxAge = 6
    Accounts = 1
    MaxBatch = 2
    MaxFailures = 3
    Intents <- MCIntents
INVARIANTS TypeOK NothingLeftOpen ShutdownPrompt StaysHealthy
PROPERTIES EndReported BacksOff LaunchedAsMeant PollsEnd
