SPECIFICATION FairSpec
CONSTANTS
    NoMessage = NoMessage
    UIDModulus = 6
    ReplayLimit = 2
    FindLimit = 3
    Procs = {p}
    Messages <- LiveMessages
    Configs <- OneConfig
    Commands = {"run"}
    Faults <- LiveFaults
    MaxFaults = 2
INVARIANTS
    TypeOK
    NoGap
PROPERTIES
    OnlyReplayReopens
    PendingResolved
    AlertConsidered
