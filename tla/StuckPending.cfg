SPECIFICATION FairSpec
CONSTANTS
    NoMessage = NoMessage
    UIDModulus = 16
    ReplayLimit = 2
    FindLimit = 3
    Procs = {p}
    Messages <- SingleMessage
    Configs <- OneConfig
    Commands = {"run"}
    Faults = {"store", "panic"}
    MaxFaults = 1
PROPERTY PendingResolved
