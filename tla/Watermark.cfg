SPECIFICATION FairSpec
CONSTANTS
    NoMessage = NoMessage
    UIDModulus = 16
    ReplayLimit = 2
    FindLimit = 3
    Procs = {p}
    Messages <- PairMessages
    Configs <- OneConfig
    Commands = {"run"}
    Faults = {}
    MaxFaults = 0
PROPERTY EveryAlertConsidered
