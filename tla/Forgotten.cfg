SPECIFICATION FairSpec
CONSTANTS
    NoMessage = NoMessage
    UIDModulus = 16
    ReplayLimit = 2
    FindLimit = 3
    Procs = {p}
    Messages <- SingleMessage
    Configs <- OneConfig
    Commands = {"once", "replay"}
    Faults = {"mail", "firefly"}
    MaxFaults = 2
PROPERTY RecordKept
