SPECIFICATION Spec
CONSTANTS
    NoMessage = NoMessage
    UIDModulus = 16
    ReplayLimit = 2
    FindLimit = 3
    Procs = {p, q}
    Messages <- SingleMessage
    Configs <- OverlapConfigs
    Commands = {"once", "replay"}
    Faults = {}
    MaxFaults = 0
INVARIANT AtMostOnce
