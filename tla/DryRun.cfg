SPECIFICATION Spec
CONSTANTS
    NoMessage = NoMessage
    UIDModulus = 16
    ReplayLimit = 2
    FindLimit = 3
    Procs = {p, q}
    Messages <- SingleMessage
    Configs <- PreviewConfigs
    Commands = {"once"}
    Faults = {}
    MaxFaults = 0
PROPERTY DryRunWritesNothing
