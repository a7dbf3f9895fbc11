SPECIFICATION Spec
CONSTANTS
    NoMessage = NoMessage
    UIDModulus = 16
    ReplayLimit = 2
    FindLimit = 3
    Messages <- ReplayMessages
    Configs <- ReplayConfigs
    Procs = {p}
    Commands = {"once", "import", "replay"}
    Faults <- ReplayFaults
    MaxFaults = 2
INVARIANTS
    SettledIsPosted
    OncePerReference
PROPERTIES
    OnlyReplayReopens
    SettledNotPosted
    WatermarkForward
