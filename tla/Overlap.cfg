SPECIFICATION Spec
CONSTANTS
    NoMessage = NoMessage
    UIDModulus = 16
    ReplayLimit = 2
    FindLimit = 3
    Messages <- OverlapMessages
    Configs <- OverlapConfigs
    Procs = {p, q}
    Commands = {"once", "import"}
    Faults <- OverlapFaults
    MaxFaults = 2
SYMMETRY Sym
INVARIANTS
    OneOwner
    AtMostOnce
    NoGap
    Ownership
PROPERTY PromiseKept
