SPECIFICATION Spec
CONSTANTS
    Handlers = {h1, h2}
    Inferences = {i1, i2}
    MaxCalls = 2
    Ttl = 2
    MaxTime = 0
    MaxReserves = 2
    MaxDrops = 0
    NoTime = NoTime
    NoInference = NoInference
INVARIANTS
    ChargedOnce
CHECK_DEADLOCK FALSE
