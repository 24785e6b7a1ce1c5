SPECIFICATION Spec
CONSTANTS
    Handlers = {h1}
    Inferences = {i1}
    MaxCalls = 1
    Ttl = 2
    MaxTime = 2
    MaxReserves = 1
    MaxDrops = 0
    NoTime = NoTime
    NoInference = NoInference
INVARIANTS
    TtlPausesOffline
CHECK_DEADLOCK FALSE
