SPECIFICATION Spec
CONSTANTS
    Handlers = {h1, h2}
    Inferences = {i1, i2}
    MaxCalls = 1
    Ttl = 2
    MaxTime = 0
    MaxReserves = 1
    MaxDrops = 0
    NoTime = NoTime
    NoInference = NoInference
INVARIANTS
    CallBudget
CHECK_DEADLOCK FALSE
