SPECIFICATION Spec
CONSTANTS
    Handlers = {h1}
    Host = host
    Guests = {g1, g2}
    Models = {x1}
    HostModel = x1
    None = none
    Faults = {}
    MaxFrames = 4
    MaxFaults = 0
INVARIANT BothConfirmed
CHECK_DEADLOCK FALSE
