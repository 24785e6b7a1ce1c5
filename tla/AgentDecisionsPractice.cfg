\* A local match next to an online one.
SPECIFICATION Spec
CONSTANTS
    Locals = {m1}
    Rooms = {r1}
    Requests = {q1}
    MaxAsks = 2
    NoHandle = NoHandle
PROPERTY LocalLeavesOnline
CHECK_DEADLOCK FALSE
