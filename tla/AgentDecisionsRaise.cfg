\* A model that raises above its stack.
SPECIFICATION Spec
CONSTANTS
    Locals = {m1}
    Rooms = {r1}
    Requests = {q1}
    MaxAsks = 2
    NoHandle = NoHandle
INVARIANT AcceptedIsLegal
CHECK_DEADLOCK FALSE
