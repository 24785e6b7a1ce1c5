\* An agent that answers a prompt after its 60 seconds.
SPECIFICATION Spec
CONSTANTS
    Locals = {m1}
    Rooms = {r1}
    Requests = {q1}
    MaxAsks = 2
    NoHandle = NoHandle
INVARIANT AnswerIsOwn
CHECK_DEADLOCK FALSE
