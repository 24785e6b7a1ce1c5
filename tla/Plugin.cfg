SPECIFICATION PartsSpec
CONSTANTS
    Locals = {m1, m2}
    Rooms = {r1}
    Requests = {q1, q2}
    Second = m2
    MaxAsks = 1
    NoHandle = NoHandle
INVARIANTS
    PromptsKeepApart
PROPERTIES
    DecisionsReturn
    AbortedEnds
CHECK_DEADLOCK FALSE
