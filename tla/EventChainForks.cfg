\* One handler at a time, and a server that restarts in the middle of a match.
SPECIFICATION Spec
CONSTANTS
    Handlers = {h1}
    Payloads = {p1, p2}
    MaxEvents = 3
INVARIANT ChainVerifies
CHECK_DEADLOCK FALSE
