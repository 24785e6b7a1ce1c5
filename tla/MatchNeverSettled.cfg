SPECIFICATION Spec
CONSTANTS
    Handlers = {h1}
    Faults = {"crash"}
    MaxHands = 1
    MaxActions = 1
    MaxEntropies = 2
    MaxFaults = 1
    Leavers = {"A", "B"}
INVARIANTS
    VerdictIsSettled
