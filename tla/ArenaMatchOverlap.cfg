SPECIFICATION Spec
CONSTANTS
    Handlers = {h1, h2}
    Faults = {"crash", "store"}
    MaxHands = 2
    MaxActions = 1
    MaxEntropies = 2
    MaxFaults = 1
    Leavers = {"A"}
SYMMETRY Symmetry
INVARIANTS
    TypeOK
    SettlesTheVerdict
PROPERTIES
    RefinesEscrow
