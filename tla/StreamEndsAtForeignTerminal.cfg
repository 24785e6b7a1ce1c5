SPECIFICATION Spec
CONSTANTS
    Calls = {c1, c2}
    NoCall = NoCall
    MaxOpen = 1
    Window = 1
    MaxChunks = 1
    MaxDrops = 0
INVARIANTS OwnTerminal
SYMMETRY Symmetry
CHECK_DEADLOCK FALSE
