\* Two calls of two chunks, and a socket that closes anywhere.
SPECIFICATION Spec
CONSTANTS
    Calls = {c1, c2}
    NoCall = NoCall
    MaxOpen = 1
    Window = 1
    MaxChunks = 2
    MaxDrops = 1
SYMMETRY Symmetry
INVARIANTS
    TypeOK
    InOrderOfArrival
    NonePassedOver
    WholeAnswer
CHECK_DEADLOCK FALSE
