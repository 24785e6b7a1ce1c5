SPECIFICATION BoundedSpec
CONSTANTS
    Handlers = {h1}
    Inferences = {i1, i2}
    MaxCalls = 2
    Ttl = 1
    MaxTime = 1
    MaxReserves = 2
    MaxDrops = 1
    NoTime = NoTime
    NoInference = NoInference
    OwnCalls = {o1, o2, o3}
    CallsOfGrant = 2
    OwnChunks = 1
    OwnFaults = 1
    Calls = {c1, c2}
    Unheld = Unheld
    OpenStreams = 2
    Overtaking = 2
    Chunks = 2
    Drops = 1
SYMMETRY Symmetry
INVARIANTS
    TypeOK
    GrantAddsUp
    CallsAreRecorded
    ChunksInOrder
PROPERTIES
    RefinesLedger
CHECK_DEADLOCK FALSE
