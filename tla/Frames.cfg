\* Three handlers record events, three frames pass the gate, two instances
\* forward frames to two devices.
SPECIFICATION PartsSpec
CONSTANTS
    Handlers = {h1, h2, h3}
    Payloads = {p1, p2}
    MaxEvents = 3
    Frames = {f1, f2, f3}
    MessageIds = {m1, m2}
    MaxMessages = 1
    SeenSeconds = 2
    MaxSeconds = 3
    Instances = {i1, i2}
    Devices = {d1, d2}
    Sockets = {s1, s2}
    MaxSends = 3
    MaxFaults = 1
SYMMETRY Symmetry
INVARIANTS
    LinksAreStored
    GateCounts
    FramesReachTheirSockets
PROPERTIES
    AppendOnly
CHECK_DEADLOCK FALSE
