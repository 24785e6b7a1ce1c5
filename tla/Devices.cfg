SPECIFICATION PartsSpec
CONSTANTS
    Plugins = {p1, p2}
    Uses = 3
    MaxSockets = 4
    MaxFaults = 2
    Handlers = {h1, h2}
    Host = host
    Guests = {g1, g2}
    Models = {x1, x2}
    HostModel = x1
    None = none
    FaultKinds = {"crash", "store"}
    MaxFrames = 6
    MaxRoomFaults = 2
INVARIANTS
    TypeOK
    UsesPayForDevices
    DeviceOfItsKey
    NamedMatchIsBacked
PROPERTIES
    StaysItsDevice
    DeviceReturns
    AcceptedRoomOpens
CHECK_DEADLOCK FALSE
