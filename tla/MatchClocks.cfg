SPECIFICATION PartsSpec
CONSTANTS
    Handlers = {h1}
    Faults = {"crash"}
    MaxHands = 2
    MaxActions = 2
    MaxEntropies = 2
    MaxFaults = 1
    Leavers = {"A", "B"}
    Polls = {p}
    ClockHandlers = {c1, c2}
    ClockHands = 2
    ClockActions = 1
    MaxDrops = 1
    MaxCrashes = 1
    Sockets = {s1, s2}
    Interval = 1
    Timeout = 2
    Forfeit = 3
    Lag = 0
    MaxOpens = 1
    MaxSilences = 1
    MaxRestarts = 1
INVARIANTS
    TablesFollowPlay
    DecisionsAreTimed
    TimersFollowMatch
    CountIsExact
PROPERTIES
    EveryMatchEnds
    SilentMatchEnds
    VerdictIsDeserved
    ClosedSeatForfeits
