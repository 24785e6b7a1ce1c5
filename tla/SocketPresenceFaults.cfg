SPECIFICATION Spec
CONSTANTS
    Sockets = {s1, s2}
    Interval = 1
    Timeout = 2
    Forfeit = 3
    Lag = 1
    MaxOpens = 1
    MaxSilences = 1
    MaxRestarts = 1
INVARIANTS
    TypeOK
    CountIsExact
PROPERTIES
    OnlyTheAbsentLose
    WinnerWasThere
