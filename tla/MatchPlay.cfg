SPECIFICATION PartsSpec
CONSTANTS
    StartingStack = 12
    MaxHands = 3
    HandBound = 5
    BlindSchedule <- MCBlinds
INVARIANTS
    TypeOK
    ChipsConserved
    HandIsSound
    VerdictMatchesChips
    BoardIsDeckDetermined
    ScriptsPlayLegally
PROPERTIES
    PayoutIsFair
    TurnsAreOrderly
    HandCompletes
    ScriptsPlayAMatch
CHECK_DEADLOCK FALSE
