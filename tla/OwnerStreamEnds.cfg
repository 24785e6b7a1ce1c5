SPECIFICATION FairSpec
CONSTANTS
    Calls = {c1, c2, c3}
    MaxCalls = 2
    MaxChunks = 2
    MaxFaults = 1
INVARIANTS
    TypeOK
    ChargedAndAlone
    SlotEndsWithStream
    RecordTellsTheEnd
PROPERTIES
    NothingAfterAbort
    SlotIsGivenBack
CHECK_DEADLOCK FALSE
