SPECIFICATION Spec
CONSTANTS
    Polls = {p1, p2}
    Handlers = {h1, h2}
    MaxHands = 2
    MaxActions = 1
    MaxDrops = 1
    MaxCrashes = 1
INVARIANTS
    TypeOK
    DecisionStaysTimed
    DisconnectStaysTimed
    EndedMatchIsQuiet
CHECK_DEADLOCK FALSE
