SPECIFICATION Spec
CONSTANTS
    Polls = {p1}
    Handlers = {h1, h2}
    MaxHands = 1
    MaxActions = 1
    MaxDrops = 0
    MaxCrashes = 0
PROPERTY
    FiresOnlyDue
CHECK_DEADLOCK FALSE
