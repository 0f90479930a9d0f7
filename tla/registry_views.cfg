SPECIFICATION FairSpec
CONSTANTS
    Nodes = {1, 2}
    Services = {"a"}
    Points <- MCPoints
    Position <- MCPosition
    Configured = {1, 2}
    StartsWith <- Nested
    MaxStarts = 2
    MaxFailures = 1
    MaxLost = 1
INVARIANTS
    TypeOK
    ViewCoherent
    SelfInView
    OneOwner
    SomeOwner
    KeysOutlastOthers
PROPERTIES
    TakenOver
CHECK_DEADLOCK FALSE
