SPECIFICATION Spec
CONSTANTS
    Nodes = {1, 2}
    Services = {"a", "b"}
    Points <- MCPoints
    Position <- MCPosition
    Configured = {1, 2}
    StartsWith <- Nested
    MaxStarts = 1
    MaxFailures = 0
    MaxLost = 0
INVARIANTS
    KeysFollowMarks
CHECK_DEADLOCK FALSE
