SPECIFICATION Spec
CONSTANTS
    Nodes = {1, 2, 3}
    Circle <- Fives
    MaxReplicas = 2
INVARIANTS
    OwnerIsNearest
    NothingShared
PROPERTIES
    LittleMoves
