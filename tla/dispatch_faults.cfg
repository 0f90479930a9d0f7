SPECIFICATION Spec
CONSTANTS
    t1 = t1
    Nodes = {1, 2}
    Tasks = {t1}
    NoTask = NoTask
    ServiceName <- OneService
    Points <- MCPoints
    Position <- MCPosition
    Timers <- Collector
    Consoles = {1}
    SerialConsole = FALSE
    MaxOperation = 2
    MaxFailures = 1
    MaxChanges = 0
    MaxRestarts = 1
INVARIANTS
    OneCommandPerOperation
    CacheCoherent
    
PROPERTIES
    NewCommandIsUnfinished
CHECK_DEADLOCK FALSE
