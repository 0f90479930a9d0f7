SPECIFICATION FairSpec
CONSTANTS
    t1 = t1
    Nodes = {1, 2}
    Tasks = {t1}
    NoTask = NoTask
    ServiceName <- OneService
    Points <- MCPoints
    Position <- MCPosition
    Timers <- OneWorker
    Consoles = {1}
    SerialConsole = TRUE
    MaxOperation = 1
    MaxFailures = 0
    MaxChanges = 3
    MaxRestarts = 1
INVARIANTS
    TypeOK
    FinishedIsSubscribed
PROPERTIES
    OwnerSynchronises
CHECK_DEADLOCK FALSE
