SPECIFICATION FairSpec
CONSTANTS
    t1 = t1
    Nodes = {1, 2}
    Tasks = {t1}
    NoTask = NoTask
    ServiceName <- OneService
    Points <- MCPoints
    Position <- MCPosition
    Timers <- Balancer
    Consoles = {2}
    SerialConsole = TRUE
    MaxOperation = 2
    MaxFailures = 0
    MaxChanges = 1
    MaxRestarts = 0
INVARIANTS
    FinishedIsSubscribed
PROPERTIES
    OwnerSynchronises
    SuspensionReachesAll
CHECK_DEADLOCK FALSE
