SPECIFICATION Spec
CONSTANTS
    t1 = t1
    Nodes = {1, 2}
    Tasks = {t1}
    NoTask = NoTask
    ServiceName <- OneService
    Points <- MCPoints
    Position <- MCPosition
    Timers <- OneWorker
    Consoles = {1, 2}
    SerialConsole = TRUE
    MaxOperation = 4
    MaxFailures = 1
    MaxChanges = 0
    MaxRestarts = 0
PROPERTIES
    SuspendedOnRequest
CHECK_DEADLOCK FALSE
