SPECIFICATION Spec
CONSTANTS
    t1 = t1
    Nodes = {1, 2}
    Tasks = {t1}
    NoTask = NoTask
    ServiceName <- OneService
    Points <- MCPoints
    Position <- MCPosition
    Timers <- OneWorker
    Consoles = {1, 2}
    SerialConsole = TRUE
    MaxOperation = 2
    MaxFailures = 0
    MaxChanges = 0
    MaxRestarts = 0
INVARIANTS
    SuspendedIsUnsubscribed
CHECK_DEADLOCK FALSE
