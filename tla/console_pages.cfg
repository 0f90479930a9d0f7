SPECIFICATION Spec
CONSTANTS
    Tasks <- MCTasks
    Clusters <- MCClusters
    ClustersOf <- MCClustersOf
    Texts <- MCTexts
    NoText = ""
    Found <- MCFound
    PageSize = 1
    Everything = 5
    Initial <- MCInitial
    MaxLists = 3
    MaxCommands = 2
    MaxClicks = 2
    MaxFailures = 1
    MaxUnnoticed = 1
    MaxOthers = 1
    Foreign = {4}
    MaxFaults = 1
INVARIANTS
    TypeOK
    ShowsTheStore
    NamesKnown
    WaitsForItsCommand
PROPERTIES
    KeepsPromise
    SpinnerEnds
CHECK_DEADLOCK FALSE
