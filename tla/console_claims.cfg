SPECIFICATION Spec
CONSTANTS
    Tasks <- MCTasks
    Clusters <- MCClusters
    ClustersOf <- MCClustersOf
    Texts <- MCTexts
    NoText = ""
    Found <- MCFound
    PageSize = 1
    Everything = 5
    Initial <- MCInitial
    MaxLists = 3
    MaxCommands = 1
    MaxClicks = 1
    MaxFailures = 0
    MaxUnnoticed = 1
    MaxOthers = 0
    Foreign = {}
    MaxFaults = 1
INVARIANTS
    SuccessMeansDone
CHECK_DEADLOCK FALSE
