SPECIFICATION FairSpec
CONSTANTS
    Replicas = 3
    Templates = {1, 2}
    StartCPMS <- RollingUpdate
    StartMachines <- TwoOutdated
    Editable = {}
    MaxMachines = 8
    Bounds <- DeleteFlapAbort
    FreshReads = TRUE
PROPERTIES RolloutCompletes ImplementsCapacity RestoresCapacity
