SPECIFICATION FairSpec
CONSTANTS
    Replicas = 3
    Templates = {1, 2, 3}
    StartCPMS <- RollingUpdate
    StartMachines <- OneOutdated
    Editable = {"template"}
    MaxMachines = 8
    Bounds <- OneEdit
    FreshReads = TRUE
PROPERTIES RolloutCompletes
