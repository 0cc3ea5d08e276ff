SPECIFICATION FairSpec
CONSTANTS
    Replicas = 3
    Templates = {1, 2}
    StartCPMS <- RollingUpdate
    StartMachines <- TwoOutdated
    Editable = {}
    MaxMachines = 8
    Bounds <- OneAbort
    FreshReads = FALSE
INVARIANTS NoDuplicateReplacement IndexesStayAvailable
PROPERTIES CreatesWithinLimit RolloutCompletes
