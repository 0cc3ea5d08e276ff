SPECIFICATION FairSpec
CONSTANTS
    Replicas = 2
    Templates = {1, 2}
    Rejected = {3}
    MaxMachines = 3
    Bounds <- AnyThree
    FreshMetadata = FALSE
INVARIANTS OwnersAreProtected
CHECK_DEADLOCK FALSE
