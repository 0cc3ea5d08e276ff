SPECIFICATION FairSpec
CONSTANTS
    Replicas = 2
    Templates = {1, 2}
    Rejected = {3}
    MaxMachines = 3
    Bounds <- AnyThree
    FreshMetadata = TRUE
INVARIANTS TypeOK OwnersAreProtected ActivatedIsNotRegenerated OwnedOnceActivated
PROPERTIES DeletionCompletes GeneratorConverges AdoptionCompletes
CHECK_DEADLOCK FALSE
