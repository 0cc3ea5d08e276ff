SPECIFICATION Spec
CONSTANTS
    Replicas = 2
    MaxDomains = 2
    Mixed = TRUE
INVARIANTS InjectsIntoACopy
CHECK_DEADLOCK FALSE
