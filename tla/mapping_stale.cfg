SPECIFICATION Spec
CONSTANTS
    Replicas = 3
    Domains = {1, 2, 3}
    FirstIndex = 0
    Strategies = {"RollingUpdate"}
    MaxMachines = 6
    MaxDisruptions = 1
INVARIANTS NoSecondReplacement
CHECK_DEADLOCK FALSE
