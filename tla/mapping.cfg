SPECIFICATION Spec
CONSTANTS
    Replicas = 3
    Domains = {1, 2}
    FirstIndex = 1
    Strategies = {"RollingUpdate", "OnDelete"}
    MaxMachines = 5
    MaxDisruptions = 1
INVARIANTS MappingCoversIndexes LiveIndexesBalanced BalancedIsStable MovesOnce
CHECK_DEADLOCK FALSE
