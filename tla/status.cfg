SPECIFICATION FairSpec
CONSTANTS
    Replicas = 2
    maxContinuousErrors = 3
    Bounds <- AnyTwo
INVARIANTS TypeOK NoLostWakeup
PROPERTIES ReportsSettle ErrorNeedsRepetition ErrorSettles
