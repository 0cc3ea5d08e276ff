SPECIFICATION Spec
CONSTANTS
    Replicas = 3
    MaxDomains = 2
    Mixed = FALSE
INVARIANTS TypeOK GeneratedIsAdmitted AdmittedStays InjectsIntoACopy RefreshAgrees
CHECK_DEADLOCK FALSE
