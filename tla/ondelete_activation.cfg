SPECIFICATION FairSpec
CONSTANTS
    Replicas = 3
    Templates = {1, 2}
    StartCPMS <- InactiveOnDelete
    StartMachines <- Unowned
    Editable = {"state"}
    MaxMachines = 6
    Bounds <- EditDeleteAbort
    FreshReads = FALSE
INVARIANTS InactiveIsReadOnly OneLiveMachinePerIndex
PROPERTIES AdoptionCompletes DeletedIsReplaced
