-------------------------- MODULE ClusterValidation --------------------------
(***************************************************************************)
(* What one reconcile concludes from its MachineInfos before it touches    *)
(* anything: the status counts (status.go) and the Degraded condition that *)
(* setConditions and then validateClusterState (controller.go) leave on    *)
(* the ControlPlaneMachineSet.  A reconcile that is Degraded stops there.  *)
(***************************************************************************)
EXTENDS MachineInfos

(***************************************************************************)
(* The reasons of the Degraded condition; it is True for all but the       *)
(* first.                                                                  *)
(***************************************************************************)
DegradedReason ==
    {"AsExpected", "NoReadyMachines", "UnmanagedNodes", "ExcessIndexes",
     "ExcessUpdatedReplicas", "FailedReplacement", "MachinesAlreadyOwned",
     "InvalidStrategy"}

statusReadyReplicas(ms) == Cardinality(readyMachines(ms))

getDegradedCondition(ms) ==
    IF statusReadyReplicas(ms) = 0 THEN "NoReadyMachines" ELSE "AsExpected"

(***************************************************************************)
(* The checks of validateClusterState, TRUE where the Go function is.      *)
(***************************************************************************)
checkReadyControlPlaneMachineExists(ms) ==
    LET indexes  == machineInfosByIndex(ms)
        nonReady == {i \in indexes : /\ ofIndex(ms, i) # {}
                                     /\ readyMachines(ofIndex(ms, i)) = {}}
    IN  Cardinality(nonReady) # Cardinality(indexes)

checkControlPlaneNodesToMachinesMappings(ms, nodeNames) ==
    \A n \in nodeNames : \E m \in ms : m.hasNode /\ m.name = n

checkCorrectNumberOfIndexes(ms) ==
    Cardinality(machineInfosByIndex(ms)) <= Replicas

checkValidNumerOfUpdatedMachinesPerIndex(ms, strategy) ==
    strategy = "OnDelete" =>
        \A i \in machineInfosByIndex(ms) :
            Cardinality(updatedMachines(ofIndex(ms, i))) <= 1

checkNoErrorForReplacements(ms) ==
    \A i \in machineInfosByIndex(ms) :
        LET machines == ofIndex(ms, i)
        IN  needReplacementMachines(machines) # {} =>
                \A m \in pendingMachines(machines) : ~m.failed

(***************************************************************************)
(* The first check that fails decides; when none does, validateClusterState *)
(* leaves the condition of setConditions in place.                         *)
(***************************************************************************)
validateClusterState(ms, nodeNames, strategy) ==
    IF ~checkReadyControlPlaneMachineExists(ms) THEN "NoReadyMachines"
    ELSE IF ~checkControlPlaneNodesToMachinesMappings(ms, nodeNames) THEN "UnmanagedNodes"
    ELSE IF ~checkCorrectNumberOfIndexes(ms) THEN "ExcessIndexes"
    ELSE IF ~checkValidNumerOfUpdatedMachinesPerIndex(ms, strategy) THEN "ExcessUpdatedReplicas"
    ELSE IF ~checkNoErrorForReplacements(ms) THEN "FailedReplacement"
    ELSE getDegradedCondition(ms)

isControlPlaneMachineSetDegraded(reason) == reason # "AsExpected"

=============================================================================
