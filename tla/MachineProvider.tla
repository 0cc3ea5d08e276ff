--------------------------- MODULE MachineProvider ---------------------------
(***************************************************************************)
(* The OpenShift Machine provider: how Machines and Nodes become           *)
(* MachineInfos, and what the Machine it creates looks like                *)
(* (pkg/machineproviders/providers/openshift/machine/v1beta1/provider.go). *)
(*                                                                         *)
(* A provider config is one member of Templates; a Machine needs an update *)
(* exactly when the config it was created from is not the current one (the *)
(* diff after the failure domain of its index was injected).  A Machine's  *)
(* index is the suffix of its name, so it never changes.                   *)
(*                                                                         *)
(* A Node's Ready condition has three values: "ready"; "brief", not ready  *)
(* for less than unreadyNodeGracePeriod; "unready", not ready for longer.  *)
(***************************************************************************)
EXTENDS MachineInfos

CONSTANT
    Templates    \* provider configs a template or a Machine may carry

NodeState == {"ready", "brief", "unready"}

Phase == {"Provisioning", "Running", "Deleting", "Failed"}

Machine ==
    [index : Nat, spec : Templates, phase : Phase, nodeRef : BOOLEAN,
     deleted : BOOLEAN, owner : Owner]

(***************************************************************************)
(* The objects of one kind at one moment, by name.  The Node of a Machine  *)
(* has the Machine's name.                                                 *)
(***************************************************************************)
isObjectsOf(objects, names, Kind) ==
    /\ DOMAIN objects \subseteq names
    /\ objects \in [DOMAIN objects -> Kind]

isNodeReady(node) == node = "ready"

isNodeNotReadyWithinNodeGracePeriod(node) == node \in {"ready", "brief"}

(***************************************************************************)
(* isMachineReady for a Machine that has a NodeRef and a Node that was     *)
(* found; without a NodeRef it is FALSE, without a Node it is an error.    *)
(***************************************************************************)
isMachineReady(machine, node) ==
    \/ machine.phase = "Running" /\ isNodeReady(node)
    \/ machine.phase = "Running" /\ isNodeNotReadyWithinNodeGracePeriod(node)
    \/ machine.phase = "Deleting" /\ isNodeReady(node)

generateMachineInfo(n, ms, ns, template) ==
    [name        |-> n,
     index       |-> ms[n].index,
     ready       |-> ms[n].nodeRef /\ isMachineReady(ms[n], ns[n]),
     needsUpdate |-> ms[n].spec # template,
     deleted     |-> ms[n].deleted,
     failed      |-> ms[n].phase = "Failed",
     hasNode     |-> ms[n].nodeRef,
     owner       |-> ms[n].owner]

(***************************************************************************)
(* GetMachineInfos returns an error when a referenced Node is not found.   *)
(***************************************************************************)
machineInfosAvailable(ms, ns) ==
    \A n \in DOMAIN ms : ms[n].nodeRef => n \in DOMAIN ns

GetMachineInfos(ms, ns, template) ==
    {generateMachineInfo(n, ms, ns, template) : n \in DOMAIN ms}

(***************************************************************************)
(* A bug: the template's own owner, none at all, is kept.                  *)
(***************************************************************************)
newMachineOwnerless(i, template) ==
    [index |-> i, spec |-> template, phase |-> "Provisioning",
     nodeRef |-> FALSE, deleted |-> FALSE]

(***************************************************************************)
(* The object CreateMachine submits: built from the template the provider  *)
(* was constructed with, controlled by the ControlPlaneMachineSet.         *)
(***************************************************************************)
newMachine(i, template) ==
    [index |-> i, spec |-> template, phase |-> "Provisioning",
     nodeRef |-> FALSE, deleted |-> FALSE, owner |-> "cpms"]

(***************************************************************************)
(* The Machines after DeleteMachine: the object gets its deletion          *)
(* timestamp; deleting one that is gone is no error.                       *)
(***************************************************************************)
DeleteMachine(ms, n) ==
    IF n \in DOMAIN ms THEN [ms EXCEPT ![n].deleted = TRUE] ELSE ms

=============================================================================
