---------------------------- MODULE MachineInfos ----------------------------
(***************************************************************************)
(* The pure part of the controller: what it reads off a set of             *)
(* machineproviders.MachineInfo before it decides anything                 *)
(* (pkg/controllers/controlplanemachineset/updates.go, the helpers at the  *)
(* end, and machineInfosByIndex of controller.go).                         *)
(*                                                                         *)
(* A Go slice of MachineInfo is a set here: the provider lists Machines    *)
(* from an informer cache, whose order is arbitrary, so "the first found"  *)
(* element of a slice is any element of the set.  A Machine's name is a    *)
(* number that grows with its creation timestamp.                          *)
(***************************************************************************)
EXTENDS Integers, FiniteSets

CONSTANT
    Replicas    \* cpms.Spec.Replicas

(***************************************************************************)
(* The CRD admits 3 and 5; nothing below needs more than a positive        *)
(* number.                                                                 *)
(***************************************************************************)
ASSUME ReplicasAssumption == Replicas \in Nat \ {0}

Owner == {"none", "cpms", "other"}

(***************************************************************************)
(* MachineRef.ObjectMeta is what the controller uses of it: the name, the  *)
(* deletion timestamp and the controller owner reference.                  *)
(***************************************************************************)
MachineInfo ==
    [name : Nat, index : Nat, ready : BOOLEAN, needsUpdate : BOOLEAN,
     deleted : BOOLEAN, failed : BOOLEAN, hasNode : BOOLEAN, owner : Owner]

isDeletedMachine(m) == m.deleted

(***************************************************************************)
(* A bug: Machines that users deleted are not seen as in need of           *)
(* replacement.                                                            *)
(***************************************************************************)
needReplacementOutdatedOnly(ms) == {m \in ms : m.needsUpdate}

needReplacementMachines(ms) ==
    {m \in ms : m.needsUpdate \/ isDeletedMachine(m)}

pendingMachines(ms) ==
    {m \in ms : ~m.ready /\ ~m.needsUpdate /\ ~isDeletedMachine(m)}

updatedMachines(ms) == {m \in ms : m.ready /\ ~m.needsUpdate}

updatedNonDeletedMachines(ms) ==
    {m \in ms : m.ready /\ ~m.needsUpdate /\ ~isDeletedMachine(m)}

readyMachines(ms) == {m \in ms : m.ready}

nonReadyMachines(ms) == {m \in ms : ~m.ready}

(***************************************************************************)
(* sortMachineInfoByCreationTimestamp(ms)[0].                              *)
(***************************************************************************)
oldestMachines(ms) == {m \in ms : \A n \in ms : m.name <= n.name}

ofIndex(ms, i) == {m \in ms : m.index = i}

(***************************************************************************)
(* The keys of the map machineInfosByIndex builds: every index a Machine   *)
(* carries, and, while there are fewer than Replicas of those, the lowest  *)
(* indexes that no Machine carries.                                        *)
(***************************************************************************)
machineInfosByIndex(ms) ==
    LET used  == {m.index : m \in ms}
        fresh == {i \in 0..(Replicas - 1) \ used :
                    Cardinality(used) + Cardinality((0..i) \ used) <= Replicas}
    IN  used \cup fresh

deviseExistingSurge(ms) == Cardinality(ms) - Replicas

=============================================================================
