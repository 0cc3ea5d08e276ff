------------------------- MODULE CapacityRefinement -------------------------
(***************************************************************************)
(* The rolling update of ControlPlaneMachineSet keeps the promise of       *)
(* ControlPlaneCapacity.  A Machine leaves from the moment it has its      *)
(* deletion timestamp; users may delete what is left of their bound.       *)
(***************************************************************************)
EXTENDS ControlPlaneMachineSet

planeOf(ms) == [n \in DOMAIN ms |-> [index |-> ms[n].index, leaving |-> ms[n].deleted]]

Capacity ==
    INSTANCE ControlPlaneCapacity WITH
        Indexes <- {StartMachines[n].index : n \in 1..Replicas},
        Surge   <- maxSurge,
        Users   <- Bounds["deletes"],
        plane   <- planeOf(machines),
        users   <- budget["deletes"]

(***************************************************************************)
(* Whatever users delete and Nodes do, replacements are made before        *)
(* Machines break, one at a time, and never more than maxSurge are there   *)
(* too many (reconcileMachineRollingUpdate, with the machine controller    *)
(* and the etcd operator's hook).                                          *)
(***************************************************************************)
ImplementsCapacity == Capacity!Spec

(***************************************************************************)
(* And it comes to that: an index without a Machine that stays gets one,   *)
(* one with two of them gives one up, and Machines that leave are removed. *)
(***************************************************************************)
RestoresCapacity == Capacity!Fairness

=============================================================================
