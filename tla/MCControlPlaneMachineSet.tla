---------------------- MODULE MCControlPlaneMachineSet ----------------------
(***************************************************************************)
(* Instances of ControlPlaneMachineSet for TLC: a control plane of three.  *)
(***************************************************************************)
EXTENDS CapacityRefinement

(***************************************************************************)
(* Ways a cluster may start.  The template is 2; Machines that run 1 are   *)
(* outdated.                                                               *)
(***************************************************************************)
RollingUpdate    == [template |-> 2, strategy |-> "RollingUpdate", state |-> "Active"]
InactiveOnDelete == [RollingUpdate EXCEPT !.strategy = "OnDelete", !.state = "Inactive"]

startWith(specs) ==
    [n \in 1..3 |-> [index |-> n - 1, spec |-> specs[n], owner |-> "cpms"]]

TwoOutdated == startWith(<<1, 1, 2>>)
OneOutdated == startWith(<<1, 2, 2>>)

(***************************************************************************)
(* Freshly installed: the Machines have no owner, and indexes 1 to 3.      *)
(***************************************************************************)
Unowned ==
    [n \in 1..3 |-> [index |-> n, spec |-> IF n = 1 THEN 1 ELSE 2, owner |-> "none"]]

(***************************************************************************)
(* Disruptions allowed.                                                    *)
(***************************************************************************)
allow(edits, deletes, flaps, errors, aborts) ==
    [edits |-> edits, deletes |-> deletes, flaps |-> flaps, errors |-> errors,
     aborts |-> aborts]

OneAbort        == allow(0, 0, 0, 0, 1)
OneEdit         == allow(1, 0, 0, 0, 0)
EditError       == allow(1, 0, 0, 1, 0)
EditDeleteAbort == allow(1, 1, 0, 0, 1)
DeleteFlapAbort == allow(0, 1, 1, 0, 1)

=============================================================================
