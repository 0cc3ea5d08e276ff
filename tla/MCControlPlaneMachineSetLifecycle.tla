------------------ MODULE MCControlPlaneMachineSetLifecycle ------------------
(***************************************************************************)
(* An instance of ControlPlaneMachineSetLifecycle for TLC: any three of    *)
(* the outside events, each once.                                          *)
(***************************************************************************)
EXTENDS ControlPlaneMachineSetLifecycle

AnyThree == [e \in Event |-> IF e = "any" THEN 3 ELSE 1]

=============================================================================
