-------------------------- MODULE MCOperatorStatus --------------------------
(***************************************************************************)
(* An instance of OperatorStatus for TLC: any two of the outside events,   *)
(* the same one twice as well.                                             *)
(***************************************************************************)
EXTENDS OperatorStatus

AnyTwo == [e \in Event |-> 2]

=============================================================================
