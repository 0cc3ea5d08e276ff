------------------------ MODULE ControlPlaneCapacity ------------------------
(***************************************************************************)
(* What the rolling update promises about a control plane, without saying  *)
(* how: it replaces the Machine of an index by another one, makes before   *)
(* it breaks, and never has more than one Machine too many.  There are no  *)
(* caches, Nodes, reconciles or failures here; a Machine is its index and  *)
(* whether it is on its way out.                                           *)
(***************************************************************************)
EXTENDS Integers, FiniteSets, Functions

CONSTANTS
    Names,       \* names Machines may have
    Indexes,     \* the indexes of the control plane
    Surge,       \* Machines it may have above one for each index
    Users        \* Machines that users may delete

VARIABLES
    plane,       \* by name: index, and leaving or not
    users        \* Machines that users may yet delete

vars == <<plane, users>>

TypeOK ==
    /\ DOMAIN plane \subseteq Names
    /\ plane \in [DOMAIN plane -> [index : Indexes, leaving : BOOLEAN]]
    /\ users \in 0..Users

(***************************************************************************)
(* The Machines of an index that stay.                                     *)
(***************************************************************************)
staying(i) == {n \in DOMAIN plane : plane[n].index = i /\ ~plane[n].leaving}

(***************************************************************************)
(* An index gets a Machine while it has one that stays, at most, and the   *)
(* control plane has no surge.                                             *)
(***************************************************************************)
Create(n, i) ==
    /\ n \notin DOMAIN plane
    /\ Cardinality(staying(i)) <= 1
    /\ Cardinality(DOMAIN plane) < Cardinality(Indexes) + Surge
    /\ plane' = [k \in DOMAIN plane \cup {n} |->
                   IF k = n THEN [index |-> i, leaving |-> FALSE] ELSE plane[k]]
    /\ UNCHANGED users

(***************************************************************************)
(* A Machine is retired once another one of its index stays, though users  *)
(* who delete Machines may take that one away at the same time.            *)
(***************************************************************************)
Retire(n) ==
    /\ n \in DOMAIN plane /\ ~plane[n].leaving
    /\ staying(plane[n].index) # {n} \/ users < Users
    /\ plane' = [plane EXCEPT ![n].leaving = TRUE]
    /\ UNCHANGED users

(***************************************************************************)
(* Users may retire any, with or without a replacement.                    *)
(***************************************************************************)
UserRetires(n) ==
    /\ n \in DOMAIN plane /\ ~plane[n].leaving /\ users > 0
    /\ plane' = [plane EXCEPT ![n].leaving = TRUE]
    /\ users' = users - 1

(***************************************************************************)
(* Even then it is gone only when there are others enough.                 *)
(***************************************************************************)
Remove(n) ==
    /\ n \in DOMAIN plane /\ plane[n].leaving
    /\ Cardinality(DOMAIN plane \ {n}) >= Cardinality(Indexes)
    /\ plane' = Restrict(plane, DOMAIN plane \ {n})
    /\ UNCHANGED users

Init ==
    /\ TypeOK /\ users = Users
    /\ \A n \in DOMAIN plane : ~plane[n].leaving
    /\ \A i \in Indexes : Cardinality(staying(i)) = 1

Next ==
    \E n \in Names : \/ \E i \in Indexes : Create(n, i)
                     \/ Retire(n) \/ UserRetires(n) \/ Remove(n)

Spec == Init /\ [][Next]_vars

(***************************************************************************)
(* An index without a Machine that stays gets one, one with two of them    *)
(* gives one up, and what can be removed is removed.                       *)
(***************************************************************************)
Refill(i) == staying(i) = {} /\ \E n \in Names : Create(n, i)

Narrow(i) == Cardinality(staying(i)) > 1 /\ \E n \in staying(i) : Retire(n)

Fairness ==
    /\ \A i \in Indexes : WF_vars(Refill(i)) /\ WF_vars(Narrow(i))
    /\ \A n \in Names : WF_vars(Remove(n))

=============================================================================
