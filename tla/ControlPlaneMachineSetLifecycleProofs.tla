---------------- MODULE ControlPlaneMachineSetLifecycleProofs ----------------
(***************************************************************************)
(* Proofs about ControlPlaneMachineSetLifecycle, for every number of       *)
(* replicas and Machines, every set of templates and every bound on the    *)
(* outside events.                                                         *)
(***************************************************************************)
EXTENDS ControlPlaneMachineSetLifecycle, FiniteSetTheorems, TLAPS

-----------------------------------------------------------------------------
(***************************************************************************)
(* Lemmas about the operators.                                             *)
(***************************************************************************)

(***************************************************************************)
(* A non-empty set of numbers has a least element: the order on numbers is *)
(* well-founded.                                                           *)
(***************************************************************************)
lessThan == {p \in Nat \X Nat : p[1] < p[2]}

LEMMA LeastElement ==
    ASSUME NEW S, S \subseteq Nat, S # {}
    PROVE  \E x \in S : \A y \in S : x <= y
<1>1. IsWellFoundedOn(lessThan, Nat)
  BY NatLessThanWellFounded DEF OpToRel, lessThan
<1>2. PICK x \in S : \A y \in S : <<y, x>> \notin lessThan
  BY <1>1, WFMin
<1>3. ASSUME NEW y \in S, <<y, x>> \notin lessThan
      PROVE  x <= y
  BY <1>3 DEF lessThan
<1> QED
  BY <1>2, <1>3

(***************************************************************************)
(* The newest Machine is one of the Machines.                              *)
(***************************************************************************)
LEMMA MaxIsElement ==
    ASSUME NEW k \in Nat, NEW S, S \subseteq 1..k, S # {}
    PROVE  Max(S) \in S
<1> DEFINE T == {k - n : n \in S}
<1>1. T \subseteq Nat /\ T # {}
  <2>1. \A n \in S : k - n \in Nat
    OBVIOUS
  <2> QED
    BY <2>1
<1>2. PICK x \in T : \A y \in T : x <= y
  <2> HIDE DEF T
  <2> QED BY <1>1, LeastElement
<1>3. PICK m \in S : x = k - m
  OBVIOUS
<1>4. \A n \in S : m >= n
  BY <1>2, <1>3
<1> QED
  BY <1>4 DEF Max

-----------------------------------------------------------------------------
(***************************************************************************)
(* Types.  That the UIDs users activate have been given out needs the      *)
(* objects that there are, or were read, to carry such a UID, and a        *)
(* reconcile to have read one.                                             *)
(***************************************************************************)
UidGiven(c) == exists(c) => c.uid \in 1..uids

UidsAreGiven ==
    /\ UidGiven(cpms) /\ UidGiven(cpmsCache) /\ UidGiven(copy)
    /\ pc # "idle" => exists(copy)

TypeInv == TypeOK /\ UidsAreGiven

LEMMA NoCPMSTyped == NoCPMS \in CPMS /\ NoCPMS.template \in Templates
  BY LifecycleAssumption DEF NoCPMS, CPMS, UID, State

(***************************************************************************)
(* The Machines keep their types when one of them is patched, added or     *)
(* removed.                                                                *)
(***************************************************************************)
LEMMA PatchTyped ==
    ASSUME TypeOK, NEW n \in DOMAIN machines, NEW u \in UID,
           patchOwner(n, u), UNCHANGED created
    PROVE  isMachines(machines)'
  BY DEF TypeOK, isMachines, patchOwner, Machine

LEMMA AddTyped ==
    ASSUME TypeOK, NEW t \in Templates, NEW u \in UID, addMachine(t, u)
    PROVE  /\ created' \in Names /\ isMachines(machines)'
           /\ UNCHANGED <<machineCache, metadataCache>> =>
                isMachines(machineCache)' /\ isMachines(metadataCache)'
<1>1. created \in Nat /\ created' = created + 1 /\ created' \in Names
  BY LifecycleAssumption DEF TypeOK, Names, addMachine
<1>2. 1..created \subseteq 1..created' /\ created' \in 1..created'
  BY <1>1
<1>3. isMachines(machines)'
  BY <1>1, <1>2 DEF TypeOK, isMachines, addMachine, Machine
<1> QED
  BY <1>1, <1>2, <1>3 DEF TypeOK, isMachines

LEMMA DropTyped ==
    ASSUME TypeOK, NEW n, dropMachine(n)
    PROVE  isMachines(machines)' /\ created' = created
  BY DEF TypeOK, isMachines, dropMachine, Restrict

LEMMA SpendTyped ==
    ASSUME TypeOK, NEW e \in Event, spend(e)
    PROVE  budget' \in [Event -> Nat]
  BY DEF TypeOK, spend, Event

(***************************************************************************)
(* A write gives the object a new version and leaves its UID.              *)
(***************************************************************************)
LEMMA WriteTyped ==
    ASSUME NEW c \in CPMS
    PROVE  written(c) \in CPMS /\ written(c).uid = c.uid
  BY DEF written, CPMS

LEMMA AfterDeleteTyped ==
    ASSUME NEW c \in CPMS
    PROVE  /\ afterDelete(c) \in CPMS
           /\ afterDelete(c) = NoCPMS \/ afterDelete(c).uid = c.uid
<1>1. [c EXCEPT !.deleting = TRUE] \in CPMS /\ [c EXCEPT !.deleting = TRUE].uid = c.uid
  BY DEF CPMS
<1> QED
  BY <1>1, WriteTyped, NoCPMSTyped DEF afterDelete

(***************************************************************************)
(* The generator's spec is an admitted template, since the newest Machine  *)
(* has one.                                                                *)
(***************************************************************************)
LEMMA GeneratedTyped ==
    ASSUME TypeOK, isSupportedControlPlaneMachinesNumber(machineCache)
    PROVE  generateControlPlaneMachineSet(machineCache) \in Templates
<1>1. DOMAIN machineCache \subseteq 1..created /\ created \in Nat
  BY LifecycleAssumption DEF TypeOK, isMachines, Names
<1>2. DOMAIN machineCache # {}
  BY FS_EmptySet DEF isSupportedControlPlaneMachinesNumber
<1>3. Max(DOMAIN machineCache) \in DOMAIN machineCache
  BY <1>1, <1>2, MaxIsElement
<1> QED
  BY <1>3 DEF TypeOK, isMachines, Machine, generateControlPlaneMachineSet

LEMMA CreateTyped ==
    ASSUME TypeInv, NEW t \in Templates, create(t)
    PROVE  /\ cpms' \in CPMS /\ uids' \in Nat /\ uids <= uids'
           /\ UidGiven(cpms)'
<1>1. CASE UNCHANGED cpmsVars
  BY <1>1 DEF TypeInv, TypeOK, UidsAreGiven, UidGiven, cpmsVars, exists
<1>2. CASE cpms' = newCPMS("Inactive", t) /\ uids' = uids + 1
  <2>1. newCPMS("Inactive", t) \in CPMS /\ newCPMS("Inactive", t).uid = uids + 1
    BY DEF TypeInv, TypeOK, newCPMS, CPMS, UID, State
  <2>2. uids \in Nat /\ uids + 1 \in 1..(uids + 1)
    BY DEF TypeInv, TypeOK
  <2> QED
    BY <1>2, <2>1, <2>2 DEF UidGiven, exists
<1> QED
  BY <1>1, <1>2 DEF create

LEMMA ControllerTyped ==
    ASSUME TypeInv, ControllerStep
    PROVE  TypeInv'
<1> USE DEF TypeInv, TypeOK, UidsAreGiven, UidGiven, isMachines, cpmsVars, machVars,
            cacheVars, ctlVars, genVars, history
<1>1. CASE ReconcileDelete
  <2>1. isMachines(listMetadata)
    BY DEF listMetadata
  <2>2. todo' \subseteq Names
    <3>1. created \in 1..MaxMachines /\ MaxMachines \in Nat
      BY LifecycleAssumption DEF Names
    <3>2. 1..created \subseteq Names
      BY <3>1 DEF Names
    <3> QED
      BY <1>1, <2>1, <3>2 DEF ReconcileDelete
  <2> QED
    BY <1>1, <2>1, <2>2 DEF ReconcileDelete, reads
<1>2. CASE RemoveFinalizer
  BY <1>2, NoCPMSTyped DEF RemoveFinalizer, return, exists
<1>3. CASE EnsureFinalizer
  <2> DEFINE new == written([cpmsCache EXCEPT !.finalizer = TRUE])
  <2>1. new \in CPMS /\ new.uid = cpmsCache.uid
    <3>1. /\ [cpmsCache EXCEPT !.finalizer = TRUE] \in CPMS
          /\ [cpmsCache EXCEPT !.finalizer = TRUE].uid = cpmsCache.uid
      BY DEF CPMS
    <3> QED
      BY <3>1, WriteTyped
  <2>2. cpmsCache.uid \in 1..uids /\ exists(new)
    BY <1>3, <2>1 DEF EnsureFinalizer, NoCPMS, exists
  <2>3. \/ cpms' = new /\ copy' = new
        \/ cpms' = cpms /\ copy' = cpmsCache
    BY <1>3 DEF EnsureFinalizer
  <2> HIDE DEF new
  <2> QED
    BY <1>3, <2>1, <2>2, <2>3 DEF EnsureFinalizer, return, exists
<1>4. CASE ReconcileMachines
  <2>1. created \in 1..MaxMachines /\ MaxMachines \in Nat
    BY LifecycleAssumption DEF Names
  <2>2. 1..created \subseteq Names
    BY <2>1 DEF Names
  <2> QED
    BY <1>4, <2>2 DEF ReconcileMachines, reads, return
<1>5. CASE ReconcileMachineUpdates
  <2> USE <1>5 DEF ReconcileMachineUpdates, return
  <2>1. CASE UNCHANGED <<machVars, budget>>
    BY <2>1
  <2>2. ASSUME NEW t \in Templates, spend("machines"), addMachine(t, copy.uid)
        PROVE  TypeInv'
    <3>1. copy.uid \in UID
      BY DEF CPMS
    <3>2. /\ created' \in Names /\ isMachines(machines)'
          /\ isMachines(machineCache)' /\ isMachines(metadataCache)'
      BY <2>2, <3>1, AddTyped
    <3>3. budget' \in [Event -> Nat]
      BY <2>2, SpendTyped DEF Event
    <3> QED
      BY <3>2, <3>3
  <2>3. ASSUME NEW n \in DOMAIN machines, spend("machines"), dropMachine(n)
        PROVE  TypeInv'
    <3>1. isMachines(machines)' /\ created' = created
      BY <2>3, DropTyped
    <3>2. budget' \in [Event -> Nat]
      BY <2>3, SpendTyped DEF Event
    <3> QED
      BY <3>1, <3>2
  <2> QED
    BY <2>1, <2>2, <2>3
<1>6. CASE UpdateStatus
  <2>1. budget' \in [Event -> Nat]
    BY <1>6, SpendTyped DEF UpdateStatus, Event
  <2>2. cpms' \in CPMS /\ (cpms' = cpms \/ cpms'.uid \in 1..uids)
    BY <1>6, WriteTyped DEF UpdateStatus
  <2> QED
    BY <1>6, <2>1, <2>2, NoCPMSTyped DEF UpdateStatus, exists
<1>7. ASSUME NEW n \in todo, RemoveOwnerRef(n)
      PROVE  TypeInv'
  <2>1. budget' \in [Event -> Nat]
    BY <1>7, SpendTyped DEF RemoveOwnerRef, Event
  <2>2. isMachines(machines)'
    BY <1>7, PatchTyped DEF RemoveOwnerRef, UID
  <2> QED
    BY <1>7, <2>1, <2>2 DEF RemoveOwnerRef
<1>8. ASSUME NEW n \in todo, EnsureOwnerReference(n)
      PROVE  TypeInv'
  <2>1. budget' \in [Event -> Nat]
    BY <1>8, SpendTyped DEF EnsureOwnerReference, Event
  <2>2. isMachines(machines)'
    <3>1. copy.uid \in UID
      BY DEF CPMS
    <3> QED
      BY <1>8, <3>1, PatchTyped DEF EnsureOwnerReference
  <2> QED
    BY <1>8, <2>1, <2>2 DEF EnsureOwnerReference, return
<1> QED
  BY <1>1, <1>2, <1>3, <1>4, <1>5, <1>6, <1>7, <1>8 DEF ControllerStep

LEMMA GeneratorTyped ==
    ASSUME TypeInv, GeneratorStep
    PROVE  TypeInv'
<1> USE DEF TypeInv, TypeOK, UidsAreGiven, UidGiven, isMachines, cpmsVars, machVars,
            cacheVars, ctlVars, genVars, history
<1>1. ASSUME NEW t \in Templates, create(t),
             UNCHANGED <<machVars, cacheVars, ctlVars, genSpec, history, budget>>,
             genPC' \in {"idle", "create"}
      PROVE  TypeInv'
  <2>1. /\ cpms' \in CPMS /\ uids' \in Nat /\ uids <= uids'
        /\ UidGiven(cpms)'
    BY <1>1, CreateTyped
  <2>2. 1..uids \subseteq 1..uids'
    BY <2>1
  <2> QED
    BY <1>1, <2>1, <2>2 DEF exists
<1>2. CASE EnsureControlPlaneMachineSet
  <2>1. generateControlPlaneMachineSet(machineCache) \in Templates
    BY <1>2, GeneratedTyped DEF EnsureControlPlaneMachineSet, generates
  <2> QED
    BY <1>1, <1>2, <2>1 DEF EnsureControlPlaneMachineSet
<1>3. CASE RecreateDelete
  <2>1. generateControlPlaneMachineSet(machineCache) \in Templates
    BY <1>3, GeneratedTyped DEF RecreateDelete, generates
  <2>2. /\ cpms' \in CPMS /\ genPC' \in {"idle", "create"} /\ genSpec' \in Templates
        /\ cpms' \in {cpms, NoCPMS} \/ cpms'.uid \in 1..uids
    BY <1>3, <2>1, AfterDeleteTyped DEF RecreateDelete, deletePrecondition
  <2> QED
    BY <1>3, <2>2 DEF RecreateDelete, exists
<1>4. CASE RecreateCreate
  BY <1>1, <1>4 DEF RecreateCreate
<1> QED
  BY <1>2, <1>3, <1>4 DEF GeneratorStep

LEMMA UserTyped ==
    ASSUME TypeInv, UserStep
    PROVE  TypeInv'
<1> USE DEF TypeInv, TypeOK, UidsAreGiven, UidGiven, isMachines, cpmsVars, machVars,
            cacheVars, ctlVars, genVars, history
<1>1. ASSUME NEW new \in CPMS, new.uid = cpms.uid, UserUpdates(new),
             budget' \in [Event -> Nat], activated' \subseteq 1..uids
      PROVE  TypeInv'
  <2>1. cpms' \in CPMS /\ cpms'.uid \in 1..uids
    BY <1>1, WriteTyped DEF UserUpdates
  <2> QED
    BY <1>1, <2>1 DEF UserUpdates, exists
<1>2. CASE UserActivates
  <2> DEFINE new == [cpms EXCEPT !.state = "Active"]
  <2>1. new \in CPMS /\ new.uid = cpms.uid
    BY DEF CPMS, State
  <2>2. UserUpdates(new) /\ cpms.uid \in 1..uids
    BY <1>2 DEF UserActivates, UserUpdates
  <2>3. budget' \in [Event -> Nat]
    BY <1>2, SpendTyped DEF UserActivates, Event
  <2>4. activated' \subseteq 1..uids
    BY <1>2, <2>2 DEF UserActivates
  <2> HIDE DEF new
  <2> QED
    BY <1>1, <2>1, <2>2, <2>3, <2>4
<1>3. ASSUME NEW t \in Templates, UserEdits(t)
      PROVE  TypeInv'
  <2> DEFINE new == [cpms EXCEPT !.template = t]
  <2>1. new \in CPMS /\ new.uid = cpms.uid
    BY DEF CPMS
  <2>2. UserUpdates(new) /\ activated' = activated
    BY <1>3 DEF UserEdits
  <2>3. budget' \in [Event -> Nat]
    BY <1>3, SpendTyped DEF UserEdits, Event
  <2> HIDE DEF new
  <2> QED
    BY <1>1, <2>1, <2>2, <2>3
<1>4. CASE UserDeletes
  <2>1. cpms' \in CPMS /\ (cpms' = NoCPMS \/ cpms'.uid \in 1..uids) /\ cpms.uid \in 1..uids
    BY <1>4, AfterDeleteTyped DEF UserDeletes
  <2>2. budget' \in [Event -> Nat]
    BY <1>4, SpendTyped DEF UserDeletes, Event
  <2> QED
    BY <1>4, <2>1, <2>2 DEF UserDeletes, exists
<1>5. ASSUME NEW t \in Templates, UserCreates(t)
      PROVE  TypeInv'
  <2>1. newCPMS("Active", t) \in CPMS /\ newCPMS("Active", t).uid = uids + 1
    BY DEF newCPMS, CPMS, UID, State
  <2>2. uids' = uids + 1 /\ uids' \in Nat /\ uids' \in 1..uids' /\ 1..uids \subseteq 1..uids'
    BY <1>5 DEF UserCreates
  <2>3. budget' \in [Event -> Nat]
    BY <1>5, SpendTyped DEF UserCreates, Event
  <2>4. cpms' = newCPMS("Active", t)
    BY <1>5 DEF UserCreates
  <2> QED
    BY <1>5, <2>1, <2>2, <2>3, <2>4 DEF UserCreates, exists
<1>6. ASSUME NEW t \in Templates, UserAddsMachine(t)
      PROVE  TypeInv'
  <2>1. /\ created' \in Names /\ isMachines(machines)'
        /\ isMachines(machineCache)' /\ isMachines(metadataCache)'
    BY <1>6, AddTyped DEF UserAddsMachine, UID
  <2>2. budget' \in [Event -> Nat]
    BY <1>6, SpendTyped DEF UserAddsMachine, Event
  <2> QED
    BY <1>6, <2>1, <2>2 DEF UserAddsMachine
<1>7. ASSUME NEW n \in Names, UserRemovesMachine(n)
      PROVE  TypeInv'
  <2>1. isMachines(machines)' /\ created' = created
    BY <1>7, DropTyped DEF UserRemovesMachine
  <2>2. budget' \in [Event -> Nat]
    BY <1>7, SpendTyped DEF UserRemovesMachine, Event
  <2> QED
    BY <1>7, <2>1, <2>2 DEF UserRemovesMachine
<1> QED
  BY <1>2, <1>3, <1>4, <1>5, <1>6, <1>7 DEF UserStep

LEMMA NextTyped == TypeInv /\ [Next]_vars => TypeInv'
<1> SUFFICES ASSUME TypeInv, [Next]_vars
             PROVE  TypeInv'
  OBVIOUS
<1> USE DEF TypeInv, TypeOK, UidsAreGiven, UidGiven, isMachines, cpmsVars, machVars,
            cacheVars, ctlVars, genVars, history
<1>1. CASE Restart
  <2>1. budget' \in [Event -> Nat]
    BY <1>1, SpendTyped DEF Restart, Event
  <2>2. isMachines(metadataCache)'
    BY <1>1 DEF Restart
  <2> QED
    BY <1>1, <2>1, <2>2, NoCPMSTyped DEF Restart, exists
<1>2. CASE SyncCPMS
  BY <1>2 DEF SyncCPMS
<1>3. CASE SyncMachines
  BY <1>3 DEF SyncMachines
<1>4. CASE SyncMetadata
  BY <1>4 DEF SyncMetadata
<1>5. CASE UNCHANGED vars
  BY <1>5 DEF vars
<1> QED
  BY <1>1, <1>2, <1>3, <1>4, <1>5, ControllerTyped, GeneratorTyped, UserTyped DEF Next

LEMMA InitTyped == Init => TypeInv
<1> SUFFICES ASSUME Init
             PROVE  TypeInv
  OBVIOUS
<1> USE LifecycleAssumption DEF Init
<1>1. cpms \in CPMS /\ (cpms = NoCPMS \/ cpms.uid = 1)
  <2>1. CASE cpms \in upgraded
    <3>1. PICK s \in State, t \in Rejected :
            cpms = [uid |-> 1, rv |-> 1, state |-> s, template |-> t,
                    finalizer |-> TRUE, deleting |-> FALSE]
      BY <2>1 DEF upgraded
    <3> QED
      BY <3>1 DEF CPMS, UID
  <2> QED
    BY <2>1, NoCPMSTyped
<1>2. uids \in Nat /\ (exists(cpms) => 1 \in 1..uids /\ cpms.uid \in 1..uids)
  BY <1>1 DEF NoCPMS, exists
<1>3. isMachines(machines) /\ isMachines(machineCache) /\ isMachines(metadataCache)
  BY NoCPMSTyped DEF isMachines, Machine, UID
<1>4. isActive(cpms) => exists(cpms)
  BY DEF isActive, exists, NoCPMS
<1>5. created \in Names /\ todo \subseteq Names
  BY DEF Names
<1>6. activated \subseteq 1..uids /\ userDeleted \subseteq 1..uids
  BY <1>2, <1>4
<1>7. TypeOK
  BY <1>1, <1>2, <1>3, <1>5, <1>6, NoCPMSTyped DEF TypeOK
<1>8. UidsAreGiven
  BY <1>2 DEF UidsAreGiven, UidGiven, exists
<1> QED
  BY <1>7, <1>8 DEF TypeInv

(***************************************************************************)
(* Every variable keeps its type: whatever the users, the controllers and  *)
(* the informers do, the generator always finds a newest Machine to take   *)
(* the spec from, and no ControlPlaneMachineSet has a UID that was not     *)
(* given out.                                                              *)
(***************************************************************************)
THEOREM TypeCorrect == Spec => []TypeOK
<1>1. TypeInv => TypeOK
  BY DEF TypeInv
<1> QED
  BY <1>1, InitTyped, NextTyped, PTL DEF Spec

-----------------------------------------------------------------------------
(***************************************************************************)
(* Activation.  The object is Active exactly when users activated it; so   *)
(* were the copies that are Active; only for such a copy does a reconcile  *)
(* touch Machines; and only a copy of a deleted object has its finalizer   *)
(* removed.                                                                *)
(***************************************************************************)
ActiveIsActivated ==
    /\ isActive(cpms) <=> cpms.uid \in activated
    /\ isActive(cpmsCache) => cpmsCache.uid \in activated
    /\ isActive(copy) => copy.uid \in activated

ReconcileMatchesCopy ==
    /\ pc \in {"adopt", "update"} => isActive(copy) /\ copy.finalizer /\ ~copy.deleting
    /\ pc \in {"disown", "finalize"} => copy.deleting

ActivationInv ==
    /\ ActiveIsActivated /\ ReconcileMatchesCopy
    /\ OwnedOnceActivated /\ ActivatedIsNotRegenerated

(***************************************************************************)
(* What the API server's operations do to the fields of the object and to  *)
(* the Machines' owner references.                                         *)
(***************************************************************************)
LEMMA NoCPMSFields ==
    /\ NoCPMS.uid = 0 /\ ~isActive(NoCPMS) /\ NoCPMS.finalizer = FALSE
    /\ NoCPMS.deleting = FALSE
  BY DEF NoCPMS, isActive

LEMMA WriteFields ==
    ASSUME NEW c \in CPMS
    PROVE  /\ written(c).uid = c.uid /\ written(c).state = c.state
           /\ written(c).finalizer = c.finalizer /\ written(c).deleting = c.deleting
  BY DEF written, CPMS

LEMMA AfterDeleteFields ==
    ASSUME NEW c \in CPMS
    PROVE  \/ ~c.finalizer /\ afterDelete(c) = NoCPMS
           \/ /\ c.finalizer /\ afterDelete(c).uid = c.uid
              /\ afterDelete(c).state = c.state
              /\ afterDelete(c).finalizer /\ afterDelete(c).deleting
<1>1. [c EXCEPT !.deleting = TRUE] \in CPMS
  BY DEF CPMS
<1>2. CASE ~c.finalizer
  BY <1>2 DEF afterDelete
<1>3. CASE c.finalizer /\ c.deleting
  BY <1>3 DEF afterDelete
<1>4. CASE c.finalizer /\ ~c.deleting
  BY <1>1, <1>4, WriteFields DEF afterDelete, CPMS
<1> QED
  BY <1>2, <1>3, <1>4

LEMMA CreateFields ==
    ASSUME NEW t, create(t)
    PROVE  \/ UNCHANGED <<cpms, uids>>
           \/ /\ cpms = NoCPMS /\ uids' = uids + 1
              /\ cpms'.uid = uids + 1 /\ ~isActive(cpms')
              /\ ~cpms'.finalizer /\ ~cpms'.deleting
  BY DEF create, cpmsVars, newCPMS, isActive, exists

LEMMA PatchOwners ==
    ASSUME TypeOK, NEW n \in DOMAIN machines, NEW u, patchOwner(n, u)
    PROVE  /\ DOMAIN machines' = DOMAIN machines /\ machines'[n].owner = u
           /\ \A k \in DOMAIN machines \ {n} : machines'[k] = machines[k]
  BY DEF TypeOK, isMachines, patchOwner, Machine

LEMMA AddOwners ==
    ASSUME TypeOK, NEW t, NEW u, addMachine(t, u)
    PROVE  \A k \in DOMAIN machines' :
             \/ machines'[k].owner = u
             \/ k \in DOMAIN machines /\ machines'[k] = machines[k]
<1>1. /\ DOMAIN machines' = DOMAIN machines \cup {created'}
      /\ machines'[created'] = [spec |-> t, owner |-> u]
      /\ \A k \in DOMAIN machines : k # created' => machines'[k] = machines[k]
  BY DEF addMachine
<1> QED
  BY <1>1

LEMMA DropOwners ==
    ASSUME NEW n, dropMachine(n)
    PROVE  \A k \in DOMAIN machines' : k \in DOMAIN machines /\ machines'[k] = machines[k]
  BY DEF dropMachine, Restrict

LEMMA ActivationInit == Init => ActivationInv
<1> SUFFICES ASSUME Init
             PROVE  ActivationInv
  OBVIOUS
<1>1. cpms \in upgraded => cpms.uid = 1 /\ cpms.deleting = FALSE
  BY DEF upgraded
<1> QED
  BY <1>1, NoCPMSFields
  DEF Init, ActivationInv, ActiveIsActivated, ReconcileMatchesCopy, OwnedOnceActivated,
      ActivatedIsNotRegenerated

LEMMA ActivationNext == TypeInv /\ ActivationInv /\ [Next]_vars => ActivationInv'
<1> SUFFICES ASSUME TypeInv, ActivationInv, [Next]_vars
             PROVE  ActivationInv'
  OBVIOUS
<1> USE DEF ActivationInv, ActiveIsActivated, ReconcileMatchesCopy, OwnedOnceActivated,
            ActivatedIsNotRegenerated, cpmsVars, machVars, cacheVars, ctlVars, genVars,
            history
<1>0. /\ TypeOK /\ cpms \in CPMS /\ cpmsCache \in CPMS /\ copy \in CPMS
      /\ uids \in Nat /\ activated \subseteq 1..uids
      /\ (exists(cpms) => cpms.uid \in 1..uids)
      /\ (exists(cpmsCache) => cpmsCache.uid \in 1..uids)
  BY DEF TypeInv, TypeOK, UidsAreGiven, UidGiven
<1>1. CASE ReconcileDelete
  BY <1>1 DEF ReconcileDelete, reads
<1>2. CASE RemoveFinalizer
  BY <1>0, <1>2, NoCPMSFields DEF RemoveFinalizer, return
<1>3. CASE EnsureFinalizer
  <2> DEFINE new == written([cpmsCache EXCEPT !.finalizer = TRUE])
  <2>1. [cpmsCache EXCEPT !.finalizer = TRUE] \in CPMS
    BY <1>0 DEF CPMS
  <2>2. new.uid = cpmsCache.uid /\ new.state = cpmsCache.state
        /\ new.deleting = cpmsCache.deleting
    BY <1>0, <2>1, WriteFields DEF CPMS
  <2>3. \/ cpms = cpmsCache /\ cpms' = new /\ copy' = new
        \/ cpms' = cpms /\ copy' = cpmsCache
    BY <1>3 DEF EnsureFinalizer
  <2> HIDE DEF new
  <2> QED
    BY <1>3, <2>2, <2>3 DEF EnsureFinalizer, return, isActive
<1>4. CASE ReconcileMachines
  BY <1>4 DEF ReconcileMachines, reads, return, processesMachines, lacksFinalizer
<1>5. CASE ReconcileMachineUpdates
  <2>1. OwnedOnceActivated'
    BY <1>0, <1>5, AddOwners, DropOwners DEF ReconcileMachineUpdates
  <2> QED
    BY <1>5, <2>1 DEF ReconcileMachineUpdates, return
<1>6. CASE UpdateStatus
  <2>1. cpms' = cpms \/ cpms' = written(cpms)
    BY <1>6 DEF UpdateStatus
  <2> QED
    BY <1>0, <1>6, <2>1, WriteFields, NoCPMSFields DEF UpdateStatus, isActive
<1>7. ASSUME NEW n \in todo, RemoveOwnerRef(n)
      PROVE  ActivationInv'
  <2>1. OwnedOnceActivated'
    BY <1>0, <1>7, PatchOwners DEF RemoveOwnerRef
  <2> QED
    BY <1>7, <2>1 DEF RemoveOwnerRef
<1>8. ASSUME NEW n \in todo, EnsureOwnerReference(n)
      PROVE  ActivationInv'
  <2>1. OwnedOnceActivated'
    BY <1>0, <1>8, PatchOwners DEF EnsureOwnerReference
  <2> QED
    BY <1>8, <2>1 DEF EnsureOwnerReference, return
<1>9. ASSUME NEW t \in Templates, create(t),
             UNCHANGED <<machVars, cacheVars, ctlVars, history>>
      PROVE  ActivationInv'
  BY <1>0, <1>9, CreateFields, NoCPMSFields
<1>10. CASE EnsureControlPlaneMachineSet
  <2>1. generateControlPlaneMachineSet(machineCache) \in Templates
    BY <1>0, <1>10, GeneratedTyped DEF EnsureControlPlaneMachineSet, generates
  <2> QED
    BY <1>9, <1>10, <2>1 DEF EnsureControlPlaneMachineSet
<1>11. CASE RecreateDelete
  <2>1. cpms' = cpms \/ (~isActive(cpms) /\ cpms' = afterDelete(cpms))
    BY <1>11 DEF RecreateDelete, generates, deletePrecondition
  <2> QED
    BY <1>0, <1>11, <2>1, AfterDeleteFields, NoCPMSFields DEF RecreateDelete, isActive
<1>12. CASE RecreateCreate
  <2>1. genSpec \in Templates
    BY <1>0 DEF TypeOK
  <2> QED
    BY <1>9, <1>12, <2>1 DEF RecreateCreate
<1>13. CASE UserActivates
  <2> DEFINE new == [cpms EXCEPT !.state = "Active"]
  <2>1. new \in CPMS /\ new.uid = cpms.uid /\ isActive(new) /\ new.deleting = cpms.deleting
    BY <1>0 DEF CPMS, State, isActive
  <2>2. ~cpms.deleting /\ cpms' = written(new)
    BY <1>13, <2>1 DEF UserActivates, UserUpdates, ValidateUpdate
  <2> HIDE DEF new
  <2>3. cpms'.uid = cpms.uid /\ isActive(cpms)' /\ ~cpms'.deleting
    BY <2>1, <2>2, WriteFields DEF isActive
  <2> QED
    BY <1>0, <1>13, <2>3 DEF UserActivates, UserUpdates
<1>14. ASSUME NEW t \in Templates, UserEdits(t)
       PROVE  ActivationInv'
  <2> DEFINE new == [cpms EXCEPT !.template = t]
  <2>1. new \in CPMS /\ new.uid = cpms.uid /\ new.state = cpms.state
        /\ new.deleting = cpms.deleting
    BY <1>0 DEF CPMS
  <2>2. cpms' = written(new)
    BY <1>14 DEF UserEdits, UserUpdates
  <2> HIDE DEF new
  <2>3. cpms'.uid = cpms.uid /\ cpms'.state = cpms.state /\ cpms'.deleting = cpms.deleting
    BY <2>1, <2>2, WriteFields
  <2> QED
    BY <1>14, <2>3 DEF UserEdits, UserUpdates, isActive
<1>15. CASE UserDeletes
  BY <1>0, <1>15, AfterDeleteFields, NoCPMSFields DEF UserDeletes, isActive
<1>16. ASSUME NEW t \in Templates, UserCreates(t)
       PROVE  ActivationInv'
  <2>1. /\ cpms = NoCPMS /\ cpms'.uid = uids + 1 /\ isActive(cpms') /\ ~cpms'.deleting
        /\ activated' = activated \cup {uids + 1}
    BY <1>16 DEF UserCreates, exists, newCPMS, isActive
  <2> QED
    BY <1>0, <1>16, <2>1, NoCPMSFields DEF UserCreates
<1>17. ASSUME NEW t \in Templates, UserAddsMachine(t)
       PROVE  ActivationInv'
  BY <1>0, <1>17, AddOwners DEF UserAddsMachine
<1>18. ASSUME NEW n \in Names, UserRemovesMachine(n)
       PROVE  ActivationInv'
  BY <1>0, <1>18, DropOwners DEF UserRemovesMachine
<1>19. CASE Restart
  BY <1>19, NoCPMSFields DEF Restart
<1>20. CASE SyncCPMS
  BY <1>20 DEF SyncCPMS
<1>21. CASE SyncMachines \/ SyncMetadata \/ UNCHANGED vars
  BY <1>21 DEF SyncMachines, SyncMetadata, vars
<1> QED
  BY <1>1, <1>2, <1>3, <1>4, <1>5, <1>6, <1>7, <1>8, <1>10, <1>11, <1>12, <1>13, <1>14,
     <1>15, <1>16, <1>17, <1>18, <1>19, <1>20, <1>21
  DEF Next, ControllerStep, GeneratorStep, UserStep

(***************************************************************************)
(* Owner references come from ControlPlaneMachineSets that users           *)
(* activated, however stale the copy is that a reconcile works on          *)
(* (reconcileMachines looks at the state of that copy).                    *)
(***************************************************************************)
THEOREM OwnersAreActivated == Spec => []OwnedOnceActivated
<1>1. ActivationInv => OwnedOnceActivated
  BY DEF ActivationInv
<1> QED
  BY <1>1, InitTyped, NextTyped, ActivationInit, ActivationNext, PTL DEF Spec

(***************************************************************************)
(* What users activated only users delete: the generator deletes with the  *)
(* version it read as a precondition, that version is Inactive, and an     *)
(* object that is being deleted cannot be activated any more               *)
(* (recreateControlPlaneMachineSet, ValidateUpdate).                       *)
(***************************************************************************)
THEOREM GeneratorSparesActivated == Spec => []ActivatedIsNotRegenerated
<1>1. ActivationInv => ActivatedIsNotRegenerated
  BY DEF ActivationInv
<1> QED
  BY <1>1, InitTyped, NextTyped, ActivationInit, ActivationNext, PTL DEF Spec

-----------------------------------------------------------------------------
(***************************************************************************)
(* Ownership.  A copy is of the object, or of an earlier version of it, or *)
(* of one that is gone: finalizer and deletion timestamp, once there, stay *)
(* for as long as the object does.                                         *)
(***************************************************************************)
OlderVersion(c) ==
    c.uid = cpms.uid => /\ c.finalizer => cpms.finalizer
                        /\ c.deleting => cpms.deleting

(***************************************************************************)
(* A cached copy with a finalizer and without a deletion timestamp is of   *)
(* the object that exists: it cannot go before the cache has shown its     *)
(* deletion to the controller.                                             *)
(***************************************************************************)
CachedIsLive ==
    cpmsCache.finalizer /\ ~cpmsCache.deleting => cpmsCache.uid = cpms.uid

(***************************************************************************)
(* While a reconcile adopts or creates Machines its object stays, and      *)
(* while it disowns them the cache knows of the deletion.                  *)
(***************************************************************************)
AdoptsForLive == pc \in {"adopt", "update"} => copy.uid = cpms.uid

DeletionIsCached ==
    pc \in {"disown", "finalize"} /\ cpmsCache.uid = copy.uid => cpmsCache.deleting

(***************************************************************************)
(* While no patch of reconcileDelete failed, the Machines still to patch   *)
(* are all that the object owns.                                           *)
(***************************************************************************)
DisownsAll ==
    /\ pc \in {"disown", "finalize"} /\ ~failed /\ copy.uid = cpms.uid =>
         \A n \in DOMAIN machines \ todo : machines[n].owner = 0
    /\ pc = "finalize" => todo = {}

OwnershipInv ==
    /\ OlderVersion(cpmsCache) /\ OlderVersion(copy)
    /\ CachedIsLive /\ AdoptsForLive /\ DeletionIsCached /\ DisownsAll
    /\ OwnersAreProtected

LEMMA OwnershipInit == Init => OwnershipInv
<1> SUFFICES ASSUME Init
             PROVE  OwnershipInv
  OBVIOUS
<1>1. cpms \in upgraded => cpms.uid = 1 /\ cpms.finalizer
  BY DEF upgraded
<1>2. OwnersAreProtected
  BY <1>1, NoCPMSFields DEF Init, OwnersAreProtected
<1> QED
  BY <1>1, <1>2, NoCPMSFields
  DEF Init, OwnershipInv, OlderVersion, CachedIsLive, AdoptsForLive, DeletionIsCached,
      DisownsAll

LEMMA OwnershipNext ==
    ASSUME FreshMetadata
    PROVE  TypeInv /\ ActivationInv /\ OwnershipInv /\ [Next]_vars => OwnershipInv'
<1> SUFFICES ASSUME TypeInv, ActivationInv, OwnershipInv, [Next]_vars
             PROVE  OwnershipInv'
  OBVIOUS
<1> USE DEF OwnershipInv, OlderVersion, CachedIsLive, AdoptsForLive, DeletionIsCached,
            DisownsAll, OwnersAreProtected, cpmsVars, machVars, cacheVars, ctlVars,
            genVars, history
<1>0. /\ TypeOK /\ cpms \in CPMS /\ cpmsCache \in CPMS /\ copy \in CPMS
      /\ uids \in Nat /\ cpms.uid \in 0..uids /\ cpmsCache.uid \in 0..uids
      /\ copy.uid \in 0..uids
      /\ (cpms.uid = 0 => cpms = NoCPMS) /\ (cpmsCache.uid = 0 => cpmsCache = NoCPMS)
      /\ (copy.uid = 0 => copy = NoCPMS) /\ (pc # "idle" => exists(copy))
  BY NoCPMSFields DEF TypeInv, TypeOK, UidsAreGiven, UidGiven, exists
<1>m. /\ pc \in {"adopt", "update"} => copy.finalizer /\ cpms.finalizer
      /\ pc \in {"disown", "finalize"} => copy.deleting
  BY DEF ActivationInv, ReconcileMatchesCopy
<1>1. CASE ReconcileDelete
  <2>1. /\ copy' = cpmsCache /\ cpmsCache.deleting /\ pc' \in {"disown", "finalize"}
        /\ todo' = {n \in DOMAIN machines : machines[n].owner = cpmsCache.uid}
        /\ UNCHANGED <<cpms, machines, cpmsCache, failed>>
        /\ pc' = "finalize" => todo' = {}
    BY <1>1 DEF ReconcileDelete, reads, hasOwnerRef
  <2>2. cpmsCache.uid = cpms.uid => \A n \in DOMAIN machines \ todo' : machines[n].owner = 0
    BY <2>1
  <2> QED
    BY <2>1, <2>2
<1>2. CASE RemoveFinalizer
  <2>1. CASE cpms' = cpms
    BY <1>2, <2>1 DEF RemoveFinalizer, return
  <2>2. CASE cpms' = NoCPMS /\ ~failed /\ copy = cpms
    <3>1. \A n \in DOMAIN machines : machines[n].owner = 0
      BY <1>2, <2>2 DEF RemoveFinalizer
    <3>2. cpmsCache.uid = cpms.uid => cpmsCache.deleting
      BY <1>2, <2>2 DEF RemoveFinalizer
    <3>3. UNCHANGED <<machines, cpmsCache, copy>> /\ pc' = "status" /\ exists(copy)
      BY <1>0, <1>2 DEF RemoveFinalizer, return
    <3> QED
      BY <1>0, <2>2, <3>1, <3>2, <3>3, NoCPMSFields
  <2> QED
    BY <1>2, <2>1, <2>2 DEF RemoveFinalizer, mayRemoveFinalizer
<1>3. CASE EnsureFinalizer
  <2> DEFINE new == written([cpmsCache EXCEPT !.finalizer = TRUE])
  <2>1. [cpmsCache EXCEPT !.finalizer = TRUE] \in CPMS
    BY <1>0 DEF CPMS
  <2>2. new.uid = cpmsCache.uid /\ new.finalizer /\ new.deleting = cpmsCache.deleting
    BY <1>0, <2>1, WriteFields DEF CPMS
  <2>3. \/ cpms = cpmsCache /\ cpms' = new /\ copy' = new
        \/ cpms' = cpms /\ copy' = cpmsCache
    BY <1>3 DEF EnsureFinalizer
  <2> HIDE DEF new
  <2> QED
    BY <1>3, <2>2, <2>3 DEF EnsureFinalizer, return
<1>4. CASE ReconcileMachines
  BY <1>4 DEF ReconcileMachines, reads, return, lacksFinalizer
<1>5. CASE ReconcileMachineUpdates
  <2>1. OwnersAreProtected'
    BY <1>0, <1>m, <1>5, AddOwners, DropOwners DEF ReconcileMachineUpdates
  <2> QED
    BY <1>5, <2>1 DEF ReconcileMachineUpdates, return
<1>6. CASE UpdateStatus
  <2>1. cpms' = cpms \/ cpms' = written(cpms)
    BY <1>6 DEF UpdateStatus
  <2>2. cpms'.uid = cpms.uid /\ cpms'.finalizer = cpms.finalizer
        /\ cpms'.deleting = cpms.deleting
    BY <1>0, <2>1, WriteFields
  <2> QED
    BY <1>6, <2>2, NoCPMSFields DEF UpdateStatus
<1>7. ASSUME NEW n \in todo, RemoveOwnerRef(n)
      PROVE  OwnershipInv'
  <2>1. \/ n \in DOMAIN machines /\ patchOwner(n, 0)
        \/ UNCHANGED machines /\ failed'
    BY <1>7 DEF RemoveOwnerRef
  <2>2. /\ \A k \in DOMAIN machines' : k \in DOMAIN machines /\ machines'[k].owner \in {0, machines[k].owner}
        /\ ~failed' => ~failed /\ n \in DOMAIN machines /\ machines'[n].owner = 0
    BY <1>0, <1>7, <2>1, PatchOwners DEF RemoveOwnerRef
  <2> QED
    BY <1>7, <2>2 DEF RemoveOwnerRef
<1>8. ASSUME NEW n \in todo, EnsureOwnerReference(n)
      PROVE  OwnershipInv'
  <2>1. OwnersAreProtected'
    BY <1>0, <1>m, <1>8, PatchOwners DEF EnsureOwnerReference
  <2> QED
    BY <1>8, <2>1 DEF EnsureOwnerReference, return
<1>9. ASSUME NEW t, create(t), UNCHANGED <<machVars, cacheVars, ctlVars>>
      PROVE  OwnershipInv'
  <2>1. CASE UNCHANGED <<cpms, uids>>
    BY <1>9, <2>1
  <2>2. CASE /\ cpms = NoCPMS /\ cpms'.uid = uids + 1
             /\ ~cpms'.finalizer /\ ~cpms'.deleting
    <3>1. \A n \in DOMAIN machines : machines[n].owner = 0
      BY <2>2, NoCPMSFields
    <3>2. cpms'.uid # cpmsCache.uid /\ cpms'.uid # copy.uid
      BY <1>0, <2>2
    <3>3. ~(cpmsCache.finalizer /\ ~cpmsCache.deleting) /\ pc \notin {"adopt", "update"}
      BY <1>0, <2>2, NoCPMSFields DEF exists
    <3> QED
      BY <1>9, <3>1, <3>2, <3>3
  <2> QED
    BY <1>9, <2>1, <2>2, CreateFields
<1>10. ASSUME cpms' = afterDelete(cpms), UNCHANGED <<machVars, cacheVars, ctlVars>>
       PROVE  OwnershipInv'
  <2>1. CASE ~cpms.finalizer /\ cpms' = NoCPMS
    <3>1. \A n \in DOMAIN machines : machines[n].owner = 0
      BY <2>1
    <3>2. ~(cpmsCache.finalizer /\ ~cpmsCache.deleting) /\ pc \notin {"adopt", "update"}
      BY <1>m, <2>1
    <3> QED
      BY <1>0, <1>10, <2>1, <3>1, <3>2, NoCPMSFields DEF exists
  <2>2. CASE cpms.finalizer /\ cpms'.uid = cpms.uid /\ cpms'.finalizer /\ cpms'.deleting
    BY <1>10, <2>2
  <2> QED
    BY <1>0, <1>10, <2>1, <2>2, AfterDeleteFields
<1>11. ASSUME NEW new \in CPMS, new.uid = cpms.uid, new.finalizer = cpms.finalizer,
              new.deleting = cpms.deleting, UserUpdates(new)
       PROVE  OwnershipInv'
  <2>1. cpms'.uid = cpms.uid /\ cpms'.finalizer = cpms.finalizer
        /\ cpms'.deleting = cpms.deleting
    BY <1>11, WriteFields DEF UserUpdates
  <2> QED
    BY <1>11, <2>1 DEF UserUpdates
<1>12. CASE EnsureControlPlaneMachineSet
  BY <1>9, <1>12 DEF EnsureControlPlaneMachineSet
<1>13. CASE RecreateDelete
  <2>1. cpms' = cpms \/ cpms' = afterDelete(cpms)
    BY <1>13 DEF RecreateDelete
  <2> QED
    BY <1>10, <1>13, <2>1 DEF RecreateDelete
<1>14. CASE RecreateCreate
  BY <1>9, <1>14 DEF RecreateCreate
<1>15. CASE UserActivates
  <2> DEFINE new == [cpms EXCEPT !.state = "Active"]
  <2>1. /\ new \in CPMS /\ new.uid = cpms.uid /\ new.finalizer = cpms.finalizer
        /\ new.deleting = cpms.deleting
    BY <1>0 DEF CPMS, State
  <2>2. UserUpdates(new)
    BY <1>15 DEF UserActivates
  <2> HIDE DEF new
  <2> QED
    BY <1>11, <2>1, <2>2
<1>16. ASSUME NEW t \in Templates, UserEdits(t)
       PROVE  OwnershipInv'
  <2> DEFINE new == [cpms EXCEPT !.template = t]
  <2>1. /\ new \in CPMS /\ new.uid = cpms.uid /\ new.finalizer = cpms.finalizer
        /\ new.deleting = cpms.deleting
    BY <1>0 DEF CPMS
  <2>2. UserUpdates(new)
    BY <1>16 DEF UserEdits
  <2> HIDE DEF new
  <2> QED
    BY <1>11, <2>1, <2>2
<1>17. CASE UserDeletes
  BY <1>10, <1>17 DEF UserDeletes
<1>18. ASSUME NEW t \in Templates, UserCreates(t)
       PROVE  OwnershipInv'
  <2>1. /\ cpms = NoCPMS /\ cpms'.uid = uids + 1 /\ ~cpms'.finalizer /\ ~cpms'.deleting
    BY <1>18 DEF UserCreates, exists, newCPMS
  <2>2. \A n \in DOMAIN machines : machines[n].owner = 0
    BY <2>1, NoCPMSFields
  <2>3. cpms'.uid # cpmsCache.uid /\ cpms'.uid # copy.uid
    BY <1>0, <2>1
  <2>4. ~(cpmsCache.finalizer /\ ~cpmsCache.deleting) /\ pc \notin {"adopt", "update"}
    BY <1>0, <2>1, NoCPMSFields DEF exists
  <2> QED
    BY <1>18, <2>2, <2>3, <2>4 DEF UserCreates
<1>19. ASSUME NEW t \in Templates, UserAddsMachine(t)
       PROVE  OwnershipInv'
  BY <1>0, <1>19, AddOwners DEF UserAddsMachine
<1>20. ASSUME NEW n \in Names, UserRemovesMachine(n)
       PROVE  OwnershipInv'
  BY <1>0, <1>20, DropOwners DEF UserRemovesMachine
<1>21. CASE Restart
  BY <1>21, NoCPMSFields DEF Restart
<1>22. CASE SyncCPMS
  BY <1>0, <1>m, <1>22 DEF SyncCPMS
<1>23. CASE SyncMachines \/ SyncMetadata \/ UNCHANGED vars
  BY <1>23 DEF SyncMachines, SyncMetadata, vars
<1> QED
  BY <1>1, <1>2, <1>3, <1>4, <1>5, <1>6, <1>7, <1>8, <1>12, <1>13, <1>14, <1>15, <1>16,
     <1>17, <1>18, <1>19, <1>20, <1>21, <1>22, <1>23
  DEF Next, ControllerStep, GeneratorStep, UserStep

(***************************************************************************)
(* When every deletion reads the Machines' metadata as it is, no Machine   *)
(* is ever owned by a ControlPlaneMachineSet that is gone, or could go     *)
(* without the controller taking the owner references away first           *)
(* (reconcileDelete).                                                      *)
(***************************************************************************)
THEOREM GarbageCollectorSparesMachines ==
    ASSUME FreshMetadata
    PROVE  Spec => []OwnersAreProtected
<1>1. OwnershipInv => OwnersAreProtected
  BY DEF OwnershipInv
<1> QED
  BY <1>1, InitTyped, NextTyped, ActivationInit, ActivationNext, OwnershipInit,
     OwnershipNext, PTL DEF Spec

=============================================================================
