------------------- MODULE ControlPlaneMachineSetLifecycle -------------------
(***************************************************************************)
(* The life of the ControlPlaneMachineSet object and who owns the Machines *)
(* meanwhile: the generator creates it, users activate, edit and delete    *)
(* it, the webhook admits those requests, the controller puts its          *)
(* finalizer and its owner references in place and takes them away again   *)
(* (controlplanemachineset/controller.go: Reconcile, reconcile,            *)
(* reconcileDelete, ensureFinalizer, ensureOwnerReferences;                *)
(* controlplanemachinesetgenerator/controller.go; the webhook's            *)
(* ValidateCreate and ValidateUpdate).                                     *)
(*                                                                         *)
(* The two controllers run one reconcile each at a time, in one process    *)
(* and on the same caches, and interleave call by call.  What the          *)
(* controller does to Machines once it owns them (the update strategies)   *)
(* is left open here: module ControlPlaneMachineSet has it.                *)
(***************************************************************************)
EXTENDS Integers, FiniteSets, FiniteSetsExt, Functions

CONSTANTS
    Replicas,        \* spec.replicas, and the Machines at the start
    Templates,       \* provider configs the webhook admits
    Rejected,        \* templates it no longer admits, of an older release
    MaxMachines,     \* bound: Machines that ever exist
    Bounds,          \* bound: how often each event, and any of them, may happen
    FreshMetadata    \* TRUE: a deletion reads metadata that is up to date

Event == {"activations", "edits", "deletes", "creates", "machines",
          "statuses", "errors", "restarts", "any"}

ASSUME LifecycleAssumption ==
    /\ Replicas \in Nat \ {0} /\ MaxMachines \in Nat /\ Replicas <= MaxMachines
    /\ Bounds \in [Event -> Nat]
    /\ Templates # {} /\ Templates \cap Rejected = {}
    /\ FreshMetadata \in BOOLEAN

Names == 1..MaxMachines    \* a Machine's name; a newer one has a higher name
UID   == Nat               \* of a ControlPlaneMachineSet; 0 is none
State == {"Active", "Inactive"}

(***************************************************************************)
(* The object: rv, its resource version, grows with every write, so two    *)
(* copies are equal exactly when uid and rv are.                           *)
(***************************************************************************)
CPMS == [uid : UID, rv : Nat, state : State, template : Templates \cup Rejected,
         finalizer : BOOLEAN, deleting : BOOLEAN]

NoCPMS == [uid |-> 0, rv |-> 0, state |-> "Inactive",
           template |-> CHOOSE t \in Templates : TRUE,
           finalizer |-> FALSE, deleting |-> FALSE]

(***************************************************************************)
(* owner is the UID of the controller owner reference, 0 without one.      *)
(***************************************************************************)
Machine == [spec : Templates, owner : UID]

VARIABLES
    cpms,            \* the singleton at the API server, NoCPMS without one
    uids,            \* how many ControlPlaneMachineSets there ever were
    machines,        \* Machines at the API server, by name
    created,         \* the newest Machine's name
    cpmsCache,       \* what the informers hold: the ControlPlaneMachineSet,
    machineCache,    \*   the Machines, and the Machines' metadata
    metadataCache,   \*   (an informer of its own,
    watching,        \*   running from the first List on)
    pc, copy, todo,  \* the controller's reconcile: where it stands, the
    failed,          \*   object it read, Machines left to patch, an error
    genPC, genSpec,  \* the generator's reconcile, and what it generated
    activated,       \* history: UIDs users activated
    userDeleted,     \* history: UIDs users deleted
    budget           \* what is left of Bounds

cpmsVars  == <<cpms, uids>>
machVars  == <<machines, created>>
cacheVars == <<cpmsCache, machineCache, metadataCache, watching>>
ctlVars   == <<pc, copy, todo, failed>>
genVars   == <<genPC, genSpec>>
history   == <<activated, userDeleted>>
vars      == <<cpmsVars, machVars, cacheVars, ctlVars, genVars, history, budget>>

isMachines(ms) == DOMAIN ms \subseteq 1..created /\ ms \in [DOMAIN ms -> Machine]

(***************************************************************************)
(* Every variable has its type.                                            *)
(***************************************************************************)
TypeOK ==
    /\ cpms \in CPMS /\ cpmsCache \in CPMS /\ copy \in CPMS
    /\ uids \in Nat /\ created \in Names
    /\ isMachines(machines) /\ isMachines(machineCache)
    /\ isMachines(metadataCache) /\ watching \in BOOLEAN
    /\ pc \in {"idle", "adopt", "update", "disown", "finalize", "status"}
    /\ todo \subseteq Names /\ failed \in BOOLEAN
    /\ genPC \in {"idle", "create"} /\ genSpec \in Templates
    /\ activated \subseteq 1..uids /\ userDeleted \subseteq 1..uids
    /\ budget \in [Event -> Nat]

spend(e) ==
    /\ budget[e] > 0 /\ budget["any"] > 0
    /\ budget' = [budget EXCEPT ![e] = @ - 1, !["any"] = @ - 1]

exists(c) == c # NoCPMS
isActive(c) == c.state = "Active"

-----------------------------------------------------------------------------
(***************************************************************************)
(* The API server (external).  A write to the object carries the resource  *)
(* version it is based on, and is refused when that is not the stored one. *)
(***************************************************************************)
written(c) == [c EXCEPT !.rv = @ + 1]

(***************************************************************************)
(* What a Delete leaves: while there is a finalizer, the object with a     *)
(* deletion timestamp; deleting it once more changes nothing.              *)
(***************************************************************************)
afterDelete(c) ==
    IF ~c.finalizer THEN NoCPMS
    ELSE IF c.deleting THEN c
    ELSE written([c EXCEPT !.deleting = TRUE])

(***************************************************************************)
(* The object a Create stores; and a bug, its state is forgotten.          *)
(***************************************************************************)
newCPMSWithoutState(state, template) ==
    [uid |-> uids + 1, rv |-> 1, state |-> "", template |-> template,
     finalizer |-> FALSE, deleting |-> FALSE]

newCPMS(state, template) ==
    [uid |-> uids + 1, rv |-> 1, state |-> state, template |-> template,
     finalizer |-> FALSE, deleting |-> FALSE]

(***************************************************************************)
(* The webhook.  The spec is checked (module FailureDomains has the checks *)
(* of the template), except when the last finalizer goes: a deletion must  *)
(* not fail on a spec that an older release admitted.  The bug: no such    *)
(* exception.                                                              *)
(***************************************************************************)
validateSpec(c) == c.template \in Templates

shouldValidateSpecUpdateAlways(old, new) == TRUE

shouldValidateSpecUpdate(old, new) ==
    ~(new.deleting /\ old.finalizer /\ ~new.finalizer)

(***************************************************************************)
(* ValidateUpdate forbids to activate an object that is being deleted.     *)
(***************************************************************************)
ValidateUpdate(old, new) ==
    /\ ~(new.deleting /\ ~isActive(old) /\ isActive(new))
    /\ shouldValidateSpecUpdate(old, new) => validateSpec(new)

(***************************************************************************)
(* ValidateCreate, with validateSpecOnCreate: as many Machines, in the     *)
(* cache, as an Active ControlPlaneMachineSet has replicas.                *)
(***************************************************************************)
ValidateCreate(new) ==
    /\ validateSpec(new)
    /\ isActive(new) => Cardinality(DOMAIN machineCache) = Replicas

-----------------------------------------------------------------------------
(***************************************************************************)
(* The ControlPlaneMachineSet controller.                                  *)
(***************************************************************************)

(***************************************************************************)
(* reconcile returned; Reconcile goes on to write the status.              *)
(***************************************************************************)
return == pc' = "status" /\ todo' = {} /\ failed' = FALSE

(***************************************************************************)
(* The object is not in the cache: there is nothing to do but to report    *)
(* the operator available.  Otherwise the reconcile works on the cached    *)
(* copy: a deletion is handled first, then the finalizer, and only then,   *)
(* and only when Active, Machines.                                         *)
(***************************************************************************)
reads == pc = "idle" /\ exists(cpmsCache) /\ copy' = cpmsCache

(***************************************************************************)
(* reconcileDelete lists metadata.  The first List starts the informer and *)
(* waits for it, so it shows the present; a later one what the informer    *)
(* has received.                                                           *)
(***************************************************************************)
listMetadata == IF watching THEN metadataCache ELSE machines

hasOwnerRef(m, c) == m.owner = c.uid

ReconcileDelete ==
    /\ reads /\ cpmsCache.deleting
    /\ FreshMetadata => listMetadata = machines
    /\ metadataCache' = listMetadata /\ watching' = TRUE
    /\ todo' = {n \in DOMAIN listMetadata : hasOwnerRef(listMetadata[n], cpmsCache)}
    /\ pc' = IF todo' = {} THEN "finalize" ELSE "disown"
    /\ UNCHANGED <<cpmsVars, machVars, cpmsCache, machineCache, failed, genVars,
                   history, budget>>

(***************************************************************************)
(* Deletion or creation of the owner reference: a merge patch without a    *)
(* resource version.  It fails when the Machine is gone, or the API does.  *)
(***************************************************************************)
patchOwner(n, uid) == machines' = [machines EXCEPT ![n].owner = uid]

RemoveOwnerRef(n) ==
    /\ pc = "disown" /\ n \in todo
    /\ todo' = todo \ {n}
    /\ pc' = IF todo' = {} THEN "finalize" ELSE "disown"
    /\ \/ n \in DOMAIN machines /\ patchOwner(n, 0) /\ UNCHANGED <<failed, budget>>
       \/ n \notin DOMAIN machines /\ failed' = TRUE /\ UNCHANGED <<machines, budget>>
       \/ n \in DOMAIN machines /\ spend("errors") /\ failed' = TRUE /\ UNCHANGED machines
    /\ UNCHANGED <<cpmsVars, created, cacheVars, copy, genVars, history>>

(***************************************************************************)
(* The finalizer goes once no patch failed; and a bug, it goes regardless. *)
(***************************************************************************)
mayRemoveFinalizerAlways == TRUE

mayRemoveFinalizer == ~failed

RemoveFinalizer ==
    /\ pc = "finalize"
    /\ cpms' = IF /\ mayRemoveFinalizer /\ copy = cpms
                  /\ ValidateUpdate(cpms, [cpms EXCEPT !.finalizer = FALSE])
               THEN NoCPMS ELSE cpms
    /\ return
    /\ UNCHANGED <<uids, machVars, cacheVars, copy, genVars, history, budget>>

(***************************************************************************)
(* ensureFinalizer: an Update with the cached resource version, and the    *)
(* end of this reconcile, whether it is accepted or refused.               *)
(***************************************************************************)
lacksFinalizer(c) == ~c.finalizer

EnsureFinalizer ==
    /\ pc = "idle" /\ exists(cpmsCache)
    /\ ~cpmsCache.deleting /\ lacksFinalizer(cpmsCache)
    /\ LET new == written([cpmsCache EXCEPT !.finalizer = TRUE])
       IN  IF cpms = cpmsCache /\ ValidateUpdate(cpms, new)
           THEN cpms' = new /\ copy' = new
           ELSE cpms' = cpms /\ copy' = cpmsCache
    /\ return
    /\ UNCHANGED <<uids, machVars, cacheVars, genVars, history, budget>>

(***************************************************************************)
(* isOwnedByCurrentCPMS compares the name, and all have the same: any      *)
(* owner reference will do.  The bug: a Machine without one counts as      *)
(* owned.                                                                  *)
(***************************************************************************)
isOwnedByDefault(m) == m.owner = 0

isOwnedByCurrentCPMS(m) == m.owner # 0

(***************************************************************************)
(* With the finalizer in place an Inactive ControlPlaneMachineSet leaves   *)
(* the Machines alone; an Active one adopts the cached Machines that have  *)
(* no owner.  The cluster's state is taken to be valid here; one that is   *)
(* not stops the reconcile as well.  The bug: Inactive is not looked at.   *)
(***************************************************************************)
processesMachinesAlways(c) == TRUE

processesMachines(c) == isActive(c)

ReconcileMachines ==
    /\ reads /\ ~cpmsCache.deleting /\ ~lacksFinalizer(cpmsCache)
    /\ IF processesMachines(cpmsCache)
       THEN /\ todo' = {n \in DOMAIN machineCache : ~isOwnedByCurrentCPMS(machineCache[n])}
            /\ pc' = IF todo' = {} THEN "update" ELSE "adopt"
            /\ UNCHANGED failed
       ELSE return
    /\ UNCHANGED <<cpmsVars, machVars, cacheVars, genVars, history, budget>>

EnsureOwnerReference(n) ==
    /\ pc = "adopt" /\ n \in todo
    /\ \/ /\ n \in DOMAIN machines /\ patchOwner(n, copy.uid)
          /\ todo' = todo \ {n}
          /\ pc' = IF todo' = {} THEN "update" ELSE "adopt"
          /\ UNCHANGED <<failed, budget>>
       \/ n \notin DOMAIN machines /\ return /\ UNCHANGED <<machines, budget>>
       \/ n \in DOMAIN machines /\ spend("errors") /\ return /\ UNCHANGED machines
    /\ UNCHANGED <<cpmsVars, created, cacheVars, copy, genVars, history>>

(***************************************************************************)
(* reconcileMachineUpdates, with its decisions left open: it creates a     *)
(* Machine that the copy it works on controls, with a config that has its  *)
(* failure domain injected, or deletes one, or waits.                      *)
(***************************************************************************)
addMachine(spec, owner) ==
    /\ created < MaxMachines
    /\ created' = created + 1
    /\ machines' = [n \in DOMAIN machines \cup {created'} |->
                      IF n = created' THEN [spec |-> spec, owner |-> owner]
                                      ELSE machines[n]]

dropMachine(n) == /\ machines' = Restrict(machines, DOMAIN machines \ {n})
                  /\ UNCHANGED created

ReconcileMachineUpdates ==
    /\ pc = "update" /\ return
    /\ \/ UNCHANGED <<machVars, budget>>
       \/ \E t \in Templates : spend("machines") /\ addMachine(t, copy.uid)
       \/ \E n \in DOMAIN machines : spend("machines") /\ dropMachine(n)
    /\ UNCHANGED <<cpmsVars, cacheVars, copy, genVars, history>>

(***************************************************************************)
(* updateControlPlaneMachineSetStatus writes when the status changed, with *)
(* the copy's resource version: another race the generator may lose.       *)
(***************************************************************************)
UpdateStatus ==
    /\ pc = "status" /\ pc' = "idle" /\ copy' = NoCPMS
    /\ \/ UNCHANGED <<cpms, budget>>
       \/ copy = cpms /\ spend("statuses") /\ cpms' = written(cpms)
    /\ UNCHANGED <<uids, machVars, cacheVars, todo, failed, genVars, history>>

-----------------------------------------------------------------------------
(***************************************************************************)
(* The generator, for Inactive ControlPlaneMachineSets and for clusters    *)
(* without one.  It generates from the newest Machine of the cached ones,  *)
(* and supports two Machines and more.                                     *)
(***************************************************************************)
isSupportedControlPlaneMachinesNumber(ms) == Cardinality(DOMAIN ms) > 1

generateControlPlaneMachineSet(ms) == ms[Max(DOMAIN ms)].spec

generates ==
    /\ genPC = "idle"
    /\ ~cpmsCache.deleting /\ ~isActive(cpmsCache)
    /\ isSupportedControlPlaneMachinesNumber(machineCache)

(***************************************************************************)
(* A Create is refused while there is such an object.                      *)
(***************************************************************************)
create(spec) ==
    LET new == newCPMS("Inactive", spec)
    IN  IF ~exists(cpms) /\ ValidateCreate(new)
        THEN cpms' = new /\ uids' = uids + 1
        ELSE UNCHANGED cpmsVars

EnsureControlPlaneMachineSet ==
    /\ generates /\ ~exists(cpmsCache)
    /\ create(generateControlPlaneMachineSet(machineCache))
    /\ UNCHANGED <<machVars, cacheVars, ctlVars, genVars, history, budget>>

(***************************************************************************)
(* compareControlPlaneMachineSets; and a bug, it finds no difference.      *)
(***************************************************************************)
differNever(c, spec) == FALSE

differ(c, spec) == c.template # spec

(***************************************************************************)
(* The deletion's precondition: the object is the one that was read.  The  *)
(* bug: the precondition is missing.                                       *)
(***************************************************************************)
deletePreconditionNone(seen) == exists(cpms)

deletePrecondition(seen) == seen = cpms

(***************************************************************************)
(* recreateControlPlaneMachineSet: the Delete; when it is accepted, the    *)
(* Create, which fails for as long as a finalizer keeps the old one.       *)
(***************************************************************************)
RecreateDelete ==
    /\ generates /\ exists(cpmsCache)
    /\ LET spec == generateControlPlaneMachineSet(machineCache)
       IN  /\ differ(cpmsCache, spec)
           /\ IF deletePrecondition(cpmsCache)
              THEN cpms' = afterDelete(cpms) /\ genPC' = "create" /\ genSpec' = spec
              ELSE UNCHANGED <<cpms, genVars>>
    /\ UNCHANGED <<uids, machVars, cacheVars, ctlVars, history, budget>>

RecreateCreate ==
    /\ genPC = "create"
    /\ create(genSpec)
    /\ genPC' = "idle"
    /\ UNCHANGED <<machVars, cacheVars, ctlVars, genSpec, history, budget>>

-----------------------------------------------------------------------------
(***************************************************************************)
(* The informers (external).                                               *)
(***************************************************************************)
SyncCPMS == cpmsCache # cpms /\ cpmsCache' = cpms
            /\ UNCHANGED <<cpmsVars, machVars, machineCache, metadataCache, watching, ctlVars,
                           genVars, history, budget>>

SyncMachines == machineCache # machines /\ machineCache' = machines
                /\ UNCHANGED <<cpmsVars, machVars, cpmsCache, metadataCache, watching, ctlVars,
                               genVars, history, budget>>

SyncMetadata == watching /\ metadataCache # machines /\ metadataCache' = machines
                /\ UNCHANGED <<cpmsVars, machVars, cpmsCache, machineCache, watching, ctlVars,
                               genVars, history, budget>>

(***************************************************************************)
(* The process stops, and starts again, or another replica takes over: the *)
(* reconciles in flight are lost and the caches are filled anew.           *)
(***************************************************************************)
Restart ==
    /\ spend("restarts")
    /\ pc' = "idle" /\ copy' = NoCPMS /\ todo' = {} /\ failed' = FALSE
    /\ genPC' = "idle" /\ UNCHANGED genSpec
    /\ cpmsCache' = cpms /\ machineCache' = machines
    /\ metadataCache' = <<>> /\ watching' = FALSE
    /\ UNCHANGED <<cpmsVars, machVars, history>>

(***************************************************************************)
(* Users create, activate, edit and delete the ControlPlaneMachineSet, and *)
(* add and remove Machines.                                                *)
(***************************************************************************)
UserUpdates(new) ==
    /\ exists(cpms) /\ ValidateUpdate(cpms, new)
    /\ cpms' = written(new)
    /\ UNCHANGED <<uids, machVars, cacheVars, ctlVars, genVars, userDeleted>>

UserActivates ==
    /\ ~isActive(cpms) /\ spend("activations")
    /\ UserUpdates([cpms EXCEPT !.state = "Active"])
    /\ activated' = activated \cup {cpms.uid}

UserEdits(t) ==
    /\ t # cpms.template /\ spend("edits")
    /\ UserUpdates([cpms EXCEPT !.template = t])
    /\ UNCHANGED activated

UserDeletes ==
    /\ exists(cpms) /\ ~cpms.deleting /\ spend("deletes")
    /\ cpms' = afterDelete(cpms)
    /\ userDeleted' = userDeleted \cup {cpms.uid}
    /\ UNCHANGED <<uids, machVars, cacheVars, ctlVars, genVars, activated>>

UserCreates(t) ==
    LET new == newCPMS("Active", t)
    IN  /\ ~exists(cpms) /\ ValidateCreate(new) /\ spend("creates")
        /\ cpms' = new /\ uids' = uids + 1
        /\ activated' = activated \cup {uids'}
        /\ UNCHANGED <<machVars, cacheVars, ctlVars, genVars, userDeleted>>

UserAddsMachine(t) ==
    /\ spend("machines") /\ addMachine(t, 0)
    /\ UNCHANGED <<cpmsVars, cacheVars, ctlVars, genVars, history>>

UserRemovesMachine(n) ==
    /\ n \in DOMAIN machines /\ spend("machines") /\ dropMachine(n)
    /\ UNCHANGED <<cpmsVars, cacheVars, ctlVars, genVars, history>>

-----------------------------------------------------------------------------
(***************************************************************************)
(* A new cluster has no ControlPlaneMachineSet; an upgraded one may have   *)
(* one that would not be admitted any more.                                *)
(***************************************************************************)
upgraded ==
    {[uid |-> 1, rv |-> 1, state |-> s, template |-> t, finalizer |-> TRUE,
      deleting |-> FALSE] : s \in State, t \in Rejected}

Init ==
    /\ cpms \in {NoCPMS} \cup upgraded /\ uids = cpms.uid
    /\ machines = [n \in 1..Replicas |->
                     [spec |-> NoCPMS.template, owner |-> IF isActive(cpms) THEN 1 ELSE 0]]
    /\ created = Replicas
    /\ cpmsCache = cpms /\ machineCache = machines
    /\ metadataCache = <<>> /\ watching = FALSE
    /\ pc = "idle" /\ copy = NoCPMS /\ todo = {} /\ failed = FALSE
    /\ genPC = "idle" /\ genSpec = NoCPMS.template
    /\ activated = IF isActive(cpms) THEN {1} ELSE {}
    /\ userDeleted = {}
    /\ budget = Bounds

ControllerStep ==
    \/ ReconcileDelete \/ RemoveFinalizer \/ EnsureFinalizer
    \/ ReconcileMachines \/ ReconcileMachineUpdates \/ UpdateStatus
    \/ \E n \in todo : RemoveOwnerRef(n) \/ EnsureOwnerReference(n)

GeneratorStep == EnsureControlPlaneMachineSet \/ RecreateDelete \/ RecreateCreate

UserStep ==
    \/ UserActivates \/ UserDeletes
    \/ \E t \in Templates : UserEdits(t) \/ UserCreates(t) \/ UserAddsMachine(t)
    \/ \E n \in Names : UserRemovesMachine(n)

Next ==
    \/ ControllerStep \/ GeneratorStep \/ UserStep \/ Restart
    \/ SyncCPMS \/ SyncMachines \/ SyncMetadata

Spec == Init /\ [][Next]_vars

(***************************************************************************)
(* Every change of the object or a Machine starts both controllers again   *)
(* (FilterControlPlaneMachineSet, FilterControlPlaneMachines), errors are  *)
(* requeued, each reconcile runs to its end, and informers deliver.        *)
(***************************************************************************)
Fairness ==
    /\ WF_vars(ControllerStep) /\ WF_vars(GeneratorStep)
    /\ WF_vars(SyncCPMS) /\ WF_vars(SyncMachines) /\ WF_vars(SyncMetadata)

FairSpec == Spec /\ Fairness

-----------------------------------------------------------------------------
(***************************************************************************)
(* No Machine is ever within the garbage collector's reach: while it has   *)
(* an owner reference, that owner exists, and has its finalizer            *)
(* (reconcileDelete; docs/developer/test-strategy.md: "Check that CPMS     *)
(* removes owner references and that the Machines do not get removed").    *)
(***************************************************************************)
OwnersAreProtected ==
    \A n \in DOMAIN machines :
        machines[n].owner # 0 => machines[n].owner = cpms.uid /\ cpms.finalizer

(***************************************************************************)
(* Once users activated a ControlPlaneMachineSet only users delete it:     *)
(* whatever the generator read, and whenever the activation came between   *)
(* its calls (recreateControlPlaneMachineSet, ValidateUpdate).             *)
(***************************************************************************)
ActivatedIsNotRegenerated ==
    \A u \in activated : cpms.uid # u \/ cpms.deleting => u \in userDeleted

(***************************************************************************)
(* Owner references come from ControlPlaneMachineSets users activated, so  *)
(* a cluster that never had an Active one keeps its Machines as they were  *)
(* (reconcileMachines).                                                    *)
(***************************************************************************)
OwnedOnceActivated ==
    \A n \in DOMAIN machines : machines[n].owner \in {0} \cup activated

(***************************************************************************)
(* A deletion ends: nothing keeps the object once it is deleted, whether   *)
(* patches failed on the way or the operator restarted (reconcileDelete).  *)
(***************************************************************************)
DeletionCompletes == cpms.deleting ~> ~cpms.deleting

(***************************************************************************)
(* In the end a ControlPlaneMachineSet exists that is either Active or     *)
(* generated from the newest Machine, unless too few Machines are left     *)
(* (the generator's reconcile: delete, wait for the finalizer, create).    *)
(***************************************************************************)
GeneratorConverges ==
    <>[](\/ ~isSupportedControlPlaneMachinesNumber(machines)
         \/ /\ exists(cpms) /\ ~cpms.deleting
            /\ isActive(cpms) \/ cpms.template = generateControlPlaneMachineSet(machines))

(***************************************************************************)
(* An Active ControlPlaneMachineSet comes to own every Machine, and keeps  *)
(* them until it is deleted (ensureOwnerReferences).                       *)
(***************************************************************************)
AdoptionCompletes ==
    <>[](isActive(cpms) /\ ~cpms.deleting =>
           \A n \in DOMAIN machines : machines[n].owner = cpms.uid)

=============================================================================
