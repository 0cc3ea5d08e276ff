----------------------- MODULE ControlPlaneMachineSet -----------------------
(***************************************************************************)
(* The ControlPlaneMachineSet controller keeping the control plane         *)
(* Machines of a cluster up to date, together with everything it races     *)
(* with: the informer caches it reads, the machine controller, the Nodes,  *)
(* the etcd operator's deletion hook and the cluster's users               *)
(* (pkg/controllers/controlplanemachineset/controller.go, updates.go).     *)
(*                                                                         *)
(* One reconcile is several steps: it reads its caches once, then issues   *)
(* API calls one at a time from what it read, and the cluster moves        *)
(* between any two of them.  Leader election lets one replica of the       *)
(* operator run the controller, and controller-runtime runs at most one    *)
(* reconcile of an object at a time, so one reconcile is in flight.        *)
(***************************************************************************)
EXTENDS MachineProvider, ClusterValidation, MachineUpdates, Functions

CONSTANTS
    StartCPMS,       \* the ControlPlaneMachineSet's spec at the start
    StartMachines,   \* index, provider config and owner of the first Machines
    Editable,        \* fields of the ControlPlaneMachineSet users may edit
    MaxMachines,     \* bound: Machines that ever exist
    Bounds,          \* bound: how often each disruption may happen
    FreshReads       \* TRUE: a reconcile starts from caches that are up to date

Disruption == {"edits", "deletes", "flaps", "errors", "aborts"}
Names      == 1..MaxMachines
Strategy   == {"RollingUpdate", "OnDelete", "Recreate"}
State      == {"Active", "Inactive"}
CPMSSpec   == [template : Templates, strategy : Strategy, state : State]

(***************************************************************************)
(* The cluster starts with one Machine for each of Replicas indexes.       *)
(***************************************************************************)
ASSUME StartAssumption ==
    /\ StartCPMS \in CPMSSpec
    /\ StartMachines \in [1..Replicas -> [index : Nat, spec : Templates, owner : Owner]]
    /\ \A m, n \in 1..Replicas : StartMachines[m].index = StartMachines[n].index => m = n

ASSUME BoundsAssumption == /\ MaxMachines \in Nat /\ Replicas <= MaxMachines
                           /\ Bounds \in [Disruption -> Nat]
                           /\ FreshReads \in BOOLEAN
                           /\ Editable \subseteq {"template", "strategy", "state"}

VARIABLES
    cpms,            \* the ControlPlaneMachineSet's spec at the API server
    machines,        \* Machines at the API server, by name
    nodes,           \* control plane Nodes at the API server, by name
    created,         \* how many Machines were ever created: the newest name
    cpmsCache,       \* the three informer caches: what the API server
    machineCache,    \*   held at some earlier moment
    nodeCache,
    template,        \* the template the reconcile in flight works from
    seen,            \* history: the Machines it listed or created, by name
    degraded,        \* the Degraded condition's reason on its copy of the status
    budget           \* what is left of Bounds

serverVars == <<cpms, machines, nodes, created>>
cacheVars  == <<cpmsCache, machineCache, nodeCache>>
localVars  == <<pc, todo, view, template, strategy, surgeCount, seen, degraded>>
vars       == <<serverVars, cacheVars, localVars, budget>>

(***************************************************************************)
(* Every variable has its type.                                            *)
(***************************************************************************)
TypeOK ==
    /\ cpms \in CPMSSpec /\ cpmsCache \in CPMSSpec
    /\ isObjectsOf(machines, 1..created, Machine)
    /\ isObjectsOf(machineCache, 1..created, Machine)
    /\ isObjectsOf(nodes, 1..created, NodeState)
    /\ isObjectsOf(nodeCache, 1..created, NodeState)
    /\ created \in Names
    /\ pc \in {"idle", "owners", "update", "create", "checked"}
    /\ todo \subseteq Nat
    /\ view \subseteq MachineInfo
    /\ template \in Templates
    /\ strategy \in Strategy
    /\ surgeCount \in Int
    /\ seen \subseteq 1..created
    /\ degraded \in DegradedReason
    /\ budget \in [Disruption -> Nat]

-----------------------------------------------------------------------------
(***************************************************************************)
(* The reconcile.                                                          *)
(***************************************************************************)

(***************************************************************************)
(* The Machines of `names' are the ones the reconcile knows of until it    *)
(* ends.                                                                   *)
(***************************************************************************)
hasSeen(names) == seen' = IF pc' = "idle" THEN {} ELSE names

(***************************************************************************)
(* ensureOwnerReferences found every Machine owned, or owned by another    *)
(* controller; reconcileMachineUpdates follows.                            *)
(***************************************************************************)
reconcileMachineUpdates(strat, ms) ==
    IF strat \in {"RollingUpdate", "OnDelete"}
    THEN /\ degraded' = IF \E m \in ms : m.owner = "other"
                        THEN "MachinesAlreadyOwned" ELSE "AsExpected"
         /\ continueWith(strat, machineInfosByIndex(ms), ms,
                         IF strat = "RollingUpdate" THEN deviseExistingSurge(ms) ELSE 0)
    ELSE degraded' = "InvalidStrategy" /\ endReconcile

(***************************************************************************)
(* The early returns of reconcileMachines; and a bug, the missing second   *)
(* one.                                                                    *)
(***************************************************************************)
stopsProcessingDegradedOnly(reason, spec) == isControlPlaneMachineSetDegraded(reason)

isActive(spec) == spec.state = "Active"

stopsProcessing(reason, spec) ==
    isControlPlaneMachineSetDegraded(reason) \/ ~isActive(spec)

(***************************************************************************)
(* ensureOwnerReferences has a Machine to patch; and a bug, the assumption *)
(* that indexes lie below Replicas.                                        *)
(***************************************************************************)
lacksOwnerBelowReplicas(m) == m.owner = "none" /\ m.index < Replicas

lacksOwner(m) == m.owner = "none"

(***************************************************************************)
(* A reconcile reads its caches, computes status and conditions, and       *)
(* stops when they are Degraded or the ControlPlaneMachineSet is Inactive. *)
(* When the infos cannot be read it returns the error and changes nothing. *)
(***************************************************************************)
Reconcile ==
    /\ pc = "idle"
    /\ FreshReads => cacheVars = <<cpms, machines, nodes>>
    /\ machineInfosAvailable(machineCache, nodeCache)
    /\ LET ms     == GetMachineInfos(machineCache, nodeCache, cpmsCache.template)
           reason == validateClusterState(ms, DOMAIN nodeCache, cpmsCache.strategy)
       IN  /\ template' = cpmsCache.template
           /\ strategy' = cpmsCache.strategy
           /\ IF stopsProcessing(reason, cpmsCache)
              THEN degraded' = reason /\ endReconcile
              ELSE IF \E m \in ms : lacksOwner(m)
              THEN /\ pc' = "owners" /\ view' = ms
                   /\ UNCHANGED <<todo, surgeCount>>
                   /\ degraded' = reason
              ELSE reconcileMachineUpdates(cpmsCache.strategy, ms)
    /\ hasSeen(DOMAIN machineCache)
    /\ UNCHANGED <<serverVars, cacheVars, budget>>

(***************************************************************************)
(* ensureOwnerReferences patches one Machine; the patch carries no         *)
(* resource version.  A Machine that is gone fails the reconcile, with     *)
(* another owner noticed before that or not.                               *)
(***************************************************************************)
EnsureOwnerReference(m) ==
    /\ pc = "owners" /\ m \in view /\ lacksOwner(m)
    /\ IF m.name \in DOMAIN machines
       THEN /\ machines' = [machines EXCEPT ![m.name].owner = "cpms"]
            /\ LET ms == (view \ {m}) \cup {[m EXCEPT !.owner = "cpms"]}
               IN  IF \E n \in ms : lacksOwner(n)
                   THEN view' = ms /\ UNCHANGED <<pc, todo, surgeCount, degraded>>
                   ELSE reconcileMachineUpdates(strategy, ms)
       ELSE /\ endReconcile
            /\ \/ UNCHANGED degraded
               \/ /\ \E n \in view : n.owner = "other"
                  /\ degraded' = "MachinesAlreadyOwned"
            /\ UNCHANGED machines
    /\ hasSeen(seen)
    /\ UNCHANGED <<cpms, nodes, created, cacheVars, template, strategy, budget>>

(***************************************************************************)
(* deleteReplacedMachines deletes Machine m, then the index goes on.       *)
(***************************************************************************)
DeleteReplacedMachine(i, m) ==
    /\ pc = "update" /\ current(i)
    /\ m \in wantsDelete(strategy, ofIndex(view, i))
    /\ machines' = DeleteMachine(machines, m.name)
    /\ IF wantsCreate(strategy, ofIndex(view, i), surgeCount)
       THEN pc' = "create" /\ UNCHANGED <<todo, view, surgeCount>>
       ELSE continueWith(strategy, todo \ {i}, view, surgeCount)
    /\ hasSeen(seen)
    /\ UNCHANGED <<cpms, nodes, created, cacheVars, template, strategy, degraded, budget>>

(***************************************************************************)
(* Nothing is created for index i.                                         *)
(***************************************************************************)
SkipIndex(i) ==
    /\ current(i) /\ pastDeletion(ofIndex(view, i))
    /\ ~wantsCreate(strategy, ofIndex(view, i), surgeCount)
    /\ continueWith(strategy, todo \ {i}, view, surgeCount)
    /\ hasSeen(seen)
    /\ UNCHANGED <<serverVars, cacheVars, template, strategy, degraded, budget>>

(***************************************************************************)
(* checkForExistingReplacement asks the API server, not the cache.  When   *)
(* there is a replacement, createMachine reports "not created" and the     *)
(* surge count stays as it is.  A referenced Node that is gone is an error *)
(* that ends the reconcile.  (The bug: the check reads the cache.)         *)
(***************************************************************************)
existingReplacementInCache(i) ==
    \E n \in DOMAIN machineCache : /\ machineCache[n].index = i
                                   /\ machineCache[n].spec = template
                                   /\ ~machineCache[n].deleted

existingReplacement(i) ==
    \E n \in DOMAIN machines : /\ machines[n].index = i
                               /\ machines[n].spec = template
                               /\ ~machines[n].deleted

CheckForExistingReplacement(i) ==
    /\ current(i) /\ pastDeletion(ofIndex(view, i))
    /\ wantsCreate(strategy, ofIndex(view, i), surgeCount)
    /\ IF ~machineInfosAvailable(machines, nodes)
       THEN endReconcile
       ELSE IF existingReplacement(i)
       THEN continueWith(strategy, todo \ {i}, view, surgeCount)
       ELSE pc' = "checked" /\ UNCHANGED <<todo, view, surgeCount>>
    /\ hasSeen(seen)
    /\ UNCHANGED <<serverVars, cacheVars, template, strategy, degraded, budget>>

CreateMachine(i) ==
    /\ pc = "checked" /\ current(i)
    /\ created < MaxMachines
    /\ created' = created + 1
    /\ machines' = [n \in DOMAIN machines \cup {created'} |->
                      IF n = created' THEN newMachine(i, template) ELSE machines[n]]
    /\ continueWith(strategy, todo \ {i}, view, surgeAfterCreation(strategy, surgeCount))
    /\ hasSeen(seen \cup {created'})
    /\ UNCHANGED <<cpms, nodes, cacheVars, template, strategy, degraded, budget>>

(***************************************************************************)
(* A disruption spends what Bounds allows of it.                           *)
(***************************************************************************)
spend(d) == budget[d] > 0 /\ budget' = [budget EXCEPT ![d] = @ - 1]

(***************************************************************************)
(* An API call fails and the reconcile returns its error, or the operator  *)
(* stops and another replica takes over: the rest of the loop is lost.     *)
(* What was written stays; the call that failed may have been applied      *)
(* (then the step that applied it precedes this one) or not.               *)
(***************************************************************************)
AbortReconcile ==
    /\ pc # "idle" /\ spend("aborts")
    /\ endReconcile
    /\ hasSeen(seen)
    /\ UNCHANGED <<serverVars, cacheVars, template, strategy, degraded>>

-----------------------------------------------------------------------------
(***************************************************************************)
(* The informers (external): the events of one kind arrive in order, so a  *)
(* cache always holds one earlier state of its kind, and only moves on.    *)
(***************************************************************************)
SyncCPMS     == cpmsCache # cpms /\ cpmsCache' = cpms
                /\ UNCHANGED <<serverVars, machineCache, nodeCache, localVars, budget>>
SyncMachines == machineCache # machines /\ machineCache' = machines
                /\ UNCHANGED <<serverVars, cpmsCache, nodeCache, localVars, budget>>
SyncNodes    == nodeCache # nodes /\ nodeCache' = nodes
                /\ UNCHANGED <<serverVars, cpmsCache, machineCache, localVars, budget>>

(***************************************************************************)
(* The machine controller and the kubelets (external, from how             *)
(* generateMachineInfo reads their results).  A Node registers not ready,  *)
(* is linked to its Machine, which is Running then, and becomes ready.     *)
(***************************************************************************)
machineStep == UNCHANGED <<cpms, nodes, created, cacheVars, localVars>>
nodeStep    == UNCHANGED <<cpms, machines, created, cacheVars, localVars>>

RegisterNode(n) ==
    /\ n \in DOMAIN machines \ DOMAIN nodes /\ machines[n].phase = "Provisioning"
    /\ nodes' = [k \in DOMAIN nodes \cup {n} |-> IF k = n THEN "brief" ELSE nodes[k]]
    /\ nodeStep /\ UNCHANGED budget

LinkNode(n) ==
    /\ n \in DOMAIN machines \cap DOMAIN nodes /\ ~machines[n].nodeRef
    /\ machines' = [machines EXCEPT ![n].nodeRef = TRUE,
                                    ![n].phase = IF @ = "Provisioning" THEN "Running" ELSE @]
    /\ machineStep /\ UNCHANGED budget

NodeReady(n) ==
    /\ n \in DOMAIN nodes /\ nodes[n] # "ready"
    /\ nodes' = [nodes EXCEPT ![n] = "ready"]
    /\ nodeStep /\ UNCHANGED budget

(***************************************************************************)
(* A Node stops being ready, and later has been so for the grace period.   *)
(***************************************************************************)
NodeNotReady(n) ==
    /\ n \in DOMAIN nodes /\ nodes[n] # "unready" /\ spend("flaps")
    /\ nodes' = [nodes EXCEPT ![n] = IF @ = "ready" THEN "brief" ELSE "unready"]
    /\ nodeStep

(***************************************************************************)
(* A Machine goes Failed, with an error message.                           *)
(***************************************************************************)
MachineFails(n) ==
    /\ n \in DOMAIN machines /\ machines[n].phase \in {"Provisioning", "Running"}
    /\ spend("errors")
    /\ machines' = [machines EXCEPT ![n].phase = "Failed"]
    /\ machineStep

(***************************************************************************)
(* A deleted Machine goes Deleting; once the etcd operator lets go of its  *)
(* deletion hook its Node is drained and removed, and then the Machine.    *)
(* The hook holds until there are Replicas other healthy members.          *)
(***************************************************************************)
MarkDeleting(n) ==
    /\ n \in DOMAIN machines /\ machines[n].deleted /\ machines[n].phase # "Deleting"
    /\ machines' = [machines EXCEPT ![n].phase = "Deleting"]
    /\ machineStep /\ UNCHANGED budget

etcdAllowsRemoval(n) ==
    Cardinality({k \in DOMAIN nodes \ {n} : nodes[k] = "ready"}) >= Replicas

RemoveNode(n) ==
    /\ n \in DOMAIN machines \cap DOMAIN nodes /\ machines[n].phase = "Deleting"
    /\ etcdAllowsRemoval(n)
    /\ nodes' = Restrict(nodes, DOMAIN nodes \ {n})
    /\ nodeStep /\ UNCHANGED budget

RemoveMachine(n) ==
    /\ n \in DOMAIN machines \ DOMAIN nodes /\ machines[n].phase = "Deleting"
    /\ machines' = Restrict(machines, DOMAIN machines \ {n})
    /\ machineStep /\ UNCHANGED budget

(***************************************************************************)
(* Users edit the ControlPlaneMachineSet (the API keeps an Active one      *)
(* Active) and delete Machines.                                            *)
(***************************************************************************)
EditCPMS(spec) ==
    /\ spec # cpms /\ spend("edits")
    /\ cpms.state = "Active" => spec.state = "Active"
    /\ \A f \in {"template", "strategy", "state"} \ Editable : spec[f] = cpms[f]
    /\ cpms' = spec
    /\ UNCHANGED <<machines, nodes, created, cacheVars, localVars>>

UserDeletesMachine(n) ==
    /\ n \in DOMAIN machines /\ ~machines[n].deleted /\ spend("deletes")
    /\ machines' = DeleteMachine(machines, n)
    /\ machineStep

-----------------------------------------------------------------------------
Init ==
    /\ cpms = StartCPMS
    /\ machines = [n \in 1..Replicas |->
                     [index |-> StartMachines[n].index, spec |-> StartMachines[n].spec,
                      phase |-> "Running", nodeRef |-> TRUE, deleted |-> FALSE,
                      owner |-> StartMachines[n].owner]]
    /\ nodes = [n \in 1..Replicas |-> "ready"]
    /\ created = Replicas
    /\ cpmsCache = cpms /\ machineCache = machines /\ nodeCache = nodes
    /\ pc = "idle" /\ todo = {} /\ view = {} /\ surgeCount = 0 /\ seen = {}
    /\ template = cpms.template /\ strategy = cpms.strategy
    /\ degraded = "AsExpected"
    /\ budget = Bounds

ReconcileStep ==
    \/ Reconcile
    \/ \E m \in view : EnsureOwnerReference(m)
    \/ \E i \in todo : \/ \E m \in view : DeleteReplacedMachine(i, m)
                       \/ SkipIndex(i)
                       \/ CheckForExistingReplacement(i)
                       \/ CreateMachine(i)

MachineControllerStep(n) ==
    RegisterNode(n) \/ LinkNode(n) \/ NodeReady(n)
    \/ MarkDeleting(n) \/ RemoveNode(n) \/ RemoveMachine(n)

Next ==
    \/ ReconcileStep
    \/ AbortReconcile
    \/ SyncCPMS \/ SyncMachines \/ SyncNodes
    \/ \E n \in Names : \/ MachineControllerStep(n)
                        \/ NodeNotReady(n) \/ MachineFails(n) \/ UserDeletesMachine(n)
    \/ \E spec \in CPMSSpec : EditCPMS(spec)

Spec == Init /\ [][Next]_vars

(***************************************************************************)
(* Events, the 30 minute resync and the requeues start a reconcile again   *)
(* and again, and each runs to its end; informers deliver what they watch; *)
(* the machine controller and the kubelets provision and remove Machines.  *)
(* Nothing is assumed of users, failures or Nodes that stop being ready.   *)
(***************************************************************************)
Fairness ==
    /\ WF_vars(ReconcileStep)
    /\ WF_vars(SyncCPMS) /\ WF_vars(SyncMachines) /\ WF_vars(SyncNodes)
    /\ \A n \in Names : WF_vars(MachineControllerStep(n))

FairSpec == Spec /\ Fairness

-----------------------------------------------------------------------------
(***************************************************************************)
(* However stale the caches a reconcile read, two Machines that are not    *)
(* being deleted never share both index and provider config: the uncached  *)
(* check before a creation (createMachine) leaves no room for a duplicate  *)
(* replacement.                                                            *)
(***************************************************************************)
NoDuplicateReplacement ==
    \A m, n \in DOMAIN machines :
        /\ machines[m].index = machines[n].index
        /\ machines[m].spec = machines[n].spec
        /\ ~machines[m].deleted /\ ~machines[n].deleted
        => m = n

(***************************************************************************)
(* The control plane never has more than maxSurge Machines above its       *)
(* replicas (reconcileMachineRollingUpdate: "the surge is limited to a     *)
(* single Machine instance").                                              *)
(***************************************************************************)
SurgeWithinLimit == Cardinality(DOMAIN machines) <= Replicas + maxSurge

(***************************************************************************)
(* With caches of any age the limit is exceeded by no more than what a     *)
(* reconcile could not know: a Machine it creates brings the control plane *)
(* above the limit only by the Machines that the list the surge was        *)
(* counted from did not show (deviseExistingSurge, createMachineWithSurge).*)
(***************************************************************************)
CreatesWithinLimit ==
    [][created' > created /\ strategy = "RollingUpdate" =>
         Cardinality(DOMAIN machines')
            <= Replicas + maxSurge + Cardinality(DOMAIN machines \ seen)]_vars

(***************************************************************************)
(* What the API server would say of Machine n's readiness now.             *)
(***************************************************************************)
readyNow(n) ==
    machines[n].nodeRef /\ n \in DOMAIN nodes /\ isMachineReady(machines[n], nodes[n])

sameIndex(m, n) == machines[m].index = machines[n].index

(***************************************************************************)
(* Every index the cluster started with keeps a ready Machine that is not  *)
(* being deleted: in a roll-out the replacement is up before the Machine   *)
(* it replaces is given up, though the caches that say so lag              *)
(* (reconcileMachineRollingUpdate, deleteReplacedMachines).                *)
(***************************************************************************)
IndexesStayAvailable ==
    \A s \in 1..Replicas : \E n \in DOMAIN machines :
        machines[n].index = StartMachines[s].index /\ ~machines[n].deleted /\ readyNow(n)

(***************************************************************************)
(* Until users activate the ControlPlaneMachineSet the controller writes   *)
(* nothing to any Machine: no creation, no deletion, no owner reference    *)
(* ("When inactive, we don't want to modify the machines at all").         *)
(***************************************************************************)
InactiveIsReadOnly ==
    cpms.state = "Inactive" =>
        /\ created = Replicas
        /\ \A n \in DOMAIN machines :
              /\ machines[n].owner = StartMachines[n].owner
              /\ machines[n].deleted => budget["deletes"] < Bounds["deletes"]

(***************************************************************************)
(* With the OnDelete strategy an index has one Machine that is not being   *)
(* deleted at most: a replacement is created for a deleted Machine that    *)
(* has none yet (reconcileMachineOnDeleteUpdate).                          *)
(***************************************************************************)
OneLiveMachinePerIndex ==
    \A m, n \in DOMAIN machines :
        sameIndex(m, n) /\ ~machines[m].deleted /\ ~machines[n].deleted => m = n

-----------------------------------------------------------------------------
(***************************************************************************)
(* One ready Machine for each index, not being deleted, and nothing else.  *)
(***************************************************************************)
Complete ==
    /\ Cardinality(DOMAIN machines) = Replicas
    /\ \A m, n \in DOMAIN machines : sameIndex(m, n) => m = n
    /\ \A n \in DOMAIN machines : ~machines[n].deleted /\ readyNow(n)

UpToDate == Complete /\ \A n \in DOMAIN machines : machines[n].spec = cpms.template

(***************************************************************************)
(* Every roll-out ends: the Machines are brought to the template and stay  *)
(* there (reconcileMachineRollingUpdate).                                  *)
(***************************************************************************)
RolloutCompletes == <>[]UpToDate

(***************************************************************************)
(* Under OnDelete whatever users delete is replaced, before they activate  *)
(* the ControlPlaneMachineSet or after, and the control plane is complete  *)
(* again (reconcileMachineOnDeleteUpdate).                                 *)
(***************************************************************************)
DeletedIsReplaced == <>[](cpms.state = "Active") => <>[]Complete

(***************************************************************************)
(* A replacement that failed and is outdated since, because users fixed    *)
(* the template, is removed to make room for the next one                  *)
(* (deleteReplacedMachines: "the Machine should be deleted to make room    *)
(* for a third generation replacement machine").                           *)
(***************************************************************************)
FailedReplacementMakesRoom ==
    \A n \in Names :
        [](/\ n \in DOMAIN machines /\ machines[n].phase = "Failed"
           /\ machines[n].spec # cpms.template
           /\ \E k \in DOMAIN machines \ {n} : sameIndex(k, n)
           => <>(\/ n \notin DOMAIN machines
                 \/ machines[n].deleted
                 \/ machines[n].spec = cpms.template))

(***************************************************************************)
(* Once Active, the ControlPlaneMachineSet comes to control every Machine  *)
(* (ensureOwnerReferences), though patches fail and Machines come and go.  *)
(***************************************************************************)
AdoptionCompletes ==
    (cpms.state = "Active") ~> [](\A n \in DOMAIN machines : machines[n].owner = "cpms")

=============================================================================
