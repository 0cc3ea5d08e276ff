--------------------------- MODULE OperatorStatus ---------------------------
(***************************************************************************)
(* What the operator reports, and when it looks again: the status of the   *)
(* ControlPlaneMachineSet (status.go), the ClusterOperator that mirrors it *)
(* (cluster_operator.go), the tracking of repeated errors (setLastError),  *)
(* and the events that put the one request into the work queue             *)
(* (SetupWithManager, pkg/util/watch_filters.go).                          *)
(*                                                                         *)
(* A reconcile reads its caches, writes the status and then the            *)
(* ClusterOperator, each write only when it changes something and only on  *)
(* top of the version that was read.  The control plane is a shape and a   *)
(* Node state for each index; what a reconcile does to it is left open.    *)
(***************************************************************************)
EXTENDS ClusterValidation

CONSTANTS
    maxContinuousErrors,   \* equal errors in a row that make a condition
    Bounds                 \* bound: how often each event, and any of them,
                           \*   may happen

Event == {"machines", "nodes", "faults", "conflicts", "edits", "overwrites",
          "restarts", "any"}

ASSUME StatusAssumption == /\ maxContinuousErrors \in Nat \ {0}
                           /\ Bounds \in [Event -> Nat]

Indexes == 0..(Replicas - 1)

(***************************************************************************)
(* The Machines of an index: none, one, or an outdated ready one with its  *)
(* replacement.  node is the Node of the updated Machine, if there is one, *)
(* else of the outdated one; "brief" is not ready within the grace period. *)
(***************************************************************************)
Shape == {"absent", "outdated", "updated", "both", "failed"}
NodeState == {"ready", "brief", "unready"}
World == [Indexes -> [shape : Shape, node : NodeState]]

machineOf(i, updated, ready, failed) ==
    [name |-> 2 * i + (IF updated THEN 1 ELSE 0), index |-> i, ready |-> ready,
     needsUpdate |-> ~updated, deleted |-> FALSE, failed |-> failed,
     hasNode |-> ~failed, owner |-> "cpms"]

infosOfIndex(w, i) ==
    LET ready == w[i].node \in {"ready", "brief"}
    IN  CASE w[i].shape = "absent"   -> {}
          [] w[i].shape = "outdated" -> {machineOf(i, FALSE, ready, FALSE)}
          [] w[i].shape = "updated"  -> {machineOf(i, TRUE, ready, FALSE)}
          [] w[i].shape = "both"     -> {machineOf(i, FALSE, TRUE, FALSE),
                                         machineOf(i, TRUE, ready, FALSE)}
          [] w[i].shape = "failed"   -> {machineOf(i, FALSE, TRUE, FALSE),
                                         machineOf(i, TRUE, FALSE, TRUE)}

infosOf(w) == UNION {infosOfIndex(w, i) : i \in Indexes}

nodesOf(w) == {m.name : m \in {n \in infosOf(w) : n.hasNode}}

(***************************************************************************)
(* A condition is its reason, which tells its status, and the number its   *)
(* message gives.  "" is the reason of one that was never set, and         *)
(* "Overwritten" what somebody else writes.                                *)
(***************************************************************************)
Reason == DegradedReason \cup
    {"", "AllReplicasAvailable", "UnavailableReplicas", "NeedsUpdateReplicas",
     "ExcessReplicas", "AllReplicasUpdated", "OperatorDegraded", "Overwritten"}

Condition == [reason : Reason, count : Nat]
condition(reason, count) == [reason |-> reason, count |-> count]
unset == condition("", 0)

Status == [replicas : Nat, readyReplicas : Nat, updatedReplicas : Nat,
           unavailableReplicas : Nat, available : Condition, degraded : Condition,
           progressing : Condition, error : BOOLEAN]

noStatus == [replicas |-> 0, readyReplicas |-> 0, updatedReplicas |-> 0,
             unavailableReplicas |-> 0, available |-> unset, degraded |-> unset,
             progressing |-> unset, error |-> FALSE]

CPMS == [exists : BOOLEAN, active : BOOLEAN, finalizer : BOOLEAN, status : Status]

Operator == [available : Condition, degraded : Condition, progressing : Condition,
             upgradeable : BOOLEAN]

Error == {"none", "infos", "validate", "updates", "conflict"}

VARIABLES
    world,         \* the control plane
    cpms,          \* the ControlPlaneMachineSet at the API server
    co,            \* the ClusterOperator at the API server
    worldCache, cpmsCache, coCache,   \* what the informers hold of them
    fault,         \* the error the calls of a reconcile run into, or "none"
    queued,        \* the request is in the work queue
    pc,            \* where the reconcile in flight stands
    base, copy,    \* the object it read, and that object as it changed it
    held,          \* the version at the API server that its copy stands for
    erred,         \* it will return an error, or asks to be requeued
    lastError,     \* the tracker: last error and how often in a row
    unseen,        \* history: a change without event since the last read
    streak,        \* history: equal errors in a row, whoever counts them
    budget         \* what is left of Bounds

serverVars == <<world, cpms, co>>
cacheVars  == <<worldCache, cpmsCache, coCache>>
localVars  == <<pc, base, copy, held, erred, lastError>>
vars       == <<serverVars, cacheVars, fault, queued, localVars, unseen, streak, budget>>

Tracker == [error : Error, count : 0..maxContinuousErrors]
noError == [error |-> "none", count |-> 0]

(***************************************************************************)
(* Every variable has its type.                                            *)
(***************************************************************************)
TypeOK ==
    /\ world \in World /\ worldCache \in World
    /\ \A c \in {cpms, cpmsCache, base, copy, held} : c \in CPMS
    /\ co \in Operator /\ coCache \in Operator
    /\ fault \in Error /\ queued \in BOOLEAN /\ erred \in BOOLEAN
    /\ pc \in {"idle", "status", "operator"}
    /\ lastError \in Tracker /\ streak \in Tracker
    /\ unseen \in BOOLEAN /\ budget \in [Event -> Nat]

spend(e) ==
    /\ budget[e] > 0 /\ budget["any"] > 0
    /\ budget' = [budget EXCEPT ![e] = @ - 1, !["any"] = @ - 1]

-----------------------------------------------------------------------------
(***************************************************************************)
(* The status a reconcile computes.                                        *)
(***************************************************************************)
unavailableIndexes(ms) ==
    {i \in machineInfosByIndex(ms) : readyMachines(ofIndex(ms, i)) = {}}

getAvailableCondition(s) ==
    IF s.unavailableReplicas # 0
    THEN condition("UnavailableReplicas", s.unavailableReplicas)
    ELSE condition("AllReplicasAvailable", 0)

(***************************************************************************)
(* A bug: the difference the other way round.                              *)
(***************************************************************************)
getProgressingConditionNegated(s) ==
    IF Replicas > s.updatedReplicas
    THEN condition("NeedsUpdateReplicas", Replicas - s.updatedReplicas)
    ELSE IF Replicas < s.readyReplicas
    THEN condition("ExcessReplicas", s.updatedReplicas - s.readyReplicas)
    ELSE condition("AllReplicasUpdated", 0)

getProgressingCondition(s) ==
    IF Replicas > s.updatedReplicas
    THEN condition("NeedsUpdateReplicas", Replicas - s.updatedReplicas)
    ELSE IF Replicas < s.readyReplicas
    THEN condition("ExcessReplicas", s.readyReplicas - s.updatedReplicas)
    ELSE condition("AllReplicasUpdated", 0)

(***************************************************************************)
(* The counts, and the conditions of setConditions.                        *)
(***************************************************************************)
countsOf(ms) ==
    [noStatus EXCEPT !.replicas = Cardinality(ms),
                     !.readyReplicas = statusReadyReplicas(ms),
                     !.updatedReplicas = Cardinality(updatedMachines(ms)),
                     !.unavailableReplicas = Cardinality(unavailableIndexes(ms))]

reconcileStatusWithMachineInfo(ms, error) ==
    [countsOf(ms) EXCEPT !.available = getAvailableCondition(countsOf(ms)),
                         !.degraded = condition(getDegradedCondition(ms), 0),
                         !.progressing = getProgressingCondition(countsOf(ms)),
                         !.error = error]

(***************************************************************************)
(* A check of validateClusterState that fails sets two of them; when none  *)
(* does, those of setConditions stay.                                      *)
(***************************************************************************)
failsCheck(ms, reason) ==
    \/ reason \notin {"AsExpected", "NoReadyMachines"}
    \/ ~checkReadyControlPlaneMachineExists(ms)

withClusterState(status, ms, nodeNames) ==
    LET reason == validateClusterState(ms, nodeNames, "RollingUpdate")
    IN  IF failsCheck(ms, reason)
        THEN [status EXCEPT !.degraded = condition(reason, 0),
                            !.progressing = condition("OperatorDegraded", 0)]
        ELSE status

statusOf(w, error) ==
    withClusterState(reconcileStatusWithMachineInfo(infosOf(w), error), infosOf(w), nodesOf(w))

(***************************************************************************)
(* setLastError; the count saturates where nothing depends on it any more. *)
(* Two bugs: every error is new, as when errors are compared and not their *)
(* messages; a different error does not start a new count.                 *)
(***************************************************************************)
counted(t) == [t EXCEPT !.count = IF @ < maxContinuousErrors THEN @ + 1 ELSE @]

setLastErrorByIdentity(t, err) ==
    IF err = "none" THEN noError ELSE [error |-> err, count |-> 1]

setLastErrorOfAnyKind(t, err) ==
    IF err = "none" THEN noError ELSE counted([t EXCEPT !.error = err])

setLastError(t, err) ==
    IF err = "none" THEN noError
    ELSE IF t.error = err THEN counted(t)
    ELSE [error |-> err, count |-> 1]

getErrorCondition(t) == t.count >= maxContinuousErrors

(***************************************************************************)
(* The ClusterOperator's conditions.  Only conditions that are set are     *)
(* copied; the Error condition never is.                                   *)
(***************************************************************************)
setClusterOperatorAvailable ==
    [available |-> condition("AsExpected", 0), progressing |-> condition("AsExpected", 0),
     degraded |-> condition("AsExpected", 0), upgradeable |-> TRUE]

updateClusterOperatorStatus(o, s) ==
    LET copied(old, new) == IF new = unset THEN old ELSE new
    IN  [available   |-> copied(o.available, s.available),
         progressing |-> copied(o.progressing, s.progressing),
         degraded    |-> copied(o.degraded, s.degraded),
         upgradeable |-> s.available.reason = "AllReplicasAvailable"]

isActive(c) == c.exists /\ c.active

(***************************************************************************)
(* A bug: an operator that is not active leaves what it last reported.     *)
(***************************************************************************)
operatorForActiveOnly(c, o) ==
    IF isActive(c) THEN updateClusterOperatorStatus(o, c.status) ELSE o

operatorFor(c, o) == IF isActive(c) THEN updateClusterOperatorStatus(o, c.status)
                                    ELSE setClusterOperatorAvailable

-----------------------------------------------------------------------------
(***************************************************************************)
(* The reconcile.                                                          *)
(***************************************************************************)

(***************************************************************************)
(* What reconcile() makes of the status and the error it returns, from the *)
(* calls that fail.  Without the infos the status stays as it was.  The    *)
(* Nodes are listed by the second check of validateClusterState, when      *)
(* there is a ready Machine; failing there leaves the status as the first  *)
(* of its two steps set it.  Machines are only touched when Active and not *)
(* Degraded.                                                               *)
(***************************************************************************)
cannotValidate(w) == fault = "validate" /\ checkReadyControlPlaneMachineExists(infosOf(w))

statusAfter(c, w) ==
    IF fault = "infos" THEN c.status
    ELSE IF cannotValidate(w) THEN reconcileStatusWithMachineInfo(infosOf(w), c.status.error)
    ELSE statusOf(w, c.status.error)

errorOf(c, w) ==
    IF \/ fault = "validate" /\ ~cannotValidate(w)
       \/ /\ fault = "updates"
          /\ ~c.active \/ isControlPlaneMachineSetDegraded(statusAfter(c, w).degraded.reason)
    THEN "none" ELSE fault

tracks(err) ==
    /\ lastError' = setLastError(lastError, err)
    /\ streak' = IF err = "none" THEN noError
                 ELSE IF streak.error = err THEN counted(streak)
                 ELSE [error |-> err, count |-> 1]

dequeues == pc = "idle" /\ queued /\ queued' = FALSE /\ unseen' = FALSE

(***************************************************************************)
(* No ControlPlaneMachineSet in the cache.                                 *)
(***************************************************************************)
ReconcileAbsent ==
    /\ dequeues /\ ~cpmsCache.exists
    /\ pc' = "operator" /\ erred' = FALSE
    /\ base' = cpmsCache /\ copy' = cpmsCache /\ held' = cpmsCache
    /\ UNCHANGED <<serverVars, cacheVars, fault, lastError, streak, budget>>

(***************************************************************************)
(* ensureFinalizer, and the requeue that follows; the Update fails on a    *)
(* stale copy.  The copy has the finalizer either way and base has not, so *)
(* the status will be written, on top of the Update if there was one.      *)
(***************************************************************************)
ReconcileFinalizer ==
    /\ dequeues /\ cpmsCache.exists /\ ~cpmsCache.finalizer
    /\ LET new == [cpmsCache EXCEPT !.finalizer = TRUE]
           ok  == cpms = cpmsCache
       IN  /\ cpms' = IF ok THEN new ELSE cpms
           /\ held' = IF ok THEN new ELSE cpmsCache
           /\ tracks(IF ok THEN "none" ELSE "conflict")
           /\ copy' = [new EXCEPT !.status.error = getErrorCondition(lastError')]
    /\ base' = cpmsCache /\ pc' = "status" /\ erred' = TRUE
    /\ UNCHANGED <<world, co, cacheVars, fault, budget>>

(***************************************************************************)
(* The rest of reconcile().                                                *)
(***************************************************************************)
ReconcileMachines ==
    /\ dequeues /\ cpmsCache.exists /\ cpmsCache.finalizer
    /\ tracks(errorOf(cpmsCache, worldCache))
    /\ copy' = [cpmsCache EXCEPT !.status = [statusAfter(cpmsCache, worldCache) EXCEPT
                  !.error = getErrorCondition(lastError')]]
    /\ erred' = (errorOf(cpmsCache, worldCache) # "none")
    /\ base' = cpmsCache /\ held' = cpmsCache /\ pc' = "status"
    /\ UNCHANGED <<serverVars, cacheVars, fault, budget>>

(***************************************************************************)
(* updateControlPlaneMachineSetStatus: a write when the copy differs from  *)
(* what was read.  A refusal is an error, and the reconcile goes on.       *)
(***************************************************************************)
UpdateStatus ==
    /\ pc = "status" /\ pc' = "operator"
    /\ \/ copy = base /\ UNCHANGED <<cpms, erred, budget>>
       \/ copy # base /\ cpms = held /\ cpms' = [cpms EXCEPT !.status = copy.status]
          /\ UNCHANGED <<erred, budget>>
       \/ copy # base /\ cpms # held /\ erred' = TRUE /\ UNCHANGED <<cpms, budget>>
       \/ copy # base /\ spend("conflicts") /\ erred' = TRUE /\ UNCHANGED cpms
    /\ UNCHANGED <<world, co, cacheVars, fault, queued, base, copy, held, lastError, unseen,
                   streak>>

(***************************************************************************)
(* Errors, those of the two status writes included, put the request back   *)
(* into the queue.  The bug: those of the writes are only logged.          *)
(***************************************************************************)
requeuesReconcileErrors(failed) == erred

requeues(failed) == erred \/ failed

UpdateOperator ==
    /\ pc = "operator" /\ pc' = "idle" /\ erred' = FALSE
    /\ base' = cpmsCache /\ copy' = cpmsCache /\ held' = cpmsCache
    /\ LET want == operatorFor(copy, coCache)
       IN  \/ /\ want = coCache \/ (co = coCache /\ want # coCache)
              /\ co' = IF want = coCache THEN co ELSE want
              /\ queued' = (queued \/ requeues(FALSE)) /\ UNCHANGED budget
           \/ /\ want # coCache /\ co # coCache
              /\ queued' = (queued \/ requeues(TRUE)) /\ UNCHANGED <<co, budget>>
           \/ /\ want # coCache /\ spend("conflicts")
              /\ queued' = (queued \/ requeues(TRUE)) /\ UNCHANGED co
    /\ UNCHANGED <<world, cpms, cacheVars, fault, lastError, unseen, streak>>

-----------------------------------------------------------------------------
(***************************************************************************)
(* The informers (external) deliver what changed, and the filters decide   *)
(* whether that is an event for the controller.                            *)
(***************************************************************************)
isReady(node) == node = "ready"

(***************************************************************************)
(* updateFuncFilterControlPlaneNodes: the Ready condition changed.         *)
(***************************************************************************)
FilterControlPlaneNodes(old, new) == isReady(new) # isReady(old)

(***************************************************************************)
(* FilterControlPlaneMachines lets every change of a control plane Machine *)
(* through.                                                                *)
(***************************************************************************)
FilterControlPlaneMachines(old, new) == old # new

(***************************************************************************)
(* A Node that was ready for a while the informer missed (its watch was    *)
(* interrupted) is not ready as before: the filter sees no change, though  *)
(* the grace period started anew.                                          *)
(***************************************************************************)
missedReady(i) == worldCache[i].node = "unready" /\ world[i].node = "brief"

SyncWorld ==
    /\ worldCache # world /\ worldCache' = world
    /\ queued' = \/ queued
                 \/ \E i \in Indexes :
                      \/ FilterControlPlaneMachines(worldCache[i].shape, world[i].shape)
                      \/ FilterControlPlaneNodes(worldCache[i].node, world[i].node)
    /\ unseen' = (unseen \/ \E i \in Indexes : missedReady(i))
    /\ UNCHANGED <<serverVars, cpmsCache, coCache, fault, localVars, streak, budget>>

SyncCPMS ==
    /\ cpmsCache # cpms /\ cpmsCache' = cpms /\ queued' = TRUE
    /\ UNCHANGED <<serverVars, worldCache, coCache, fault, localVars, unseen, streak, budget>>

SyncOperator ==
    /\ coCache # co /\ coCache' = co /\ queued' = TRUE
    /\ UNCHANGED <<serverVars, worldCache, cpmsCache, fault, localVars, unseen, streak, budget>>

(***************************************************************************)
(* Every 30 minutes the caches deliver all they hold once more (main.go).  *)
(***************************************************************************)
Resync ==
    /\ ~queued /\ queued' = TRUE
    /\ UNCHANGED <<serverVars, cacheVars, fault, localVars, unseen, streak, budget>>

(***************************************************************************)
(* The process stops and starts again: the tracker is gone, and everything *)
(* is read anew.                                                           *)
(***************************************************************************)
Restart ==
    /\ spend("restarts")
    /\ pc' = "idle" /\ erred' = FALSE /\ queued' = TRUE
    /\ lastError' = noError /\ streak' = noError
    /\ worldCache' = world /\ cpmsCache' = cpms /\ coCache' = co
    /\ base' = cpms /\ copy' = cpms /\ held' = cpms
    /\ UNCHANGED <<serverVars, fault, unseen>>

(***************************************************************************)
(* The cluster (external).                                                 *)
(***************************************************************************)
outside == UNCHANGED <<cacheVars, queued, localVars, streak>>

MachinesChange(i, shape) ==
    /\ spend("machines") /\ shape # world[i].shape
    /\ world' = [world EXCEPT ![i].shape = shape]
    /\ outside /\ UNCHANGED <<cpms, co, fault, unseen>>

NodeFlips(i) ==
    /\ spend("nodes")
    /\ world' = [world EXCEPT ![i].node = IF @ = "ready" THEN "brief" ELSE "ready"]
    /\ outside /\ UNCHANGED <<cpms, co, fault, unseen>>

(***************************************************************************)
(* The grace period ends.  No object changes, only the time.               *)
(***************************************************************************)
GraceExpires(i) ==
    LET late(w) == IF w[i].node = "brief" THEN [w EXCEPT ![i].node = "unready"] ELSE w
    IN  /\ world[i].node = "brief"
        /\ world' = late(world) /\ worldCache' = late(worldCache)
        /\ unseen' = TRUE
        /\ UNCHANGED <<cpms, co, cpmsCache, coCache, fault, queued, localVars, streak, budget>>

FaultChanges(f) ==
    /\ spend("faults") /\ f # fault /\ fault' = f /\ unseen' = TRUE
    /\ outside /\ UNCHANGED serverVars

(***************************************************************************)
(* The ControlPlaneMachineSet is created, activated or removed (how it is  *)
(* removed is the business of ControlPlaneMachineSetLifecycle); somebody   *)
(* else writes the ClusterOperator.                                        *)
(***************************************************************************)
noCPMS == [exists |-> FALSE, active |-> FALSE, finalizer |-> FALSE, status |-> noStatus]

CPMSChanges ==
    /\ spend("edits")
    /\ \/ ~cpms.exists /\ \E a \in BOOLEAN :
             cpms' = [noCPMS EXCEPT !.exists = TRUE, !.active = a]
       \/ cpms.exists /\ ~cpms.active /\ cpms' = [cpms EXCEPT !.active = TRUE]
       \/ cpms.exists /\ cpms' = noCPMS
    /\ outside /\ UNCHANGED <<world, co, fault, unseen>>

OperatorOverwritten ==
    /\ spend("overwrites")
    /\ co' = [co EXCEPT !.degraded = condition("Overwritten", budget["overwrites"])]
    /\ outside /\ UNCHANGED <<world, cpms, fault, unseen>>

-----------------------------------------------------------------------------
(***************************************************************************)
(* A cluster that is up, its ControlPlaneMachineSet just created.          *)
(***************************************************************************)
Init ==
    /\ world = [i \in Indexes |-> [shape |-> "updated", node |-> "ready"]]
    /\ cpms = [noCPMS EXCEPT !.exists = TRUE, !.active = TRUE]
    /\ co = setClusterOperatorAvailable
    /\ worldCache = world /\ cpmsCache = cpms /\ coCache = co
    /\ fault = "none" /\ queued = TRUE
    /\ pc = "idle" /\ base = cpms /\ copy = cpms /\ held = cpms /\ erred = FALSE
    /\ lastError = noError /\ streak = noError /\ unseen = FALSE
    /\ budget = Bounds

ReconcileStep == \/ ReconcileAbsent \/ ReconcileFinalizer \/ ReconcileMachines
                 \/ UpdateStatus \/ UpdateOperator

Next ==
    \/ ReconcileStep \/ SyncWorld \/ SyncCPMS \/ SyncOperator \/ Resync \/ Restart
    \/ \E i \in Indexes : \/ \E s \in Shape : MachinesChange(i, s)
                          \/ NodeFlips(i) \/ GraceExpires(i)
    \/ \E f \in Error \ {"conflict"} : FaultChanges(f)
    \/ CPMSChanges \/ OperatorOverwritten

Spec == Init /\ [][Next]_vars

(***************************************************************************)
(* The queue is worked off, the informers deliver, the resync comes.       *)
(***************************************************************************)
FairSpec ==
    /\ Spec
    /\ WF_vars(ReconcileStep) /\ WF_vars(Resync)
    /\ WF_vars(SyncWorld) /\ WF_vars(SyncCPMS) /\ WF_vars(SyncOperator)

-----------------------------------------------------------------------------
(***************************************************************************)
(* What the ControlPlaneMachineSet and the ClusterOperator should say.     *)
(***************************************************************************)
statusIsCurrent ==
    cpms.exists => /\ cpms.finalizer
                   /\ cpms.status = statusOf(world, cpms.status.error)

operatorIsCurrent ==
    LET shows(old, new) == new = unset \/ old = new
        healthy == condition("AsExpected", 0)
    IN  IF cpms.exists /\ cpms.active
        THEN /\ shows(co.available, cpms.status.available)
             /\ shows(co.progressing, cpms.status.progressing)
             /\ shows(co.degraded, cpms.status.degraded)
             /\ co.upgradeable <=> cpms.status.available.reason = "AllReplicasAvailable"
        ELSE /\ {co.available, co.progressing, co.degraded} = {healthy}
             /\ co.upgradeable

(***************************************************************************)
(* No wake-up is lost: whenever the controller has nothing to do and its   *)
(* caches are up to date, both reports are right, though writes were       *)
(* refused, events filtered and the process restarted.  A grace period     *)
(* that ran out or, unnoticed, started anew and calls that began to fail   *)
(* give no event; they are left to the resync.                             *)
(***************************************************************************)
NoLostWakeup ==
    /\ pc = "idle" /\ ~queued /\ ~unseen
    /\ worldCache = world /\ cpmsCache = cpms /\ coCache = co
    => statusIsCurrent /\ operatorIsCurrent

(***************************************************************************)
(* Both reports settle on the truth, unless the Machines or the Nodes      *)
(* cannot be read for ever (updateControlPlaneMachineSetStatus,            *)
(* updateClusterOperatorStatus, SyncPeriod).                               *)
(***************************************************************************)
ReportsSettle == <>[](operatorIsCurrent /\ (fault \notin {"infos", "validate"} => statusIsCurrent))

(***************************************************************************)
(* The Error condition becomes True on the maxContinuousErrors-th equal    *)
(* error in a row, never before (getErrorCondition, setLastError).         *)
(***************************************************************************)
ErrorNeedsRepetition ==
    [][~cpms.status.error /\ cpms'.status.error => streak.count >= maxContinuousErrors]_vars

(***************************************************************************)
(* The Error condition settles: True when the calls keep failing, False    *)
(* when they work (setLastError; a status write may be refused on the way, *)
(* or the operator restart).                                               *)
(***************************************************************************)
ErrorSettles ==
    <>[](/\ cpms.exists /\ fault = "none" => ~cpms.status.error
         /\ cpms.exists /\ (fault = "infos" \/ cannotValidate(world)) => cpms.status.error)

=============================================================================
