------------------------ MODULE OperatorStatusProofs ------------------------
(***************************************************************************)
(* Proofs about OperatorStatus, for every number of replicas, every limit  *)
(* of the error tracker and every bound on the outside events.             *)
(***************************************************************************)
EXTENDS OperatorStatus, FiniteSetTheorems, TLAPS

-----------------------------------------------------------------------------
(***************************************************************************)
(* Lemmas about the operators.                                             *)
(***************************************************************************)

(***************************************************************************)
(* The Machines of a control plane are finitely many, and each has the     *)
(* index it is listed under.                                               *)
(***************************************************************************)
LEMMA InfosOfIndex ==
    ASSUME NEW w \in World, NEW i \in Indexes
    PROVE  /\ IsFiniteSet(infosOfIndex(w, i))
           /\ \A m \in infosOfIndex(w, i) : m.index = i
<1>1. w[i].shape \in Shape
  BY DEF World
<1>2. ASSUME NEW a, NEW b
      PROVE  IsFiniteSet({}) /\ IsFiniteSet({a}) /\ IsFiniteSet({a, b})
  <2>1. IsFiniteSet({a} \cup {b})
    BY FS_Singleton, FS_Union
  <2>2. {a} \cup {b} = {a, b}
    OBVIOUS
  <2> QED
    BY <2>1, <2>2, FS_EmptySet, FS_Singleton
<1>3. IsFiniteSet(infosOfIndex(w, i))
  BY <1>1, <1>2 DEF infosOfIndex, Shape
<1>4. ASSUME NEW m \in infosOfIndex(w, i)
      PROVE  m.index = i
  <2>1. \A u, r, f : machineOf(i, u, r, f).index = i
    BY DEF machineOf
  <2>2. \E u, r, f : m = machineOf(i, u, r, f)
    BY <1>1, <1>4, Zenon DEF infosOfIndex, Shape
  <2> QED
    BY <2>1, <2>2
<1> QED
  BY <1>3, <1>4

LEMMA InfosAreFinite ==
    ASSUME NEW w \in World
    PROVE  /\ IsFiniteSet(infosOf(w))
           /\ \A m \in infosOf(w) : m.index \in Indexes
<1> DEFINE ofIdx == [i \in Indexes |-> infosOfIndex(w, i)]
           T     == {ofIdx[i] : i \in Indexes}
<1>1. ofIdx \in Surjection(Indexes, T)
  BY DEF Surjection
<1>2. IsFiniteSet(Indexes)
  BY FS_Interval, ReplicasAssumption DEF Indexes
<1>3. IsFiniteSet(T)
  <2> HIDE DEF ofIdx, T
  <2> QED
    BY <1>1, <1>2, FS_Surjection
<1>4. \A S \in T : IsFiniteSet(S)
  BY InfosOfIndex
<1>5. infosOf(w) = UNION T
  BY DEF infosOf
<1>6. IsFiniteSet(UNION T)
  <2> HIDE DEF ofIdx, T
  <2> QED
    BY <1>3, <1>4, FS_UNION
<1>7. ASSUME NEW m \in infosOf(w)
      PROVE  m.index \in Indexes
  <2>1. PICK i \in Indexes : m \in infosOfIndex(w, i)
    BY <1>7 DEF infosOf
  <2> QED
    BY <2>1, InfosOfIndex
<1> HIDE DEF T
<1> QED
  BY <1>5, <1>6, <1>7

(***************************************************************************)
(* No index beyond the replicas is considered.                             *)
(***************************************************************************)
LEMMA UnavailableAreFinite ==
    ASSUME NEW w \in World
    PROVE  IsFiniteSet(unavailableIndexes(infosOf(w)))
<1>1. unavailableIndexes(infosOf(w)) \in SUBSET Indexes
  BY InfosAreFinite DEF unavailableIndexes, machineInfosByIndex, Indexes
<1>2. IsFiniteSet(Indexes)
  BY FS_Interval, ReplicasAssumption DEF Indexes
<1> QED
  BY <1>1, <1>2, FS_Subset

(***************************************************************************)
(* The status a reconcile computes is one: each of its counts is the size  *)
(* of a finite set, and no Machine is up to date that is not ready, so the *)
(* surplus it announces is not negative.                                   *)
(***************************************************************************)
LEMMA CountsAreNatural ==
    ASSUME NEW w \in World
    PROVE  /\ Cardinality(infosOf(w)) \in Nat
           /\ statusReadyReplicas(infosOf(w)) \in Nat
           /\ Cardinality(updatedMachines(infosOf(w))) \in Nat
           /\ Cardinality(unavailableIndexes(infosOf(w))) \in Nat
           /\ Cardinality(updatedMachines(infosOf(w))) <= statusReadyReplicas(infosOf(w))
<1> DEFINE ms == infosOf(w)
<1>1. IsFiniteSet(ms)
  BY InfosAreFinite
<1> HIDE DEF ms
<1>2. readyMachines(ms) \in SUBSET ms /\ updatedMachines(ms) \in SUBSET readyMachines(ms)
  BY DEF readyMachines, updatedMachines
<1>3. IsFiniteSet(readyMachines(ms))
  BY <1>1, <1>2, FS_Subset
<1>4. /\ IsFiniteSet(updatedMachines(ms))
      /\ Cardinality(updatedMachines(ms)) <= Cardinality(readyMachines(ms))
  BY <1>2, <1>3, FS_Subset
<1>5. /\ Cardinality(ms) \in Nat /\ Cardinality(readyMachines(ms)) \in Nat
      /\ Cardinality(updatedMachines(ms)) \in Nat
  BY <1>1, <1>3, <1>4, FS_CardinalityType
<1>6. Cardinality(unavailableIndexes(infosOf(w))) \in Nat
  BY UnavailableAreFinite, FS_CardinalityType
<1> QED
  BY <1>4, <1>5, <1>6 DEF statusReadyReplicas, ms

LEMMA CountsTyped ==
    ASSUME NEW w \in World
    PROVE  /\ countsOf(infosOf(w)) \in Status
           /\ countsOf(infosOf(w)).updatedReplicas <= countsOf(infosOf(w)).readyReplicas
  BY CountsAreNatural DEF countsOf, noStatus, Status, Condition, Reason, unset, condition

LEMMA InfoStatusIsOne ==
    ASSUME NEW w \in World, NEW e \in BOOLEAN
    PROVE  /\ reconcileStatusWithMachineInfo(infosOf(w), e) \in Status
           /\ reconcileStatusWithMachineInfo(infosOf(w), e).error = e
           /\ reconcileStatusWithMachineInfo(infosOf(w), e).degraded.reason # "Overwritten"
<1> DEFINE ms     == infosOf(w)
           counts == countsOf(ms)
<1>1. counts \in Status /\ counts.updatedReplicas <= counts.readyReplicas
  BY CountsTyped
<1>2. condition(getDegradedCondition(ms), 0) \in Condition
  BY DEF getDegradedCondition, condition, Condition, Reason, DegradedReason
<1>3. condition(getDegradedCondition(ms), 0).reason # "Overwritten"
  BY DEF getDegradedCondition, condition
<1>4. reconcileStatusWithMachineInfo(ms, e) =
        [counts EXCEPT !.available = getAvailableCondition(counts),
                       !.degraded = condition(getDegradedCondition(ms), 0),
                       !.progressing = getProgressingCondition(counts),
                       !.error = e]
  BY DEF reconcileStatusWithMachineInfo
<1> HIDE DEF counts, ms
<1>5. /\ counts.readyReplicas \in Nat /\ counts.updatedReplicas \in Nat
      /\ counts.unavailableReplicas \in Nat
  BY <1>1 DEF Status
<1>6. getAvailableCondition(counts) \in Condition
  BY <1>5 DEF getAvailableCondition, Condition, Reason, condition
<1>7. getProgressingCondition(counts) \in Condition
  <2>1. Replicas > counts.updatedReplicas => Replicas - counts.updatedReplicas \in Nat
    BY <1>5, ReplicasAssumption
  <2>2. counts.readyReplicas - counts.updatedReplicas \in Nat
    BY <1>1, <1>5
  <2> QED
    BY <2>1, <2>2 DEF getProgressingCondition, Condition, Reason, condition
<1>8. /\ reconcileStatusWithMachineInfo(ms, e) \in Status
      /\ reconcileStatusWithMachineInfo(ms, e).error = e
      /\ reconcileStatusWithMachineInfo(ms, e).degraded = condition(getDegradedCondition(ms), 0)
  BY <1>1, <1>2, <1>4, <1>6, <1>7 DEF Status
<1> QED
  BY <1>3, <1>8 DEF ms

LEMMA StatusIsOne ==
    ASSUME NEW w \in World, NEW e \in BOOLEAN
    PROVE  /\ statusOf(w, e) \in Status
           /\ statusOf(w, e).error = e
           /\ statusOf(w, e).degraded.reason # "Overwritten"
<1> DEFINE ms     == infosOf(w)
           status == reconcileStatusWithMachineInfo(ms, e)
           reason == validateClusterState(ms, nodesOf(w), "RollingUpdate")
<1>1. condition(reason, 0) \in Condition /\ condition(reason, 0).reason # "Overwritten"
  BY DEF validateClusterState, getDegradedCondition, Reason, DegradedReason, condition, Condition
<1>2. condition("OperatorDegraded", 0) \in Condition
  BY DEF Condition, Reason, condition
<1>3. /\ status \in Status /\ status.error = e
      /\ status.degraded.reason # "Overwritten"
  BY InfoStatusIsOne
<1>4. \/ statusOf(w, e) = status
      \/ statusOf(w, e) = [status EXCEPT !.degraded = condition(reason, 0),
                                        !.progressing = condition("OperatorDegraded", 0)]
  BY DEF statusOf, withClusterState
<1> HIDE DEF ms, status, reason
<1> QED
  BY <1>1, <1>2, <1>3, <1>4 DEF Status

(***************************************************************************)
(* The verdict of the error tracker is all that the Error condition adds.  *)
(***************************************************************************)
LEMMA OnlyTheErrorDiffers ==
    ASSUME NEW w \in World, NEW d \in BOOLEAN, NEW e \in BOOLEAN
    PROVE  [statusOf(w, d) EXCEPT !.error = e] = statusOf(w, e)
<1> DEFINE ms        == infosOf(w)
           status(x) == reconcileStatusWithMachineInfo(ms, x)
           reason    == validateClusterState(ms, nodesOf(w), "RollingUpdate")
           failed    == failsCheck(ms, reason)
           counts    == countsOf(ms)
<1>1. counts \in Status
  BY CountsTyped
<1>2. \A x : status(x) = [counts EXCEPT !.available = getAvailableCondition(counts),
                                        !.degraded = condition(getDegradedCondition(ms), 0),
                                        !.progressing = getProgressingCondition(counts),
                                        !.error = x]
  BY DEF reconcileStatusWithMachineInfo
<1>3. \A x : statusOf(w, x) =
        IF failed THEN [status(x) EXCEPT !.degraded = condition(reason, 0),
                                         !.progressing = condition("OperatorDegraded", 0)]
                  ELSE status(x)
  BY DEF statusOf, withClusterState
<1>4. status(d) \in Status /\ status(e) \in Status
  BY InfoStatusIsOne
<1> HIDE DEF counts, ms, failed, reason
<1>5. [status(d) EXCEPT !.error = e] = status(e)
  <2> HIDE DEF status
  <2> QED
    BY <1>1, <1>2 DEF Status
<1> HIDE DEF status
<1>6. CASE failed
  <2> DEFINE set(s) == [s EXCEPT !.degraded = condition(reason, 0),
                                 !.progressing = condition("OperatorDegraded", 0)]
  <2>1. ASSUME NEW s \in Status
        PROVE  [set(s) EXCEPT !.error = e] = set([s EXCEPT !.error = e])
    BY DEF Status
  <2>2. statusOf(w, d) = set(status(d)) /\ statusOf(w, e) = set(status(e))
    BY <1>3, <1>6
  <2> HIDE DEF set
  <2> QED
    BY <1>4, <1>5, <2>1, <2>2
<1>7. CASE ~failed
  BY <1>3, <1>5, <1>7
<1> QED
  BY <1>6, <1>7

(***************************************************************************)
(* Whatever fails, a reconcile leaves a status behind.                     *)
(***************************************************************************)
LEMMA StatusAfterTyped ==
    ASSUME TypeOK
    PROVE  /\ statusAfter(cpmsCache, worldCache) \in Status
           /\ errorOf(cpmsCache, worldCache) \in Error
           /\ cpmsCache.status.degraded.reason # "Overwritten" =>
                statusAfter(cpmsCache, worldCache).degraded.reason # "Overwritten"
<1>1. /\ cpmsCache.status \in Status /\ cpmsCache.status.error \in BOOLEAN
      /\ worldCache \in World /\ fault \in Error
  BY DEF TypeOK, CPMS, Status
<1>2. errorOf(cpmsCache, worldCache) \in Error
  BY <1>1 DEF errorOf, Error
<1> QED
  BY <1>1, <1>2, InfoStatusIsOne, StatusIsOne DEF statusAfter

LEMMA TrackersTyped ==
    ASSUME NEW t \in Tracker, NEW err \in Error
    PROVE  /\ setLastError(t, err) \in Tracker /\ noError \in Tracker
           /\ counted(t) \in Tracker /\ [error |-> err, count |-> 1] \in Tracker
           /\ getErrorCondition(t) \in BOOLEAN
  BY StatusAssumption DEF setLastError, Tracker, noError, counted, getErrorCondition, Error

LEMMA OperatorTyped ==
    ASSUME NEW c \in CPMS, NEW o \in Operator
    PROVE  operatorFor(c, o) \in Operator
<1>1. setClusterOperatorAvailable \in Operator
  BY DEF setClusterOperatorAvailable, Operator, Condition, Reason, DegradedReason, condition
<1>2. updateClusterOperatorStatus(o, c.status) \in Operator
  BY DEF updateClusterOperatorStatus, Operator, CPMS, Status
<1> QED
  BY <1>1, <1>2 DEF operatorFor

-----------------------------------------------------------------------------
(***************************************************************************)
(* Types.                                                                  *)
(***************************************************************************)
LEMMA SpendTyped ==
    ASSUME TypeOK, NEW e \in Event, spend(e)
    PROVE  budget' \in [Event -> Nat] /\ \A d \in Event : budget'[d] <= budget[d]
  BY DEF TypeOK, spend, Event

LEMMA TracksTyped ==
    ASSUME TypeOK, NEW err \in Error, tracks(err)
    PROVE  /\ lastError' \in Tracker /\ streak' \in Tracker
           /\ getErrorCondition(lastError') \in BOOLEAN
<1>1. lastError \in Tracker /\ streak \in Tracker
  BY DEF TypeOK
<1> QED
  BY <1>1, TrackersTyped DEF tracks

LEMMA TypeInit == Init => TypeOK
<1> SUFFICES ASSUME Init PROVE TypeOK
  OBVIOUS
<1>1. noStatus \in Status
  BY DEF noStatus, Status, unset, condition, Condition, Reason
<1>2. cpms \in CPMS
  BY <1>1 DEF Init, noCPMS, CPMS
<1>3. co \in Operator
  BY DEF Init, setClusterOperatorAvailable, Operator, Condition, condition, Reason,
         DegradedReason
<1>4. world \in World
  BY DEF Init, World, Shape, NodeState
<1>5. noError \in Tracker
  BY StatusAssumption DEF noError, Tracker, Error
<1> QED
  BY <1>2, <1>3, <1>4, <1>5, StatusAssumption DEF Init, TypeOK, Error

LEMMA TypeStep == TypeOK /\ [Next]_vars => TypeOK'
<1> SUFFICES ASSUME TypeOK, [Next]_vars PROVE TypeOK'
  OBVIOUS
<1> USE DEF TypeOK
<1>1. CASE ReconcileAbsent
  BY <1>1 DEF ReconcileAbsent, dequeues, serverVars, cacheVars
<1>2. CASE ReconcileFinalizer
  <2> DEFINE new == [cpmsCache EXCEPT !.finalizer = TRUE]
             ok  == cpms = cpmsCache
  <2>1. new \in CPMS /\ cpms' \in CPMS /\ held' \in CPMS
    BY <1>2 DEF ReconcileFinalizer, CPMS
  <2>2. lastError' \in Tracker /\ streak' \in Tracker /\ getErrorCondition(lastError') \in BOOLEAN
    <3>1. (IF ok THEN "none" ELSE "conflict") \in Error
      BY DEF Error
    <3>2. tracks(IF ok THEN "none" ELSE "conflict")
      BY <1>2 DEF ReconcileFinalizer
    <3> QED
      BY <3>1, <3>2, TracksTyped
  <2>3. copy' \in CPMS
    BY <1>2, <2>1, <2>2 DEF ReconcileFinalizer, CPMS, Status
  <2> HIDE DEF new, ok
  <2> QED
    BY <1>2, <2>1, <2>2, <2>3 DEF ReconcileFinalizer, dequeues, cacheVars
<1>3. CASE ReconcileMachines
  <2> DEFINE status == statusAfter(cpmsCache, worldCache)
             err    == errorOf(cpmsCache, worldCache)
  <2>1. status \in Status /\ err \in Error
    BY StatusAfterTyped
  <2>2. /\ tracks(err) /\ erred' \in BOOLEAN
        /\ copy' = [cpmsCache EXCEPT !.status = [status EXCEPT
                       !.error = getErrorCondition(lastError')]]
    BY <1>3 DEF ReconcileMachines
  <2> HIDE DEF status, err
  <2>3. lastError' \in Tracker /\ streak' \in Tracker /\ getErrorCondition(lastError') \in BOOLEAN
    BY <2>1, <2>2, TracksTyped
  <2>4. copy' \in CPMS
    BY <2>1, <2>2, <2>3 DEF CPMS, Status
  <2> QED
    BY <1>3, <2>2, <2>3, <2>4 DEF ReconcileMachines, dequeues, serverVars, cacheVars
<1>4. CASE UpdateStatus
  <2>1. cpms' \in CPMS
    BY <1>4 DEF UpdateStatus, CPMS
  <2>2. budget' \in [Event -> Nat]
    BY <1>4, SpendTyped DEF UpdateStatus, Event
  <2> QED
    BY <1>4, <2>1, <2>2 DEF UpdateStatus, cacheVars
<1>5. CASE UpdateOperator
  <2>1. operatorFor(copy, coCache) \in Operator
    BY OperatorTyped
  <2>2. co' \in Operator /\ queued' \in BOOLEAN
    BY <1>5, <2>1 DEF UpdateOperator, requeues
  <2>3. budget' \in [Event -> Nat]
    BY <1>5, SpendTyped DEF UpdateOperator, Event
  <2> QED
    BY <1>5, <2>2, <2>3 DEF UpdateOperator, cacheVars
<1>6. CASE SyncWorld
  BY <1>6 DEF SyncWorld, serverVars, localVars
<1>7. CASE SyncCPMS
  BY <1>7 DEF SyncCPMS, serverVars, localVars
<1>8. CASE SyncOperator
  BY <1>8 DEF SyncOperator, serverVars, localVars
<1>9. CASE Resync
  BY <1>9 DEF Resync, serverVars, cacheVars, localVars
<1>10. CASE Restart
  <2>1. noError \in Tracker
    BY StatusAssumption DEF noError, Tracker, Error
  <2> QED
    BY <1>10, <2>1, SpendTyped DEF Restart, serverVars, Event
<1>11. ASSUME NEW i \in Indexes, NEW s \in Shape, MachinesChange(i, s)
       PROVE  TypeOK'
  <2>1. world' \in World
    BY <1>11 DEF MachinesChange, World
  <2> QED
    BY <1>11, <2>1, SpendTyped DEF MachinesChange, outside, cacheVars, localVars, Event
<1>12. ASSUME NEW i \in Indexes, NodeFlips(i)
       PROVE  TypeOK'
  <2>1. world' \in World
    BY <1>12 DEF NodeFlips, World, NodeState
  <2> QED
    BY <1>12, <2>1, SpendTyped DEF NodeFlips, outside, cacheVars, localVars, Event
<1>13. ASSUME NEW i \in Indexes, GraceExpires(i)
       PROVE  TypeOK'
  <2>1. world' \in World /\ worldCache' \in World
    BY <1>13 DEF GraceExpires, World, NodeState
  <2> QED
    BY <1>13, <2>1 DEF GraceExpires, localVars
<1>14. ASSUME NEW f \in Error \ {"conflict"}, FaultChanges(f)
       PROVE  TypeOK'
  BY <1>14, SpendTyped DEF FaultChanges, outside, serverVars, cacheVars, localVars, Event,
     Error
<1>15. CASE CPMSChanges
  <2>1. noCPMS \in CPMS
    BY DEF noCPMS, CPMS, noStatus, Status, unset, condition, Condition, Reason
  <2>2. cpms' \in CPMS
    BY <1>15, <2>1 DEF CPMSChanges, CPMS
  <2> QED
    BY <1>15, <2>2, SpendTyped DEF CPMSChanges, outside, cacheVars, localVars, Event
<1>16. CASE OperatorOverwritten
  <2>1. condition("Overwritten", budget["overwrites"]) \in Condition
    BY DEF condition, Condition, Reason, Event
  <2>2. co' \in Operator
    BY <1>16, <2>1 DEF OperatorOverwritten, Operator
  <2> QED
    BY <1>16, <2>2, SpendTyped DEF OperatorOverwritten, outside, cacheVars, localVars, Event
<1>17. CASE UNCHANGED vars
  BY <1>17 DEF vars, serverVars, cacheVars, localVars
<1> QED
  BY <1>1, <1>2, <1>3, <1>4, <1>5, <1>6, <1>7, <1>8, <1>9, <1>10, <1>11, <1>12, <1>13,
     <1>14, <1>15, <1>16, <1>17 DEF Next, ReconcileStep

(***************************************************************************)
(* Every variable keeps its type; above all, the number a Progressing      *)
(* condition announces is never negative (getProgressingCondition).        *)
(***************************************************************************)
THEOREM TypeCorrect == Spec => []TypeOK
<1>1. Init => TypeOK
  BY TypeInit
<1>2. TypeOK /\ [Next]_vars => TypeOK'
  BY TypeStep
<1> QED
  BY <1>1, <1>2, PTL DEF Spec

-----------------------------------------------------------------------------
(***************************************************************************)
(* The tracker counts what happens, and the status that is about to be     *)
(* written holds its verdict.                                              *)
(***************************************************************************)
TrackerInv ==
    /\ lastError = streak
    /\ pc = "status" => copy.status.error = getErrorCondition(lastError)

LEMMA TrackerStep == TypeOK /\ TypeOK' /\ TrackerInv /\ [Next]_vars => TrackerInv'
<1> SUFFICES ASSUME TypeOK, TypeOK', TrackerInv, [Next]_vars PROVE TrackerInv'
  OBVIOUS
<1> USE DEF TrackerInv
<1>1. ASSUME NEW err, tracks(err)
      PROVE  lastError' = streak'
  BY <1>1 DEF tracks, setLastError
<1>2. CASE ReconcileFinalizer
  <2>1. lastError' = streak'
    BY <1>1, <1>2 DEF ReconcileFinalizer
  <2>2. copy'.status.error = getErrorCondition(lastError)'
    BY <1>2 DEF ReconcileFinalizer, TypeOK, CPMS, Status
  <2> QED
    BY <2>1, <2>2
<1>3. CASE ReconcileMachines
  <2>1. lastError' = streak'
    BY <1>1, <1>3 DEF ReconcileMachines
  <2>2. copy'.status.error = getErrorCondition(lastError)'
    <3> DEFINE status == statusAfter(cpmsCache, worldCache)
    <3>1. status \in Status /\ cpmsCache \in CPMS
      BY StatusAfterTyped DEF TypeOK
    <3>2. copy' = [cpmsCache EXCEPT !.status = [status EXCEPT
                       !.error = getErrorCondition(lastError')]]
      BY <1>3 DEF ReconcileMachines
    <3> HIDE DEF status
    <3> QED
      BY <3>1, <3>2 DEF CPMS, Status
  <2> QED
    BY <2>1, <2>2
<1>4. CASE ReconcileAbsent \/ UpdateStatus \/ UpdateOperator
  BY <1>4 DEF ReconcileAbsent, UpdateStatus, UpdateOperator
<1>5. CASE Restart
  BY <1>5 DEF Restart
<1>6. CASE SyncWorld \/ SyncCPMS \/ SyncOperator \/ Resync
  BY <1>6 DEF SyncWorld, SyncCPMS, SyncOperator, Resync, localVars
<1>7. CASE \/ \E i \in Indexes : \/ \E s \in Shape : MachinesChange(i, s)
                                 \/ NodeFlips(i) \/ GraceExpires(i)
           \/ \E f \in Error \ {"conflict"} : FaultChanges(f)
           \/ CPMSChanges \/ OperatorOverwritten
  BY <1>7 DEF MachinesChange, NodeFlips, GraceExpires, FaultChanges, CPMSChanges,
     OperatorOverwritten, outside, localVars
<1>8. CASE UNCHANGED vars
  BY <1>8 DEF vars, localVars
<1> QED
  BY <1>2, <1>3, <1>4, <1>5, <1>6, <1>7, <1>8 DEF Next, ReconcileStep

(***************************************************************************)
(* The only step that sets the Error condition writes the status of a      *)
(* reconcile, after the tracker has counted.                               *)
(***************************************************************************)
LEMMA ErrorIsTheTrackers ==
    ASSUME TypeOK, TrackerInv, [Next]_vars, ~cpms.status.error, cpms'.status.error
    PROVE  streak.count >= maxContinuousErrors
<1> USE DEF TypeOK, CPMS, Status
<1>1. CASE UpdateStatus
  <2>1. pc = "status" /\ (UNCHANGED cpms \/ cpms' = [cpms EXCEPT !.status = copy.status])
    BY <1>1 DEF UpdateStatus
  <2>2. copy.status.error
    BY <2>1
  <2> QED
    BY <2>1, <2>2 DEF TrackerInv, getErrorCondition
<1>2. CASE ReconcileFinalizer
  BY <1>2 DEF ReconcileFinalizer
<1>3. CASE CPMSChanges
  <2>1. noCPMS.status.error = FALSE
    BY DEF noCPMS, noStatus
  <2>2. \/ cpms' = noCPMS \/ cpms' = [cpms EXCEPT !.active = TRUE]
        \/ \E a \in BOOLEAN : cpms' = [noCPMS EXCEPT !.exists = TRUE, !.active = a]
    BY <1>3 DEF CPMSChanges
  <2> QED
    BY <2>1, <2>2 DEF noCPMS
<1>4. CASE ReconcileAbsent \/ ReconcileMachines \/ UpdateOperator
  BY <1>4 DEF ReconcileAbsent, ReconcileMachines, UpdateOperator, serverVars
<1>5. CASE SyncWorld \/ SyncCPMS \/ SyncOperator \/ Resync \/ Restart
  BY <1>5 DEF SyncWorld, SyncCPMS, SyncOperator, Resync, Restart, serverVars
<1>6. CASE \/ \E i \in Indexes : \/ \E s \in Shape : MachinesChange(i, s)
                                 \/ NodeFlips(i) \/ GraceExpires(i)
           \/ \E f \in Error \ {"conflict"} : FaultChanges(f)
           \/ OperatorOverwritten
  BY <1>6 DEF MachinesChange, NodeFlips, GraceExpires, FaultChanges,
     OperatorOverwritten, serverVars
<1>7. CASE UNCHANGED vars
  BY <1>7 DEF vars, serverVars
<1> QED
  BY <1>1, <1>2, <1>3, <1>4, <1>5, <1>6, <1>7 DEF Next, ReconcileStep

(***************************************************************************)
(* The Error condition becomes True on the maxContinuousErrors-th equal    *)
(* error in a row and not before, whatever fails, is refused or restarts   *)
(* on the way (setLastError, getErrorCondition).                           *)
(***************************************************************************)
THEOREM ErrorIsRepeated == Spec => ErrorNeedsRepetition
<1>1. Init => TrackerInv
  BY DEF Init, TrackerInv
<1>2. TypeOK /\ TypeOK' /\ TrackerInv /\ [Next]_vars => TrackerInv'
  BY TrackerStep
<1>3. TypeOK /\ TrackerInv /\ [Next]_vars =>
        [~cpms.status.error /\ cpms'.status.error => streak.count >= maxContinuousErrors]_vars
  BY ErrorIsTheTrackers
<1> QED
  BY <1>1, <1>2, <1>3, TypeCorrect, PTL DEF Spec, ErrorNeedsRepetition

-----------------------------------------------------------------------------
(***************************************************************************)
(* Why no wake-up is lost.  The first four say that what the cache lacks   *)
(* cannot look like what it holds: somebody else's writes of the           *)
(* ClusterOperator differ from one another and from the operator's own, a  *)
(* grace period does not end in the cluster only, and while both versions  *)
(* have the finalizer they are versions of one object, which stays Active. *)
(***************************************************************************)
StatusReasons ==
    \A c \in {cpms, cpmsCache, copy} : c.status.degraded.reason # "Overwritten"

OverwritesAreOld ==
    \A o \in {co, coCache} :
        o.degraded.reason = "Overwritten" => o.degraded.count > budget["overwrites"]

NoBriefBehind ==
    \A i \in Indexes : ~(worldCache[i].node = "brief" /\ world[i].node = "unready")

SameObject ==
    cpmsCache.finalizer /\ cpms.finalizer /\ cpmsCache.active => cpms.active

(***************************************************************************)
(* The object, as far as the Machines in the cache are concerned, needs no *)
(* write.                                                                  *)
(***************************************************************************)
reports(c) == c.status = statusOf(worldCache, c.status.error)

(***************************************************************************)
(* A newer version of the object that was read is on its way.              *)
(***************************************************************************)
cpmsIsBehind == cpmsCache.exists /\ cpms # cpmsCache

(***************************************************************************)
(* As long as nothing is queued and nothing failed, a reconcile works on   *)
(* what the caches still hold, ...                                         *)
(***************************************************************************)
undisturbed == ~queued /\ ~unseen /\ ~erred

StatusInFlight ==
    pc = "status" /\ undisturbed =>
        /\ base = cpmsCache /\ held = cpmsCache
        /\ cpmsCache.exists /\ cpmsCache.finalizer
        /\ copy = [cpmsCache EXCEPT !.status = copy.status] /\ reports(copy)

OperatorInFlight ==
    pc = "operator" /\ undisturbed =>
        /\ cpmsCache.exists => cpmsCache.finalizer /\ reports(copy)
        /\ copy = cpmsCache \/ cpmsIsBehind

(***************************************************************************)
(* ... and leaves both reports as they should be, or an event to come.     *)
(***************************************************************************)
ReportsAtRest ==
    pc = "idle" /\ ~queued /\ ~unseen =>
        /\ cpmsCache.exists => /\ cpmsCache.finalizer
                               /\ cpms # cpmsCache \/ reports(cpmsCache)
        /\ cpmsIsBehind \/ co # coCache \/ operatorFor(cpmsCache, coCache) = coCache

WakeInv ==
    /\ StatusReasons /\ OverwritesAreOld /\ NoBriefBehind /\ SameObject
    /\ StatusInFlight /\ OperatorInFlight /\ ReportsAtRest

LEMMA StatusReasonsStep ==
    ASSUME TypeOK, StatusReasons, [Next]_vars
    PROVE  StatusReasons'
<1> USE DEF StatusReasons, TypeOK
<1>1. CASE ReconcileAbsent
  BY <1>1 DEF ReconcileAbsent, serverVars, cacheVars
<1>2. CASE ReconcileFinalizer
  <2>1. cpms' \in {cpms, [cpmsCache EXCEPT !.finalizer = TRUE]}
    BY <1>2 DEF ReconcileFinalizer
  <2>2. cpms'.status.degraded.reason # "Overwritten"
    BY <2>1 DEF CPMS
  <2>3. copy'.status.degraded = cpmsCache.status.degraded
    BY <1>2 DEF ReconcileFinalizer, CPMS, Status
  <2> QED
    BY <1>2, <2>2, <2>3 DEF ReconcileFinalizer, cacheVars
<1>3. CASE ReconcileMachines
  <2> DEFINE status == statusAfter(cpmsCache, worldCache)
  <2>1. status \in Status /\ status.degraded.reason # "Overwritten"
    BY StatusAfterTyped
  <2>2. copy' = [cpmsCache EXCEPT !.status = [status EXCEPT
                       !.error = getErrorCondition(lastError')]]
    BY <1>3 DEF ReconcileMachines
  <2> HIDE DEF status
  <2>3. copy'.status.degraded = status.degraded
    BY <2>1, <2>2 DEF CPMS, Status
  <2> QED
    BY <1>3, <2>1, <2>3 DEF ReconcileMachines, serverVars, cacheVars
<1>4. CASE UpdateStatus
  <2>1. cpms' = cpms \/ cpms' = [cpms EXCEPT !.status = copy.status]
    BY <1>4 DEF UpdateStatus
  <2>2. cpms'.status.degraded.reason # "Overwritten"
    BY <2>1 DEF CPMS
  <2> QED
    BY <1>4, <2>2 DEF UpdateStatus, cacheVars
<1>5. CASE UpdateOperator
  BY <1>5 DEF UpdateOperator, cacheVars
<1>6. CASE SyncWorld \/ SyncCPMS \/ SyncOperator \/ Resync
  BY <1>6 DEF SyncWorld, SyncCPMS, SyncOperator, Resync, serverVars, cacheVars, localVars
<1>7. CASE Restart
  BY <1>7 DEF Restart, serverVars
<1>8. CASE \/ \E i \in Indexes : \/ \E s \in Shape : MachinesChange(i, s)
                                 \/ NodeFlips(i) \/ GraceExpires(i)
           \/ \E f \in Error \ {"conflict"} : FaultChanges(f)
           \/ OperatorOverwritten
  BY <1>8 DEF MachinesChange, NodeFlips, GraceExpires, FaultChanges,
     OperatorOverwritten, outside, serverVars, cacheVars, localVars
<1>9. CASE CPMSChanges
  <2>1. \/ cpms' = noCPMS \/ cpms' = [cpms EXCEPT !.active = TRUE]
        \/ \E a \in BOOLEAN : cpms' = [noCPMS EXCEPT !.exists = TRUE, !.active = a]
    BY <1>9 DEF CPMSChanges
  <2>2. noCPMS.status.degraded.reason # "Overwritten"
    BY DEF noCPMS, noStatus, unset, condition
  <2>3. cpms'.status.degraded.reason # "Overwritten"
    BY <2>1, <2>2 DEF CPMS, noCPMS
  <2> QED
    BY <1>9, <2>3 DEF CPMSChanges, outside, cacheVars, localVars
<1>10. CASE UNCHANGED vars
  BY <1>10 DEF vars, serverVars, cacheVars, localVars
<1> QED
  BY <1>1, <1>2, <1>3, <1>4, <1>5, <1>6, <1>7, <1>8, <1>9, <1>10 DEF Next, ReconcileStep

LEMMA OverwritesStep ==
    ASSUME TypeOK, TypeOK', StatusReasons, OverwritesAreOld, [Next]_vars
    PROVE  OverwritesAreOld'
<1> USE DEF OverwritesAreOld
<1>1. budget' \in [Event -> Nat] /\ budget \in [Event -> Nat] /\ "overwrites" \in Event
  BY DEF TypeOK, Event
<1>2. budget'["overwrites"] <= budget["overwrites"]
  <2>1. ASSUME NEW e \in Event, spend(e)
        PROVE  budget'["overwrites"] <= budget["overwrites"]
    BY <1>1, <2>1, SpendTyped
  <2>2. UNCHANGED budget \/ \E e \in Event : spend(e)
    BY DEF Next, ReconcileStep, ReconcileAbsent, ReconcileFinalizer, ReconcileMachines,
       UpdateStatus, UpdateOperator, SyncWorld, SyncCPMS, SyncOperator, Resync, Restart,
       MachinesChange, NodeFlips, GraceExpires, FaultChanges, CPMSChanges,
       OperatorOverwritten, Event, vars
  <2> QED
    BY <1>1, <2>1, <2>2
<1>3. ASSUME NEW o \in Operator,
             o.degraded.reason = "Overwritten" => o.degraded.count > budget["overwrites"]
      PROVE  o.degraded.reason = "Overwritten" => o.degraded.count > budget'["overwrites"]
  BY <1>1, <1>2, <1>3 DEF Operator, Condition
<1>4. co \in Operator /\ coCache \in Operator /\ copy \in CPMS
  BY DEF TypeOK
<1>5. CASE UpdateOperator
  <2>1. coCache' = coCache /\ co' \in {co, operatorFor(copy, coCache)}
    BY <1>5 DEF UpdateOperator, cacheVars
  <2>2. \/ operatorFor(copy, coCache).degraded.reason # "Overwritten"
        \/ operatorFor(copy, coCache).degraded = coCache.degraded
    <3>1. copy.status.degraded.reason # "Overwritten"
      BY DEF StatusReasons
    <3>2. setClusterOperatorAvailable.degraded.reason # "Overwritten"
      BY DEF setClusterOperatorAvailable, condition
    <3> QED
      BY <3>1, <3>2 DEF operatorFor, updateClusterOperatorStatus
  <2> QED
    BY <1>3, <1>4, <2>1, <2>2, OperatorTyped
<1>6. CASE OperatorOverwritten
  <2>1. co'.degraded = condition("Overwritten", budget["overwrites"]) /\ coCache' = coCache
    BY <1>4, <1>6 DEF OperatorOverwritten, outside, cacheVars, Operator
  <2>2. budget["overwrites"] > budget'["overwrites"]
    <3>1. "any" # "overwrites" /\ "any" \in Event
      BY DEF Event
    <3> QED
      BY <1>1, <1>6, <3>1 DEF OperatorOverwritten, spend
  <2> QED
    BY <1>3, <1>4, <2>1, <2>2 DEF condition
<1>7. CASE SyncOperator \/ Restart
  BY <1>3, <1>4, <1>7 DEF SyncOperator, Restart, serverVars
<1>8. CASE UNCHANGED <<co, coCache>>
  BY <1>3, <1>4, <1>8
<1>9. \/ UpdateOperator \/ OperatorOverwritten \/ SyncOperator \/ Restart
      \/ UNCHANGED <<co, coCache>>
  BY DEF Next, ReconcileStep, ReconcileAbsent, ReconcileFinalizer, ReconcileMachines,
     UpdateStatus, SyncWorld, SyncCPMS, Resync, MachinesChange, NodeFlips, GraceExpires,
     FaultChanges, CPMSChanges, outside, vars, serverVars, cacheVars
<1> QED
  BY <1>5, <1>6, <1>7, <1>8, <1>9

LEMMA NoBriefStep ==
    ASSUME TypeOK, NoBriefBehind, [Next]_vars
    PROVE  NoBriefBehind'
<1> USE DEF NoBriefBehind
<1>1. world \in World /\ worldCache \in World
  BY DEF TypeOK
<1>2. ASSUME NEW i \in Indexes, NEW s \in Shape, MachinesChange(i, s)
      PROVE  NoBriefBehind'
  BY <1>1, <1>2 DEF MachinesChange, outside, cacheVars, World
<1>3. ASSUME NEW i \in Indexes, NodeFlips(i)
      PROVE  NoBriefBehind'
  BY <1>1, <1>3 DEF NodeFlips, outside, cacheVars, World
<1>4. ASSUME NEW i \in Indexes, GraceExpires(i)
      PROVE  NoBriefBehind'
  BY <1>1, <1>4 DEF GraceExpires, World
<1>5. CASE SyncWorld \/ Restart
  BY <1>5 DEF SyncWorld, Restart, serverVars
<1>6. CASE UNCHANGED <<world, worldCache>>
  BY <1>6
<1>7. \/ \E i \in Indexes : \/ \E s \in Shape : MachinesChange(i, s)
                            \/ NodeFlips(i) \/ GraceExpires(i)
      \/ SyncWorld \/ Restart \/ UNCHANGED <<world, worldCache>>
  BY DEF Next, ReconcileStep, ReconcileAbsent, ReconcileFinalizer, ReconcileMachines,
     UpdateStatus, UpdateOperator, SyncCPMS, SyncOperator, Resync, FaultChanges,
     CPMSChanges, OperatorOverwritten, outside, vars, serverVars, cacheVars
<1> QED
  BY <1>2, <1>3, <1>4, <1>5, <1>6, <1>7

LEMMA SameObjectStep ==
    ASSUME TypeOK, SameObject, [Next]_vars
    PROVE  SameObject'
<1> USE DEF SameObject
<1>1. cpms \in CPMS /\ cpmsCache \in CPMS
  BY DEF TypeOK
<1>2. CASE ReconcileFinalizer
  BY <1>1, <1>2 DEF ReconcileFinalizer, cacheVars, CPMS
<1>3. CASE UpdateStatus
  <2>1. cpmsCache' = cpmsCache /\ (cpms' = cpms \/ cpms' = [cpms EXCEPT !.status = copy.status])
    BY <1>3 DEF UpdateStatus, cacheVars
  <2> QED
    BY <1>1, <2>1 DEF CPMS
<1>4. CASE CPMSChanges
  <2>1. /\ cpmsCache' = cpmsCache
        /\ \/ cpms' = noCPMS \/ cpms' = [cpms EXCEPT !.active = TRUE]
           \/ \E a \in BOOLEAN : cpms' = [noCPMS EXCEPT !.exists = TRUE, !.active = a]
    BY <1>4 DEF CPMSChanges, outside, cacheVars
  <2>2. CASE cpms' = [cpms EXCEPT !.active = TRUE]
    BY <1>1, <2>1, <2>2 DEF CPMS
  <2>3. CASE cpms' = noCPMS
    BY <2>3 DEF noCPMS
  <2>4. ASSUME NEW a \in BOOLEAN, cpms' = [noCPMS EXCEPT !.exists = TRUE, !.active = a]
        PROVE  SameObject'
    BY <2>4 DEF noCPMS
  <2> QED
    BY <2>1, <2>2, <2>3, <2>4
<1>5. CASE SyncCPMS \/ Restart
  BY <1>5 DEF SyncCPMS, Restart, serverVars
<1>6. CASE UNCHANGED <<cpms, cpmsCache>>
  BY <1>6
<1>7. \/ ReconcileFinalizer \/ UpdateStatus \/ CPMSChanges \/ SyncCPMS \/ Restart
      \/ UNCHANGED <<cpms, cpmsCache>>
  BY DEF Next, ReconcileStep, ReconcileAbsent, ReconcileMachines, UpdateOperator,
     SyncWorld, SyncOperator, Resync, MachinesChange, NodeFlips, GraceExpires,
     FaultChanges, OperatorOverwritten, outside, vars, serverVars, cacheVars
<1> QED
  BY <1>2, <1>3, <1>4, <1>5, <1>6, <1>7

(***************************************************************************)
(* Whatever is not queued or unseen afterwards leaves the reconcile alone. *)
(***************************************************************************)
InFlight == StatusInFlight /\ OperatorInFlight /\ ReportsAtRest

LEMMA SyncWorldWakes ==
    ASSUME TypeOK, NoBriefBehind, SyncWorld
    PROVE  queued' \/ unseen'
<1>1. world \in World /\ worldCache \in World
  BY DEF TypeOK
<1>2. PICK i \in Indexes : worldCache[i] # world[i]
  BY <1>1 DEF SyncWorld, World
<1>3. /\ worldCache[i] = [shape |-> worldCache[i].shape, node |-> worldCache[i].node]
      /\ world[i] = [shape |-> world[i].shape, node |-> world[i].node]
      /\ worldCache[i].node \in NodeState /\ world[i].node \in NodeState
  BY <1>1 DEF World
<1>4. worldCache[i].shape # world[i].shape \/ worldCache[i].node # world[i].node
  BY <1>2, <1>3
<1>5. ~(worldCache[i].node = "brief" /\ world[i].node = "unready")
  BY DEF NoBriefBehind
<1>6. \/ FilterControlPlaneMachines(worldCache[i].shape, world[i].shape)
      \/ FilterControlPlaneNodes(worldCache[i].node, world[i].node)
      \/ missedReady(i)
  BY <1>3, <1>4, <1>5 DEF FilterControlPlaneMachines, FilterControlPlaneNodes, isReady,
     missedReady, NodeState
<1> QED
  BY <1>6 DEF SyncWorld

(***************************************************************************)
(* A reconcile that runs into no error computes the status that the        *)
(* Machines in the cache deserve.                                          *)
(***************************************************************************)
LEMMA ReconcileReports ==
    ASSUME TypeOK, TypeOK', ReconcileMachines
    PROVE  StatusInFlight'
<1> DEFINE status == statusAfter(cpmsCache, worldCache)
           E      == getErrorCondition(lastError')
<1>1. /\ copy' = [cpmsCache EXCEPT !.status = [status EXCEPT !.error = E]]
      /\ erred' = (errorOf(cpmsCache, worldCache) # "none")
      /\ base' = cpmsCache /\ held' = cpmsCache /\ cpmsCache.exists /\ cpmsCache.finalizer
      /\ cpmsCache' = cpmsCache /\ worldCache' = worldCache
  BY DEF ReconcileMachines, cacheVars
<1>2. /\ worldCache \in World /\ cpmsCache \in CPMS /\ cpmsCache.status.error \in BOOLEAN
      /\ E \in BOOLEAN
  BY TrackersTyped DEF TypeOK, CPMS, Status, getErrorCondition
<1>3. ~erred' => status = statusOf(worldCache, cpmsCache.status.error)
  BY <1>1 DEF errorOf, statusAfter, cannotValidate
<1>4. ASSUME ~erred'
      PROVE  [status EXCEPT !.error = E] = statusOf(worldCache, E)
  BY <1>2, <1>3, <1>4, OnlyTheErrorDiffers
<1> HIDE DEF status, E
<1>5. copy'.status = [status EXCEPT !.error = E]
  BY <1>1, <1>2 DEF CPMS
<1>6. copy' = [cpmsCache EXCEPT !.status = copy'.status]
  BY <1>1, <1>5
<1>7. ASSUME ~erred'
      PROVE  copy'.status = statusOf(worldCache, copy'.status.error)
  BY <1>2, <1>4, <1>5, <1>7, StatusIsOne
<1> QED
  BY <1>1, <1>6, <1>7 DEF StatusInFlight, undisturbed, reports

(***************************************************************************)
(* A write of the status that is accepted is a version the cache lacks.    *)
(***************************************************************************)
LEMMA WriteReports ==
    ASSUME TypeOK, StatusInFlight, UpdateStatus
    PROVE  OperatorInFlight'
<1>1. /\ pc = "status" /\ copy' = copy /\ queued' = queued /\ unseen' = unseen
      /\ cpmsCache' = cpmsCache /\ worldCache' = worldCache
      /\ ~erred' => ~erred
  BY DEF UpdateStatus, cacheVars
<1>2. SUFFICES ASSUME undisturbed'
               PROVE  /\ cpmsCache.finalizer /\ reports(copy)
                      /\ copy = cpmsCache \/ (cpmsCache.exists /\ cpms' # cpmsCache)
  BY <1>1 DEF OperatorInFlight, reports, cpmsIsBehind
<1>3. /\ base = cpmsCache /\ held = cpmsCache /\ cpmsCache.exists /\ cpmsCache.finalizer
      /\ copy = [cpmsCache EXCEPT !.status = copy.status] /\ reports(copy)
  BY <1>1, <1>2 DEF StatusInFlight, undisturbed
<1>4. CASE copy = base
  BY <1>3, <1>4
<1>5. CASE copy # base
  <2>1. cpms = held /\ cpms' = [cpms EXCEPT !.status = copy.status]
    BY <1>2, <1>5 DEF UpdateStatus, undisturbed
  <2> QED
    BY <1>3, <1>5, <2>1
<1> QED
  BY <1>4, <1>5

(***************************************************************************)
(* So is one of the ClusterOperator; one that is refused is tried again.   *)
(***************************************************************************)
LEMMA OperatorReports ==
    ASSUME TypeOK, OperatorInFlight, UpdateOperator
    PROVE  ReportsAtRest'
<1> DEFINE want == operatorFor(copy, coCache)
<1>1. /\ pc = "operator" /\ unseen' = unseen /\ cpms' = cpms /\ cpmsCache' = cpmsCache
      /\ worldCache' = worldCache /\ coCache' = coCache
  BY DEF UpdateOperator, cacheVars
<1>2. SUFFICES ASSUME ~queued', ~unseen
               PROVE  /\ cpmsCache.exists => /\ cpmsCache.finalizer
                                             /\ cpms # cpmsCache \/ reports(cpmsCache)
                      /\ cpmsIsBehind \/ co' # coCache
                                      \/ operatorFor(cpmsCache, coCache) = coCache
  BY <1>1 DEF ReportsAtRest, cpmsIsBehind, reports
<1>3. undisturbed
  BY <1>2 DEF UpdateOperator, requeues, undisturbed
<1>4. /\ cpmsCache.exists => cpmsCache.finalizer /\ reports(copy)
      /\ copy = cpmsCache \/ cpmsIsBehind
  BY <1>1, <1>3 DEF OperatorInFlight
<1>5. want = coCache \/ co' # coCache
  BY <1>2 DEF UpdateOperator, requeues
<1> QED
  BY <1>4, <1>5 DEF cpmsIsBehind

(***************************************************************************)
(* No edit of the ControlPlaneMachineSet restores the version that was     *)
(* read: a new object has no finalizer, and activation is for good.        *)
(***************************************************************************)
LEMMA EditsStayBehind ==
    ASSUME TypeOK, SameObject, CPMSChanges, cpmsCache.exists, cpmsCache.finalizer
    PROVE  cpms' # cpmsCache
<1>1. cpms \in CPMS /\ cpmsCache \in CPMS
  BY DEF TypeOK
<1>2. ASSUME cpms' = noCPMS
      PROVE  cpms' # cpmsCache
  BY <1>2 DEF noCPMS
<1>3. ASSUME NEW a \in BOOLEAN, cpms' = [noCPMS EXCEPT !.exists = TRUE, !.active = a]
      PROVE  cpms' # cpmsCache
  BY <1>3 DEF noCPMS
<1>4. ASSUME cpms.exists, ~cpms.active, cpms' = [cpms EXCEPT !.active = TRUE]
      PROVE  cpms' # cpmsCache
  <2>1. cpms'.active = TRUE /\ cpms'.finalizer = cpms.finalizer
    BY <1>1, <1>4 DEF CPMS
  <2> QED
    BY <1>4, <2>1 DEF SameObject
<1> QED
  BY <1>2, <1>3, <1>4 DEF CPMSChanges

LEMMA InFlightStep ==
    ASSUME TypeOK, TypeOK', OverwritesAreOld, NoBriefBehind, SameObject, InFlight,
           [Next]_vars
    PROVE  InFlight'
<1> USE DEF InFlight
<1>1. ASSUME queued' \/ unseen'
      PROVE  InFlight'
  BY <1>1 DEF StatusInFlight, OperatorInFlight, ReportsAtRest, undisturbed
<1>2. CASE ReconcileAbsent
  <2>1. pc' = "operator" /\ copy' = cpmsCache /\ ~cpmsCache.exists /\ cpmsCache' = cpmsCache
    BY <1>2 DEF ReconcileAbsent, cacheVars
  <2> QED
    BY <2>1 DEF StatusInFlight, OperatorInFlight, ReportsAtRest
<1>3. CASE ReconcileFinalizer
  <2>1. pc' = "status" /\ erred'
    BY <1>3 DEF ReconcileFinalizer
  <2> QED
    BY <2>1 DEF StatusInFlight, OperatorInFlight, ReportsAtRest, undisturbed
<1>4. CASE ReconcileMachines
  <2>1. pc' = "status"
    BY <1>4 DEF ReconcileMachines
  <2> QED
    BY <1>4, <2>1, ReconcileReports DEF OperatorInFlight, ReportsAtRest
<1>5. CASE UpdateStatus
  <2>1. pc' = "operator"
    BY <1>5 DEF UpdateStatus
  <2> QED
    BY <1>5, <2>1, WriteReports DEF StatusInFlight, ReportsAtRest
<1>6. CASE UpdateOperator
  <2>1. pc' = "idle"
    BY <1>6 DEF UpdateOperator
  <2> QED
    BY <1>6, <2>1, OperatorReports DEF StatusInFlight, OperatorInFlight
<1>7. CASE SyncWorld
  BY <1>1, <1>7, SyncWorldWakes
<1>8. CASE SyncCPMS \/ SyncOperator \/ Resync \/ Restart
  BY <1>1, <1>8 DEF SyncCPMS, SyncOperator, Resync, Restart
<1>9. CASE \/ \E i \in Indexes : GraceExpires(i)
           \/ \E f \in Error \ {"conflict"} : FaultChanges(f)
  BY <1>1, <1>9 DEF GraceExpires, FaultChanges
<1>10. CASE \/ \E i \in Indexes : (\E s \in Shape : MachinesChange(i, s)) \/ NodeFlips(i)
            \/ UNCHANGED vars
  <2>1. UNCHANGED <<cpms, co, cacheVars, queued, localVars, unseen>>
    BY <1>10 DEF MachinesChange, NodeFlips, outside, vars, serverVars
  <2> QED
    BY <2>1 DEF StatusInFlight, OperatorInFlight, ReportsAtRest, undisturbed, reports,
       cpmsIsBehind, cacheVars, localVars
<1>11. CASE CPMSChanges
  <2>1. UNCHANGED <<co, cacheVars, queued, localVars, unseen>>
    BY <1>11 DEF CPMSChanges, outside
  <2>2. cpmsCache.exists /\ cpmsCache.finalizer => cpms' # cpmsCache
    BY <1>11, EditsStayBehind
  <2>3. StatusInFlight'
    BY <2>1 DEF StatusInFlight, undisturbed, reports, cacheVars, localVars
  <2>4. OperatorInFlight'
    BY <2>1, <2>2 DEF OperatorInFlight, undisturbed, reports, cpmsIsBehind, cacheVars,
       localVars
  <2>5. ReportsAtRest'
    BY <2>1, <2>2 DEF ReportsAtRest, reports, cpmsIsBehind, cacheVars, localVars
  <2> QED
    BY <2>3, <2>4, <2>5
<1>12. CASE OperatorOverwritten
  <2>1. UNCHANGED <<cpms, cacheVars, queued, localVars, unseen>>
    BY <1>12 DEF OperatorOverwritten, outside
  <2>2. co' # coCache
    <3>1. co'.degraded = condition("Overwritten", budget["overwrites"])
      BY <1>12 DEF OperatorOverwritten, TypeOK, Operator
    <3>2. budget["overwrites"] \in Nat
      BY DEF TypeOK, Event
    <3> QED
      BY <3>1, <3>2 DEF OverwritesAreOld, condition
  <2>3. StatusInFlight' /\ OperatorInFlight'
    BY <2>1 DEF StatusInFlight, OperatorInFlight, undisturbed, reports, cpmsIsBehind,
       cacheVars, localVars
  <2>4. ReportsAtRest'
    BY <2>1, <2>2 DEF ReportsAtRest, reports, cpmsIsBehind, cacheVars, localVars
  <2> QED
    BY <2>3, <2>4
<1> QED
  BY <1>2, <1>3, <1>4, <1>5, <1>6, <1>7, <1>8, <1>9, <1>10, <1>11, <1>12
     DEF Next, ReconcileStep

(***************************************************************************)
(* Up to date caches turn what is at rest into what is right.              *)
(***************************************************************************)
LEMMA RestIsRight == TypeOK /\ ReportsAtRest => NoLostWakeup
<1> SUFFICES ASSUME TypeOK, ReportsAtRest, pc = "idle", ~queued, ~unseen,
                    worldCache = world, cpmsCache = cpms, coCache = co
             PROVE  statusIsCurrent /\ operatorIsCurrent
  BY DEF NoLostWakeup
<1>1. /\ cpms.exists => cpms.finalizer /\ reports(cpms)
      /\ operatorFor(cpms, co) = co
  BY DEF ReportsAtRest, cpmsIsBehind
<1>2. statusIsCurrent
  BY <1>1 DEF statusIsCurrent, reports
<1>3. CASE isActive(cpms)
  <2>1. co = updateClusterOperatorStatus(co, cpms.status)
    BY <1>1, <1>3 DEF operatorFor
  <2>2. /\ co.available = IF cpms.status.available = unset THEN co.available
                                                           ELSE cpms.status.available
        /\ co.progressing = IF cpms.status.progressing = unset THEN co.progressing
                                                               ELSE cpms.status.progressing
        /\ co.degraded = IF cpms.status.degraded = unset THEN co.degraded
                                                         ELSE cpms.status.degraded
        /\ co.upgradeable = (cpms.status.available.reason = "AllReplicasAvailable")
    BY <2>1 DEF updateClusterOperatorStatus
  <2> QED
    BY <1>2, <1>3, <2>2 DEF operatorIsCurrent, isActive
<1>4. CASE ~isActive(cpms)
  <2>1. co = setClusterOperatorAvailable
    BY <1>1, <1>4 DEF operatorFor
  <2> QED
    BY <1>2, <1>4, <2>1 DEF operatorIsCurrent, isActive, setClusterOperatorAvailable
<1> QED
  BY <1>3, <1>4

LEMMA WakeInit == Init => WakeInv
<1> SUFFICES ASSUME Init PROVE WakeInv
  OBVIOUS
<1>1. cpms.status.degraded.reason # "Overwritten"
  BY DEF Init, noCPMS, noStatus, unset, condition
<1>2. co.degraded.reason # "Overwritten"
  BY DEF Init, setClusterOperatorAvailable, condition
<1>3. pc = "idle" /\ queued /\ worldCache = world /\ cpmsCache = cpms /\ coCache = co
      /\ base = cpms /\ copy = cpms
  BY DEF Init
<1> QED
  BY <1>1, <1>2, <1>3 DEF WakeInv, StatusReasons, OverwritesAreOld, NoBriefBehind,
     SameObject, StatusInFlight, OperatorInFlight, ReportsAtRest

LEMMA WakeStep == TypeOK /\ TypeOK' /\ WakeInv /\ [Next]_vars => WakeInv'
<1> SUFFICES ASSUME TypeOK, TypeOK', WakeInv, [Next]_vars PROVE WakeInv'
  OBVIOUS
<1> USE DEF WakeInv
<1>1. StatusReasons'
  BY StatusReasonsStep
<1>2. OverwritesAreOld'
  BY OverwritesStep
<1>3. NoBriefBehind'
  BY NoBriefStep
<1>4. SameObject'
  BY SameObjectStep
<1>5. InFlight'
  BY InFlightStep DEF InFlight
<1> QED
  BY <1>1, <1>2, <1>3, <1>4, <1>5 DEF InFlight

(***************************************************************************)
(* No wake-up is lost, however often writes are refused, events filtered,  *)
(* caches late and the process restarted (updateControlPlaneMachineSet-    *)
(* Status, patchClusterOperatorStatus, the watch filters): a controller    *)
(* at rest with caches up to date has reported what there is.              *)
(***************************************************************************)
THEOREM WakesUp == Spec => []NoLostWakeup
<1>1. Init => WakeInv
  BY WakeInit
<1>2. TypeOK /\ TypeOK' /\ WakeInv /\ [Next]_vars => WakeInv'
  BY WakeStep
<1>3. TypeOK /\ WakeInv => NoLostWakeup
  BY RestIsRight DEF WakeInv
<1> QED
  BY <1>1, <1>2, <1>3, TypeCorrect, PTL DEF Spec

=============================================================================
