---------------------- MODULE CapacityRefinementProofs ----------------------
(***************************************************************************)
(* The rolling update keeps the promise of ControlPlaneCapacity: a proof   *)
(* that ControlPlaneMachineSet implements it, for every number of replicas *)
(* and every bound, whatever users delete, Nodes and Machines fail and     *)
(* reconciles are aborted.                                                 *)
(***************************************************************************)
EXTENDS CapacityRefinement, MachineUpdateProofs

(***************************************************************************)
(* The assumptions: no reconcile starts from a stale cache, the strategy   *)
(* and the template stay, and the Machines of the start have the indexes   *)
(* that machineInfosByIndex fills gaps from.                               *)
(***************************************************************************)
PlaneIndexes == 0..(Replicas - 1)

RollsOverThePlane ==
    /\ RollingOnFreshReads /\ "template" \notin Editable
    /\ {StartMachines[n].index : n \in 1..Replicas} = PlaneIndexes

-----------------------------------------------------------------------------
(***************************************************************************)
(* What there is: Machines of the control plane's indexes, the outdated    *)
(* ones those of the start; the etcd hook keeps Replicas Nodes, each with  *)
(* its Machine.                                                            *)
(***************************************************************************)
PlaneMachines ==
    \A n \in DOMAIN machines :
        /\ machines[n].index \in PlaneIndexes
        /\ machines[n].spec # StartTemplate =>
              n \in 1..Replicas /\ machines[n].index = StartMachines[n].index
        /\ machines[n].phase = "Deleting" => machines[n].deleted

PlaneNodes ==
    DOMAIN nodes \subseteq DOMAIN machines /\ Cardinality(DOMAIN nodes) >= Replicas

(***************************************************************************)
(* Unless users delete Machines, none of the template is ever deleted.     *)
(***************************************************************************)
NoUserDeleted == budget["deletes"] = Bounds["deletes"]

UpdatedIsKept ==
    NoUserDeleted => \A n \in DOMAIN machines :
                        machines[n].spec = StartTemplate => ~machines[n].deleted

(***************************************************************************)
(* What a reconcile read, as far as it still holds.                        *)
(***************************************************************************)
infoHolds(m) ==
    /\ m.name \in 1..created /\ m.index \in PlaneIndexes
    /\ m.needsUpdate => m.name \in 1..Replicas /\ m.index = StartMachines[m.name].index
    /\ ~m.needsUpdate /\ NoUserDeleted => m.name \in DOMAIN machines
    /\ m.name \in DOMAIN machines =>
          /\ machines[m.name].index = m.index
          /\ m.needsUpdate <=> machines[m.name].spec # StartTemplate

ViewHolds ==
    /\ \A m \in view : infoHolds(m)
    /\ \A m, n \in view : m.name = n.name => m = n

LoopsOverPlane == todo \subseteq PlaneIndexes

PlaneInv ==
    /\ TemplateStays /\ DeletesAreSpent
    /\ PlaneMachines /\ PlaneNodes /\ UpdatedIsKept
    /\ ViewHolds /\ LoopsOverPlane

LEMMA PlaneInit == RollsOverThePlane /\ Init => PlaneInv
<1> SUFFICES ASSUME RollsOverThePlane, Init PROVE PlaneInv
  OBVIOUS
<1> USE DEF Init
<1>1. TemplateStays /\ DeletesAreSpent
  BY BoundsAssumption DEF TemplateStays, StartTemplate, DeletesAreSpent, Disruption
<1>2. \A n \in 1..Replicas : StartMachines[n].index \in PlaneIndexes
  BY DEF RollsOverThePlane
<1>3. PlaneMachines
  BY <1>2 DEF PlaneMachines
<1>4. PlaneNodes
  BY FS_Interval, ReplicasAssumption DEF PlaneNodes
<1>5. UpdatedIsKept
  BY DEF UpdatedIsKept
<1> QED
  BY <1>1, <1>3, <1>4, <1>5 DEF PlaneInv, ViewHolds, LoopsOverPlane

-----------------------------------------------------------------------------
(***************************************************************************)
(* The Machine deleteReplacedMachines settles on.  Of the Machines of an   *)
(* index one at most is outdated, so unless users deleted some, it is the  *)
(* outdated one, and the others there were are there still.                *)
(***************************************************************************)
LEMMA RetiresReplaced ==
    ASSUME TypeInv, ReplacementInv, PlaneInv, NoUserDeleted,
           NEW i, NEW m, DeleteReplacedMachine(i, m)
    PROVE  /\ m \in view /\ m.index = i /\ m.needsUpdate
           /\ \E u \in DOMAIN machines \ {m.name} :
                 /\ machines[u].index = i /\ machines[u].spec = StartTemplate
                 /\ ~machines[u].deleted
<1> DEFINE ms == ofIndex(view, i)
<1>1. m \in toDeleteMachine(ms) /\ ~m.deleted
  BY DEF DeleteReplacedMachine, wantsDelete, isDeletedMachine
<1>2. \A u \in ms : u \in view /\ u.index = i
  BY DEF ofIndex
<1>3. \A u \in ms : ~u.needsUpdate =>
         /\ u.name \in DOMAIN machines /\ machines[u.name].index = i
         /\ machines[u.name].spec = StartTemplate /\ ~machines[u.name].deleted
  BY <1>2 DEF PlaneInv, ViewHolds, infoHolds, UpdatedIsKept
<1>4. \A u, v \in ms : u.name = v.name => u = v
  BY <1>2 DEF PlaneInv, ViewHolds
<1>5. ~(Cardinality(updatedMachines(ms)) > 1)
  <2>1. \A u, v \in updatedMachines(ms) : u = v
    BY <1>3, <1>4 DEF updatedMachines, ReplacementInv, NoDuplicateReplacement
  <2>2. Cardinality(updatedMachines(ms)) \in {0, 1}
    BY <2>1, AtMostOne
  <2> QED
    BY <2>2
<1>6. m \in ms /\ m.needsUpdate /\ ~(Cardinality(ms) < 2)
  BY <1>1, <1>5 DEF toDeleteMachine, nonReadyMachines, needReplacementMachines, isDeletedMachine
<1>7. PICK u \in ms : u # m
  <2>1. ms # {m}
    <3> HIDE DEF ms
    <3> QED
      BY <1>6, FS_Singleton
  <2> QED
    BY <1>6, <2>1
<1>8. ~u.needsUpdate
  <2>1. \A v \in ms : v.needsUpdate => v.name \in 1..Replicas /\ i = StartMachines[v.name].index
    BY <1>2 DEF PlaneInv, ViewHolds, infoHolds
  <2> QED
    BY <1>4, <1>6, <1>7, <2>1, StartAssumption
<1> QED
  BY <1>2, <1>3, <1>4, <1>6, <1>7, <1>8

(***************************************************************************)
(* Steps keep the Machines, Nodes and deletions of the plane.              *)
(***************************************************************************)
LEMMA NoUserDeletedBefore ==
    ASSUME TypeInv, DeletesAreSpent, [Next]_vars, NoUserDeleted'
    PROVE  NoUserDeleted /\ \A n : ~UserDeletesMachine(n)
<1>1. "deletes" \in Disruption /\ Bounds["deletes"] \in Nat /\ budget \in [Disruption -> Nat]
  BY BoundsAssumption DEF Disruption, TypeInv, TypeOK
<1>2. budget'["deletes"] \in Nat /\ budget'["deletes"] <= budget["deletes"]
  BY <1>1, BudgetsShrink
<1>3. NoUserDeleted
  BY <1>1, <1>2 DEF NoUserDeleted, DeletesAreSpent
<1>4. ASSUME NEW n, UserDeletesMachine(n) PROVE FALSE
  BY <1>1, <1>3, <1>4 DEF UserDeletesMachine, spend, NoUserDeleted
<1> QED
  BY <1>3, <1>4

PlaneStep ==
    /\ PlaneMachines' /\ DOMAIN nodes' \subseteq DOMAIN machines' /\ UpdatedIsKept'
    /\ NoUserDeleted' => \A n \in DOMAIN machines : machines[n].spec = StartTemplate =>
                             n \in DOMAIN machines'

LEMMA PlaneSteps ==
    ASSUME TypeInv, ReplacementInv, PlaneInv, [Next]_vars
    PROVE  PlaneStep
<1> USE DEF PlaneStep, PlaneMachines, UpdatedIsKept
<1>1. /\ \A n \in DOMAIN machines : machines[n] \in Machine
      /\ PlaneMachines /\ UpdatedIsKept /\ DOMAIN nodes \subseteq DOMAIN machines
  BY DEF TypeInv, TypeOK, isObjectsOf, PlaneInv, PlaneNodes
<1>2. NoUserDeleted' => NoUserDeleted /\ \A n : ~UserDeletesMachine(n)
  BY NoUserDeletedBefore DEF PlaneInv
<1>3. ASSUME UNCHANGED <<machines, nodes>> PROVE PlaneStep
  BY <1>1, <1>2, <1>3
<1>4. ASSUME NEW m, EnsureOwnerReference(m) PROVE PlaneStep
  BY <1>1, <1>2, <1>4 DEF EnsureOwnerReference, Machine
<1>5. ASSUME NEW i, NEW m, DeleteReplacedMachine(i, m) PROVE PlaneStep
  <2>1. NoUserDeleted /\ m.name \in DOMAIN machines => machines[m.name].spec # StartTemplate
    BY <1>5, RetiresReplaced DEF PlaneInv, ViewHolds, infoHolds
  <2> QED
    BY <1>1, <1>2, <1>5, <2>1 DEF DeleteReplacedMachine, DeleteMachine, Machine
<1>6. ASSUME NEW i \in todo, CreateMachine(i) PROVE PlaneStep
  <2>1. template = StartTemplate /\ i \in PlaneIndexes /\ UNCHANGED nodes
    BY <1>6 DEF CreateMachine, PlaneInv, TemplateStays, LoopsOverPlane
  <2> QED
    BY <1>1, <1>2, <1>6, <2>1, CreatedMachine
<1>7. ASSUME NEW n, LinkNode(n) PROVE PlaneStep
  BY <1>1, <1>2, <1>7 DEF LinkNode, machineStep, Machine
<1>8. ASSUME NEW n, MarkDeleting(n) PROVE PlaneStep
  BY <1>1, <1>2, <1>8 DEF MarkDeleting, machineStep, Machine
<1>9. ASSUME NEW n, MachineFails(n) PROVE PlaneStep
  BY <1>1, <1>2, <1>9 DEF MachineFails, machineStep, Machine
<1>10. ASSUME NEW n, UserDeletesMachine(n) PROVE PlaneStep
  BY <1>1, <1>2, <1>10 DEF UserDeletesMachine, DeleteMachine, machineStep, Machine
<1>11. ASSUME NEW n, RemoveMachine(n) PROVE PlaneStep
  BY <1>1, <1>2, <1>11 DEF RemoveMachine, Restrict, machineStep
<1>12. ASSUME NEW n, RegisterNode(n) \/ NodeReady(n) \/ NodeNotReady(n) \/ RemoveNode(n)
       PROVE  PlaneStep
  <2>1. UNCHANGED machines
    BY <1>12 DEF RegisterNode, NodeReady, NodeNotReady, RemoveNode, nodeStep
  <2>2. DOMAIN nodes' \subseteq DOMAIN machines
    BY <1>1, <1>12 DEF RegisterNode, NodeReady, NodeNotReady, RemoveNode, Restrict
  <2> QED
    BY <1>1, <1>2, <2>1, <2>2
<1> HIDE DEF PlaneStep
<1> QED
  BY <1>3, <1>4, <1>5, <1>6, <1>7, <1>8, <1>9, <1>10, <1>11, <1>12
  DEF Next, ReconcileStep, MachineControllerStep, Reconcile, SkipIndex,
      CheckForExistingReplacement, AbortReconcile, SyncCPMS, SyncMachines, SyncNodes, EditCPMS,
      vars, serverVars

(***************************************************************************)
(* The etcd operator's hook: no Node goes unless Replicas others are ready. *)
(***************************************************************************)
LEMMA EnoughNodes ==
    ASSUME TypeInv, Cardinality(DOMAIN nodes) >= Replicas, [Next]_vars
    PROVE  Cardinality(DOMAIN nodes') >= Replicas
<1>1. IsFiniteSet(DOMAIN nodes) /\ IsFiniteSet(DOMAIN nodes')
  <2>1. TypeInv'
    BY NextTyped
  <2> QED
    BY <2>1, ObjectsAreFinite DEF TypeInv, TypeOK, Names
<1>2. /\ Cardinality(DOMAIN nodes) \in Nat /\ Cardinality(DOMAIN nodes') \in Nat
      /\ Replicas \in Nat
  BY <1>1, FS_CardinalityType, ReplicasAssumption
<1>3. CASE DOMAIN nodes \subseteq DOMAIN nodes'
  <2>1. DOMAIN nodes \in SUBSET DOMAIN nodes'
    BY <1>3
  <2>2. Cardinality(DOMAIN nodes) <= Cardinality(DOMAIN nodes')
    BY <1>1, <2>1, FS_Subset
  <2> QED
    BY <1>2, <2>2
<1>4. ASSUME NEW n, RemoveNode(n) PROVE Cardinality(DOMAIN nodes') >= Replicas
  <2> DEFINE ready == {k \in DOMAIN nodes \ {n} : nodes[k] = "ready"}
  <2>1. Cardinality(ready) >= Replicas /\ ready \in SUBSET DOMAIN nodes'
    BY <1>4 DEF RemoveNode, etcdAllowsRemoval, Restrict
  <2> HIDE DEF ready
  <2>2. IsFiniteSet(ready) /\ Cardinality(ready) <= Cardinality(DOMAIN nodes')
    BY <1>1, <2>1, FS_Subset
  <2>3. Cardinality(ready) \in Nat
    BY <2>2, FS_CardinalityType
  <2> QED
    BY <1>2, <2>1, <2>2, <2>3
<1>5. (~\E n : RemoveNode(n)) => DOMAIN nodes \subseteq DOMAIN nodes'
  BY DEF Next, ReconcileStep, MachineControllerStep, Reconcile, EnsureOwnerReference,
         DeleteReplacedMachine, SkipIndex, CheckForExistingReplacement, CreateMachine,
         AbortReconcile, SyncCPMS, SyncMachines, SyncNodes, RegisterNode, LinkNode, NodeReady,
         NodeNotReady, MachineFails, MarkDeleting, RemoveMachine, UserDeletesMachine, EditCPMS,
         machineStep, nodeStep, vars, serverVars
<1> QED
  BY <1>3, <1>4, <1>5

(***************************************************************************)
(* What a reconcile read holds on, and what it reads holds.                *)
(***************************************************************************)
LEMMA InfoHoldsNext ==
    ASSUME TypeInv, PlaneInv, [Next]_vars, PlaneStep, NEW m, infoHolds(m)
    PROVE  infoHolds(m)'
<1>1. NoUserDeleted' => NoUserDeleted
  BY NoUserDeletedBefore DEF PlaneInv
<1> QED
  BY <1>1, IdentityAcrossSteps DEF infoHolds, PlaneStep

LEMMA ReadInfosHold ==
    ASSUME RollsOverThePlane, TypeInv, PlaneInv, Reconcile,
           NEW m \in GetMachineInfos(machineCache, nodeCache, cpmsCache.template)
    PROVE  infoHolds(m)
<1>1. PICK n \in DOMAIN machineCache :
         m = generateMachineInfo(n, machineCache, nodeCache, cpmsCache.template)
  BY DEF GetMachineInfos
<1>2. machineCache = machines
  BY DEF Reconcile, RollsOverThePlane, RollingOnFreshReads, cacheVars
<1>3. m.name = n /\ m.index = machines[n].index /\ (m.needsUpdate <=> machines[n].spec # StartTemplate)
  BY <1>1, <1>2 DEF generateMachineInfo, PlaneInv, TemplateStays
<1>4. n \in DOMAIN machines /\ n \in 1..created
  BY <1>2 DEF TypeInv, TypeOK, isObjectsOf
<1> QED
  BY <1>3, <1>4 DEF PlaneInv, PlaneMachines, infoHolds

LEMMA ViewHoldsNext ==
    ASSUME RollsOverThePlane, TypeInv, PlaneInv, [Next]_vars, PlaneStep
    PROVE  ViewHolds'
<1>1. \A m \in view : infoHolds(m) /\ infoHolds(m)'
  BY InfoHoldsNext DEF PlaneInv, ViewHolds
<1>2. \A m, n \in view : m.name = n.name => m = n
  BY DEF PlaneInv, ViewHolds
<1>3. CASE view' \subseteq view
  BY <1>1, <1>2, <1>3 DEF ViewHolds
<1>4. ASSUME NEW m \in view, view' \subseteq (view \ {m}) \cup {[m EXCEPT !.owner = "cpms"]}
      PROVE  ViewHolds'
  <2> DEFINE new == [m EXCEPT !.owner = "cpms"]
  <2>1. new.name = m.name /\ new.index = m.index /\ new.needsUpdate = m.needsUpdate
    BY DEF TypeInv, TypeOK, MachineInfo
  <2>2. infoHolds(new)'
    BY <1>1, <2>1 DEF infoHolds
  <2> QED
    BY <1>1, <1>2, <1>4, <2>1, <2>2 DEF ViewHolds
<1>5. CASE /\ Reconcile
           /\ view' \subseteq GetMachineInfos(machineCache, nodeCache, cpmsCache.template)
  <2>1. \A m \in view' : infoHolds(m)'
    BY <1>5, ReadInfosHold, InfoHoldsNext
  <2>2. \A m \in view' : m = generateMachineInfo(m.name, machineCache, nodeCache, cpmsCache.template)
    BY <1>5 DEF GetMachineInfos, generateMachineInfo
  <2> QED
    BY <2>1, <2>2 DEF ViewHolds
<1> QED
  BY <1>3, <1>4, <1>5, ViewKinds

(***************************************************************************)
(* The loop runs over indexes of the plane: those of its MachineInfos, and *)
(* gaps filled from index 0 (machineInfosByIndex).                         *)
(***************************************************************************)
LEMMA UpdatesLoopOverPlane ==
    ASSUME NEW strat, NEW ms, reconcileMachineUpdates(strat, ms),
           \A m \in ms : m.index \in PlaneIndexes
    PROVE  todo' \subseteq PlaneIndexes
<1>1. machineInfosByIndex(ms) \subseteq PlaneIndexes
  BY DEF machineInfosByIndex, PlaneIndexes
<1>2. todo' \subseteq machineInfosByIndex(ms)
  BY DEF reconcileMachineUpdates, continueWith, worksOn, endReconcile
<1> QED
  BY <1>1, <1>2

LEMMA LoopsNext ==
    ASSUME RollsOverThePlane, TypeInv, PlaneInv, [Next]_vars
    PROVE  LoopsOverPlane'
<1> USE DEF LoopsOverPlane
<1>1. CASE todo' \subseteq todo
  BY <1>1 DEF PlaneInv
<1>2. CASE Reconcile
  <2> DEFINE ms == GetMachineInfos(machineCache, nodeCache, cpmsCache.template)
  <2>1. \A m \in ms : m.index \in PlaneIndexes
    BY <1>2, ReadInfosHold DEF infoHolds
  <2>2. todo' = {} \/ todo' = todo \/ reconcileMachineUpdates(cpmsCache.strategy, ms)
    BY <1>2 DEF Reconcile, endReconcile
  <2> HIDE DEF ms
  <2> QED
    BY <1>1, <2>1, <2>2, UpdatesLoopOverPlane
<1>3. ASSUME NEW m \in view, EnsureOwnerReference(m) PROVE LoopsOverPlane'
  <2> DEFINE ms == (view \ {m}) \cup {[m EXCEPT !.owner = "cpms"]}
  <2>1. \A k \in ms : k.index \in PlaneIndexes
    BY DEF PlaneInv, ViewHolds, infoHolds, TypeInv, TypeOK, MachineInfo
  <2>2. todo' = {} \/ todo' = todo \/ reconcileMachineUpdates(strategy, ms)
    BY <1>3 DEF EnsureOwnerReference, endReconcile
  <2> HIDE DEF ms
  <2> QED
    BY <1>1, <2>1, <2>2, UpdatesLoopOverPlane
<1>4. ASSUME NEW i, NEW m, DeleteReplacedMachine(i, m) PROVE todo' \subseteq todo
  BY <1>4, LoopNarrows DEF DeleteReplacedMachine
<1>5. ASSUME NEW i, SkipIndex(i) PROVE todo' \subseteq todo
  BY <1>5, LoopNarrows DEF SkipIndex
<1>6. ASSUME NEW i, CheckForExistingReplacement(i) PROVE todo' \subseteq todo
  BY <1>6, LoopNarrows DEF CheckForExistingReplacement, endReconcile
<1>7. ASSUME NEW i, CreateMachine(i) PROVE todo' \subseteq todo
  BY <1>7, LoopNarrows DEF CreateMachine
<1>8. AbortReconcile => todo' \subseteq todo
  BY DEF AbortReconcile, endReconcile
<1>9. CASE ~ReconcileStep /\ ~AbortReconcile
  BY <1>1, <1>9, OthersKeepLocals DEF localVars
<1> QED
  BY <1>1, <1>2, <1>3, <1>4, <1>5, <1>6, <1>7, <1>8, <1>9 DEF ReconcileStep

LEMMA PlaneNext ==
    RollsOverThePlane /\ TypeInv /\ ReplacementInv /\ PlaneInv /\ [Next]_vars => PlaneInv'
<1> SUFFICES ASSUME RollsOverThePlane, TypeInv, ReplacementInv, PlaneInv, [Next]_vars
             PROVE  PlaneInv'
  OBVIOUS
<1>1. PlaneStep
  BY PlaneSteps
<1>2. TemplateStays'
  BY TemplateStaysNext DEF PlaneInv, RollsOverThePlane
<1>3. DeletesAreSpent'
  <2>1. "deletes" \in Disruption /\ Bounds["deletes"] \in Nat
    BY BoundsAssumption DEF Disruption
  <2> QED
    BY <2>1, BudgetsShrink DEF PlaneInv, DeletesAreSpent
<1>4. PlaneNodes'
  BY <1>1, EnoughNodes DEF PlaneInv, PlaneNodes, PlaneStep
<1> QED
  BY <1>1, <1>2, <1>3, <1>4, ViewHoldsNext, LoopsNext DEF PlaneInv, PlaneStep

-----------------------------------------------------------------------------
(***************************************************************************)
(* The mapping.  The plane keeps of each Machine its index and whether it  *)
(* has a deletion timestamp.                                               *)
(***************************************************************************)
LEMMA PlaneIs ==
    /\ DOMAIN planeOf(machines) = DOMAIN machines
    /\ \A n \in DOMAIN machines : /\ planeOf(machines)[n].index = machines[n].index
                                 /\ planeOf(machines)[n].leaving = machines[n].deleted
  BY DEF planeOf

(***************************************************************************)
(* The abstract module's own copies of the library's operators.            *)
(***************************************************************************)
LEMMA SameCardinality ==
    ASSUME NEW S PROVE Capacity!Cardinality(S) = Cardinality(S)
  BY Zenon DEF Capacity!Cardinality, Cardinality

LEMMA StayingAre ==
    ASSUME NEW i
    PROVE  Capacity!staying(i) = {n \in DOMAIN machines : /\ machines[n].index = i
                                                          /\ ~machines[n].deleted}
  BY DEF Capacity!staying, planeOf

LEMMA PlaneSize ==
    ASSUME RollsOverThePlane
    PROVE  Cardinality({StartMachines[n].index : n \in 1..Replicas}) = Replicas
<1>1. 0 \in Int /\ Replicas - 1 \in Int /\ 0 <= Replicas - 1
  BY ReplicasAssumption
<1>2. Cardinality(PlaneIndexes) = (Replicas - 1) - 0 + 1
  BY <1>1, FS_Interval DEF PlaneIndexes
<1>3. Cardinality(PlaneIndexes) = Replicas
  BY <1>2, ReplicasAssumption
<1> QED
  BY <1>3 DEF RollsOverThePlane

(***************************************************************************)
(* A plane in which nothing, or one Machine's deletion, changed.           *)
(***************************************************************************)
LEMMA SamePlane ==
    ASSUME DOMAIN machines' = DOMAIN machines,
           \A n \in DOMAIN machines : /\ machines'[n].index = machines[n].index
                                     /\ machines'[n].deleted = machines[n].deleted
    PROVE  planeOf(machines)' = planeOf(machines)
  BY DEF planeOf

LEMMA RetiredPlane ==
    ASSUME TypeInv, NEW n \in DOMAIN machines,
           machines' = [machines EXCEPT ![n].deleted = TRUE]
    PROVE  planeOf(machines)' = [planeOf(machines) EXCEPT ![n].leaving = TRUE]
<1>1. \A k \in DOMAIN machines : machines[k] \in Machine
  BY DEF TypeInv, TypeOK, isObjectsOf
<1>2. DOMAIN machines' = DOMAIN machines
  OBVIOUS
<1>3. \A k \in DOMAIN machines : /\ machines'[k].index = machines[k].index
                                 /\ machines'[k].deleted = IF k = n THEN TRUE ELSE machines[k].deleted
  BY <1>1 DEF Machine
<1>4. planeOf(machines)' = [k \in DOMAIN machines |->
           [index   |-> machines[k].index,
            leaving |-> IF k = n THEN TRUE ELSE machines[k].deleted]]
  BY <1>2, <1>3 DEF planeOf
<1> QED
  BY <1>4 DEF planeOf

(***************************************************************************)
(* The first state is one of the abstract first states.                    *)
(***************************************************************************)
LEMMA InitSimulates ==
    ASSUME RollsOverThePlane, Init
    PROVE  Capacity!Init
<1>1. DOMAIN machines = 1..Replicas /\ \A n \in 1..Replicas :
         machines[n].index = StartMachines[n].index /\ machines[n].deleted = FALSE
  BY DEF Init
<1>2. Capacity!TypeOK
  <2>1. DOMAIN planeOf(machines) \subseteq Names
    BY <1>1, BoundsAssumption, ReplicasAssumption DEF planeOf, Names
  <2>2. planeOf(machines) \in
           [DOMAIN planeOf(machines) ->
              [index : {StartMachines[n].index : n \in 1..Replicas}, leaving : BOOLEAN]]
    BY <1>1 DEF planeOf
  <2>3. budget["deletes"] \in 0..Bounds["deletes"]
    BY BoundsAssumption DEF Init, Disruption
  <2> QED
    BY <2>1, <2>2, <2>3 DEF Capacity!TypeOK
<1>3. ASSUME NEW i \in {StartMachines[n].index : n \in 1..Replicas}
      PROVE  Cardinality(Capacity!staying(i)) = 1
  <2>1. PICK n \in 1..Replicas : i = StartMachines[n].index
    OBVIOUS
  <2>2. Capacity!staying(i) = {n}
    BY <1>1, <2>1, StayingAre, StartAssumption
  <2> QED
    BY <2>2, FS_Singleton
<1>4. \A n \in DOMAIN planeOf(machines) : ~planeOf(machines)[n].leaving
  BY <1>1 DEF planeOf
<1> QED
  BY <1>2, <1>3, <1>4, SameCardinality DEF Capacity!Init, Init

(***************************************************************************)
(* createMachine is Create: the index has one Machine that stays at most,  *)
(* an outdated one, and the surge leaves room.                             *)
(***************************************************************************)
LEMMA CreateSimulates ==
    ASSUME RollsOverThePlane, TypeInv, ReplacementInv, SurgeInv, PlaneInv,
           NEW i \in todo, CreateMachine(i)
    PROVE  Capacity!Next
<1>1. /\ created' \in Names /\ created' \notin DOMAIN machines
      /\ i \in {StartMachines[n].index : n \in 1..Replicas}
  <2>1. created' \in Names
    BY BoundsAssumption DEF CreateMachine, TypeInv, TypeOK, Names
  <2> QED
    BY <2>1, CreatedMachine DEF PlaneInv, LoopsOverPlane, RollsOverThePlane
<1>2. Cardinality(Capacity!staying(i)) <= 1
  <2> DEFINE S == Capacity!staying(i)
  <2>1. \A n \in S : n \in 1..Replicas /\ StartMachines[n].index = i
    <3>1. pc = "checked" /\ current(i) /\ template = StartTemplate
      BY DEF CreateMachine, PlaneInv, TemplateStays
    <3>2. ~existingReplacement(i)
      BY <3>1 DEF ReplacementInv, NoReplacementSinceCheck
    <3> QED
      BY <3>1, <3>2, StayingAre DEF existingReplacement, PlaneInv, PlaneMachines
  <2>2. \A m, n \in S : m = n
    BY <2>1, StartAssumption
  <2> HIDE DEF S
  <2>3. Cardinality(S) \in {0, 1}
    BY <2>2, AtMostOne
  <2> QED
    BY <2>3 DEF S
<1>3. Cardinality(DOMAIN machines) <
         Cardinality({StartMachines[n].index : n \in 1..Replicas}) + maxSurge
  <2>1. machineCount <= Replicas + surgeCount /\ surgeCount < 1
    BY FreshCount
    DEF CreateMachine, inLoop, SurgeInv, StaysRolling, SeenIsCounted, roomToSurge, maxSurge
  <2>2. machineCount \in Nat /\ surgeCount \in Int /\ Replicas \in Nat
    BY CountIsNatural, ReplicasAssumption DEF TypeInv, TypeOK
  <2>3. machineCount < Replicas + 1
    BY <2>1, <2>2
  <2> QED
    BY <2>3, PlaneSize DEF machineCount, maxSurge
<1>4. planeOf(machines)' = [k \in DOMAIN planeOf(machines) \cup {created'} |->
           IF k = created' THEN [index |-> i, leaving |-> FALSE] ELSE planeOf(machines)[k]]
  <2>1. machines'[created'].deleted = FALSE
    BY DEF CreateMachine, newMachine
  <2> QED
    BY <2>1, CreatedMachine DEF planeOf
<1>5. UNCHANGED budget
  BY DEF CreateMachine
<1>6. Capacity!Create(created', i)
  BY <1>1, <1>2, <1>3, <1>4, <1>5, PlaneIs, SameCardinality DEF Capacity!Create
<1> QED
  BY <1>1, <1>6 DEF Capacity!Next

(***************************************************************************)
(* deleteReplacedMachines is Retire, or nothing when the Machine is gone   *)
(* or was deleted meanwhile.                                               *)
(***************************************************************************)
LEMMA DeleteSimulates ==
    ASSUME TypeInv, ReplacementInv, PlaneInv,
           NEW i, NEW m, DeleteReplacedMachine(i, m)
    PROVE  Capacity!Next \/ UNCHANGED Capacity!vars
<1>1. UNCHANGED budget
  BY DEF DeleteReplacedMachine
<1>2. CASE m.name \notin DOMAIN machines
  <2>1. UNCHANGED machines
    BY <1>2 DEF DeleteReplacedMachine, DeleteMachine
  <2> QED
    BY <1>1, <2>1 DEF Capacity!vars, planeOf
<1>3. CASE m.name \in DOMAIN machines
  <2> DEFINE n == m.name
  <2>1. machines' = [machines EXCEPT ![n].deleted = TRUE]
    BY <1>3 DEF DeleteReplacedMachine, DeleteMachine
  <2>2. planeOf(machines)' = [planeOf(machines) EXCEPT ![n].leaving = TRUE]
    BY <1>3, <2>1, RetiredPlane
  <2>3. CASE machines[n].deleted
    <3>1. machines[n].deleted = TRUE
      BY <1>3, <2>3 DEF TypeInv, TypeOK, isObjectsOf, Machine
    <3>2. planeOf(machines)' = planeOf(machines)
      BY <1>3, <2>2, <3>1 DEF planeOf
    <3> QED
      BY <1>1, <3>2 DEF Capacity!vars
  <2>4. CASE ~machines[n].deleted
    <3>1. Capacity!staying(machines[n].index) # {n} \/ budget["deletes"] < Bounds["deletes"]
      <4>1. CASE NoUserDeleted
        <5>1. PICK u \in DOMAIN machines \ {n} : machines[u].index = i /\ ~machines[u].deleted
          BY <4>1, RetiresReplaced
        <5>2. machines[n].index = i
          BY <1>3, <4>1, RetiresReplaced DEF PlaneInv, ViewHolds, infoHolds
        <5> QED
          BY <5>1, <5>2, StayingAre
      <4>2. CASE ~NoUserDeleted
        <5>1. budget["deletes"] \in Nat /\ Bounds["deletes"] \in Nat
          BY BoundsAssumption DEF Disruption, TypeInv, TypeOK
        <5> QED
          BY <4>2, <5>1 DEF NoUserDeleted, PlaneInv, DeletesAreSpent
      <4> QED
        BY <4>1, <4>2
    <3>2. n \in Names
      <4>1. n \in 1..created /\ created \in 1..MaxMachines
        BY <1>3 DEF TypeInv, TypeOK, isObjectsOf, Names
      <4> QED
        BY <4>1, BoundsAssumption DEF Names
    <3>3. Capacity!Retire(n)
      BY <1>1, <1>3, <2>2, <2>4, <3>1, PlaneIs DEF Capacity!Retire
    <3> QED
      BY <3>2, <3>3 DEF Capacity!Next
  <2> QED
    BY <2>3, <2>4
<1> QED
  BY <1>2, <1>3

LEMMA UserSimulates ==
    ASSUME TypeInv, NEW n \in Names, UserDeletesMachine(n)
    PROVE  Capacity!Next
<1>1. n \in DOMAIN machines /\ ~machines[n].deleted /\ budget["deletes"] > 0
  BY DEF UserDeletesMachine, spend
<1>2. budget'["deletes"] = budget["deletes"] - 1
  BY DEF UserDeletesMachine, spend, TypeInv, TypeOK, Disruption
<1>3. machines' = [machines EXCEPT ![n].deleted = TRUE]
  BY <1>1 DEF UserDeletesMachine, DeleteMachine
<1>4. Capacity!UserRetires(n)
  BY <1>1, <1>2, <1>3, RetiredPlane, PlaneIs DEF Capacity!UserRetires
<1> QED
  BY <1>4 DEF Capacity!Next

(***************************************************************************)
(* A Machine is removed after its Node, and the etcd hook left Replicas    *)
(* other Nodes, each of a Machine that is still there.                     *)
(***************************************************************************)
LEMMA RemoveSimulates ==
    ASSUME RollsOverThePlane, TypeInv, PlaneInv, NEW n \in Names, RemoveMachine(n)
    PROVE  Capacity!Next
<1>1. n \in DOMAIN machines /\ machines[n].deleted /\ UNCHANGED budget
  BY DEF RemoveMachine, PlaneInv, PlaneMachines
<1>2. Cardinality(DOMAIN machines \ {n}) >= Replicas
  <2> DEFINE others == DOMAIN machines \ {n}
  <2>1. IsFiniteSet(others)
    BY CountIsNatural, FS_RemoveElement
  <2>2. DOMAIN nodes \in SUBSET others
    BY DEF RemoveMachine, PlaneInv, PlaneNodes
  <2> HIDE DEF others
  <2>3. IsFiniteSet(DOMAIN nodes) /\ Cardinality(DOMAIN nodes) <= Cardinality(others)
    BY <2>1, <2>2, FS_Subset
  <2>4. Cardinality(DOMAIN nodes) \in Nat /\ Cardinality(others) \in Nat /\ Replicas \in Nat
    BY <2>1, <2>3, FS_CardinalityType, ReplicasAssumption
  <2>5. Cardinality(others) >= Replicas
    BY <2>3, <2>4 DEF PlaneInv, PlaneNodes
  <2> QED
    BY <2>5 DEF others
<1>3. planeOf(machines)' = Restrict(planeOf(machines), DOMAIN planeOf(machines) \ {n})
  BY DEF RemoveMachine, planeOf, Restrict
<1>4. Capacity!Remove(n)
  BY <1>1, <1>2, <1>3, PlaneIs, PlaneSize, SameCardinality
  DEF Capacity!Remove, Restrict, Capacity!Restrict
<1> QED
  BY <1>4 DEF Capacity!Next

(***************************************************************************)
(* Every step is an abstract step, or leaves the plane as it is.           *)
(***************************************************************************)
LEMMA StepSimulates ==
    ASSUME RollsOverThePlane, TypeInv, ReplacementInv, SurgeInv, PlaneInv, [Next]_vars
    PROVE  [Capacity!Next]_(Capacity!vars)
<1>1. \A n \in DOMAIN machines : machines[n] \in Machine
  BY DEF TypeInv, TypeOK, isObjectsOf
<1>2. ASSUME planeOf(machines)' = planeOf(machines), budget'["deletes"] = budget["deletes"]
      PROVE  UNCHANGED Capacity!vars
  BY <1>2 DEF Capacity!vars
<1>3. ASSUME UNCHANGED machines, budget'["deletes"] = budget["deletes"]
      PROVE  UNCHANGED Capacity!vars
  BY <1>2, <1>3 DEF planeOf
<1>4. ASSUME NEW m, EnsureOwnerReference(m) PROVE UNCHANGED Capacity!vars
  <2>1. /\ DOMAIN machines' = DOMAIN machines
        /\ \A n \in DOMAIN machines : /\ machines'[n].index = machines[n].index
                                     /\ machines'[n].deleted = machines[n].deleted
    BY <1>1, <1>4 DEF EnsureOwnerReference, Machine
  <2> QED
    BY <1>2, <1>4, <2>1, SamePlane DEF EnsureOwnerReference
<1>5. ASSUME NEW n, LinkNode(n) \/ MarkDeleting(n) \/ MachineFails(n)
      PROVE  UNCHANGED Capacity!vars
  <2>1. /\ DOMAIN machines' = DOMAIN machines
        /\ \A k \in DOMAIN machines : /\ machines'[k].index = machines[k].index
                                     /\ machines'[k].deleted = machines[k].deleted
    BY <1>1, <1>5 DEF LinkNode, MarkDeleting, MachineFails, Machine
  <2>2. budget'["deletes"] = budget["deletes"]
    BY <1>5 DEF LinkNode, MarkDeleting, MachineFails, spend, Disruption, TypeInv, TypeOK
  <2> QED
    BY <1>2, <2>1, <2>2, SamePlane
<1>6. CASE \/ AbortReconcile
           \/ \E n \in Names : NodeNotReady(n)
           \/ \E spec \in CPMSSpec : EditCPMS(spec)
  <2>1. UNCHANGED machines
    BY <1>6 DEF AbortReconcile, NodeNotReady, EditCPMS, nodeStep, serverVars
  <2>2. budget'["deletes"] = budget["deletes"]
    BY <1>6 DEF AbortReconcile, NodeNotReady, EditCPMS, spend, Disruption, TypeInv, TypeOK
  <2> QED
    BY <1>3, <2>1, <2>2
<1>7. CASE UNCHANGED <<machines, budget>>
  BY <1>3, <1>7
<1>8. ASSUME NEW n \in Names, MachineControllerStep(n) PROVE [Capacity!Next]_(Capacity!vars)
  BY <1>5, <1>7, <1>8, RemoveSimulates
  DEF MachineControllerStep, RegisterNode, NodeReady, RemoveNode, nodeStep
<1>9. CASE ReconcileStep
  BY <1>4, <1>7, <1>9, CreateSimulates, DeleteSimulates
  DEF ReconcileStep, Reconcile, SkipIndex, CheckForExistingReplacement, serverVars
<1>10. CASE SyncCPMS \/ SyncMachines \/ SyncNodes \/ UNCHANGED vars
  BY <1>7, <1>10 DEF SyncCPMS, SyncMachines, SyncNodes, vars, serverVars
<1> QED
  BY <1>5, <1>6, <1>8, <1>9, <1>10, UserSimulates DEF Next

(***************************************************************************)
(* The rolling update implements the capacity it promises: it makes before *)
(* it breaks, one Machine too many at a time, and no Machine goes before   *)
(* there are others enough (reconcileMachineRollingUpdate).                *)
(***************************************************************************)
THEOREM RollingUpdateImplementsCapacity ==
    ASSUME RollsOverThePlane
    PROVE  Spec => ImplementsCapacity
<1> DEFINE Inv == TypeInv /\ ReplacementInv /\ SurgeInv /\ PlaneInv
<1>1. RollingOnFreshReads
  BY DEF RollsOverThePlane
<1>2. Init => Inv
  BY <1>1, InitTyped, ReplacementInit, SurgeInit, PlaneInit
<1>3. Inv /\ [Next]_vars => Inv'
  BY <1>1, NextTyped, ReplacementNext, SurgeNext, PlaneNext
<1>4. Init => Capacity!Init
  BY InitSimulates
<1>5. Inv /\ [Next]_vars => [Capacity!Next]_(Capacity!vars)
  BY StepSimulates
<1> QED
  BY <1>2, <1>3, <1>4, <1>5, PTL DEF Spec, ImplementsCapacity, Capacity!Spec

=============================================================================
