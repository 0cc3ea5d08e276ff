-------------------- MODULE ControlPlaneMachineSetProofs --------------------
(***************************************************************************)
(* Proofs about ControlPlaneMachineSet, for every number of replicas,      *)
(* every start and every bound.                                            *)
(***************************************************************************)
EXTENDS ControlPlaneMachineSet, FiniteSetTheorems, TLAPS

-----------------------------------------------------------------------------
(***************************************************************************)
(* Lemmas about the operators.                                             *)
(***************************************************************************)

(***************************************************************************)
(* The values of a function on a finite set are finitely many, and no more *)
(* than the set's elements.                                                *)
(***************************************************************************)
LEMMA ImageIsFinite ==
    ASSUME NEW S, IsFiniteSet(S), NEW f, DOMAIN f = S
    PROVE  /\ IsFiniteSet({f[x] : x \in S})
           /\ Cardinality({f[x] : x \in S}) <= Cardinality(S)
<1> DEFINE T == {f[x] : x \in S}
           g == [x \in S |-> f[x]]
<1>1. g \in [S -> T]
  OBVIOUS
<1>2. \A t \in T : \E x \in S : g[x] = t
  OBVIOUS
<1>3. g \in Surjection(S, T)
  BY <1>1, <1>2 DEF Surjection
<1> QED
  BY <1>3, FS_Surjection

(***************************************************************************)
(* A collection of objects is finite: names are numbers up to `created'.   *)
(***************************************************************************)
LEMMA ObjectsAreFinite ==
    ASSUME NEW k \in Nat, NEW objects, NEW Kind, isObjectsOf(objects, 1..k, Kind)
    PROVE  IsFiniteSet(DOMAIN objects)
  BY FS_Interval, FS_Subset DEF isObjectsOf

(***************************************************************************)
(* Replacing, adding and removing an object, and more names to choose from. *)
(***************************************************************************)
LEMMA ReplacedObject ==
    ASSUME NEW objects, NEW names, NEW Kind, isObjectsOf(objects, names, Kind),
           NEW n \in DOMAIN objects, NEW v \in Kind
    PROVE  isObjectsOf([objects EXCEPT ![n] = v], names, Kind)
  BY DEF isObjectsOf

LEMMA AddedObject ==
    ASSUME NEW objects, NEW names, NEW Kind, isObjectsOf(objects, names, Kind),
           NEW n \in names, NEW v \in Kind
    PROVE  isObjectsOf([k \in DOMAIN objects \cup {n} |-> IF k = n THEN v ELSE objects[k]],
                       names, Kind)
  BY DEF isObjectsOf

LEMMA RemovedObject ==
    ASSUME NEW objects, NEW names, NEW Kind, isObjectsOf(objects, names, Kind), NEW n
    PROVE  isObjectsOf(Restrict(objects, DOMAIN objects \ {n}), names, Kind)
  BY DEF isObjectsOf, Restrict

LEMMA MoreNames ==
    ASSUME NEW objects, NEW k \in Nat, NEW Kind, isObjectsOf(objects, 1..k, Kind)
    PROVE  isObjectsOf(objects, 1..(k + 1), Kind)
  BY DEF isObjectsOf

(***************************************************************************)
(* GetMachineInfos returns finitely many MachineInfos, whose names are     *)
(* those of the Machines, so no fewer than there are Machines.             *)
(***************************************************************************)
LEMMA InfosAreTyped ==
    ASSUME NEW k \in Nat, NEW ms, NEW ns, NEW t \in Templates,
           isObjectsOf(ms, 1..k, Machine)
    PROVE  /\ GetMachineInfos(ms, ns, t) \subseteq MachineInfo
           /\ IsFiniteSet(GetMachineInfos(ms, ns, t))
           /\ DOMAIN ms = {m.name : m \in GetMachineInfos(ms, ns, t)}
<1> DEFINE info == [n \in DOMAIN ms |-> generateMachineInfo(n, ms, ns, t)]
<1>1. ASSUME NEW n \in DOMAIN ms
      PROVE  generateMachineInfo(n, ms, ns, t) \in MachineInfo
  <2>1. ms[n] \in Machine /\ n \in Nat
    BY <1>1 DEF isObjectsOf
  <2>2. ms[n].nodeRef \in BOOLEAN /\ ms[n].deleted \in BOOLEAN
        /\ ms[n].index \in Nat /\ ms[n].owner \in Owner
    BY <2>1 DEF Machine
  <2>3. isMachineReady(ms[n], ns[n]) \in BOOLEAN
    BY DEF isMachineReady, isNodeReady, isNodeNotReadyWithinNodeGracePeriod
  <2> QED
    BY <2>1, <2>2, <2>3 DEF generateMachineInfo, MachineInfo
<1>2. GetMachineInfos(ms, ns, t) = {info[n] : n \in DOMAIN ms}
  BY DEF GetMachineInfos
<1>3. IsFiniteSet(DOMAIN ms)
  BY ObjectsAreFinite
<1>4. IsFiniteSet(GetMachineInfos(ms, ns, t))
  <2>1. DOMAIN info = DOMAIN ms
    OBVIOUS
  <2> HIDE DEF info
  <2> QED
    BY <2>1, <1>2, <1>3, ImageIsFinite
<1>5. \A n \in DOMAIN ms : generateMachineInfo(n, ms, ns, t).name = n
  BY DEF generateMachineInfo
<1> QED
  BY <1>1, <1>4, <1>5 DEF GetMachineInfos

LEMMA IndexesAreNaturals ==
    ASSUME NEW ms, ms \subseteq MachineInfo
    PROVE  machineInfosByIndex(ms) \subseteq Nat
  BY ReplicasAssumption DEF machineInfosByIndex, MachineInfo

-----------------------------------------------------------------------------
(***************************************************************************)
(* Types.  The surge count is a number because the MachineInfos a          *)
(* reconcile works on are finitely many; TypeOK alone does not say so.     *)
(***************************************************************************)
ViewIsFinite == IsFiniteSet(view)

TypeInv == TypeOK /\ ViewIsFinite

(***************************************************************************)
(* The types of the variables that continueWith, endReconcile and          *)
(* reconcileMachineUpdates assign.                                         *)
(***************************************************************************)
LocalsTyped ==
    /\ pc \in {"idle", "owners", "update", "create", "checked"}
    /\ todo \subseteq Nat
    /\ view \subseteq MachineInfo
    /\ IsFiniteSet(view)
    /\ surgeCount \in Int

LEMMA EndReconcileTyped ==
    ASSUME endReconcile
    PROVE  LocalsTyped'
  BY FS_EmptySet DEF endReconcile, LocalsTyped

LEMMA ContinueTyped ==
    ASSUME NEW strat, NEW indexes, NEW ms, NEW surge \in Int,
           indexes \subseteq Nat, ms \subseteq MachineInfo, IsFiniteSet(ms),
           continueWith(strat, indexes, ms, surge)
    PROVE  LocalsTyped'
<1> DEFINE left == worksOn(strat, indexes, ms, surge)
<1>1. left \subseteq Nat
  BY DEF worksOn
<1>2. /\ todo' = left
      /\ view' = {m \in ms : m.index \in left}
      /\ pc' \in {"idle", "update"}
      /\ surgeCount' \in {0, surge}
  BY DEF continueWith
<1> HIDE DEF left
<1>3. IsFiniteSet(view')
  BY <1>2, FS_Subset
<1> QED
  BY <1>1, <1>2, <1>3 DEF LocalsTyped

LEMMA UpdatesTyped ==
    ASSUME NEW strat, NEW ms,
           ms \subseteq MachineInfo, IsFiniteSet(ms), reconcileMachineUpdates(strat, ms)
    PROVE  LocalsTyped' /\ degraded' \in DegradedReason
<1>1. degraded' \in DegradedReason
  BY DEF reconcileMachineUpdates, DegradedReason
<1>2. CASE strat \in {"RollingUpdate", "OnDelete"}
  <2> DEFINE surge == IF strat = "RollingUpdate" THEN deviseExistingSurge(ms) ELSE 0
  <2>1. surge \in Int
    BY FS_CardinalityType, ReplicasAssumption DEF deviseExistingSurge
  <2>2. continueWith(strat, machineInfosByIndex(ms), ms, surge)
    BY <1>2 DEF reconcileMachineUpdates
  <2> HIDE DEF surge
  <2> QED
    BY <2>1, <2>2, <1>1, IndexesAreNaturals, ContinueTyped
<1>3. CASE strat \notin {"RollingUpdate", "OnDelete"}
  BY <1>1, <1>3, EndReconcileTyped DEF reconcileMachineUpdates
<1> QED
  BY <1>2, <1>3

LEMMA ReasonTyped ==
    ASSUME NEW ms, NEW names, NEW strat
    PROVE  validateClusterState(ms, names, strat) \in DegradedReason
  BY DEF validateClusterState, getDegradedCondition, DegradedReason

(***************************************************************************)
(* The first state has its types.                                          *)
(***************************************************************************)
LEMMA InitTyped == Init => TypeInv
<1> SUFFICES ASSUME Init PROVE TypeInv
  OBVIOUS
<1> USE DEF Init
<1>1. isObjectsOf(machines, 1..created, Machine)
  BY StartAssumption, ReplicasAssumption DEF isObjectsOf, Machine, Phase
<1>2. isObjectsOf(nodes, 1..created, NodeState)
  BY DEF isObjectsOf, NodeState
<1>3. created \in Names
  BY ReplicasAssumption, BoundsAssumption DEF Names
<1>4. cpms \in CPMSSpec /\ template \in Templates /\ strategy \in Strategy
  BY StartAssumption DEF CPMSSpec
<1>5. degraded \in DegradedReason /\ budget \in [Disruption -> Nat]
  BY BoundsAssumption DEF DegradedReason
<1>6. ViewIsFinite
  BY FS_EmptySet DEF ViewIsFinite
<1> QED
  BY <1>1, <1>2, <1>3, <1>4, <1>5, <1>6 DEF TypeInv, TypeOK

(***************************************************************************)
(* The steps of the reconcile keep the types.                              *)
(***************************************************************************)
LEMMA ReconcileTyped ==
    ASSUME TypeInv, Reconcile
    PROVE  TypeInv'
<1> DEFINE ms     == GetMachineInfos(machineCache, nodeCache, cpmsCache.template)
           reason == validateClusterState(ms, DOMAIN nodeCache, cpmsCache.strategy)
<1>1. cpmsCache.template \in Templates /\ cpmsCache.strategy \in Strategy /\ created \in Nat
  BY DEF TypeInv, TypeOK, CPMSSpec, Names
<1>2. ms \subseteq MachineInfo /\ IsFiniteSet(ms)
  BY <1>1, InfosAreTyped DEF TypeInv, TypeOK
<1>3. reason \in DegradedReason
  BY ReasonTyped
<1>4. LocalsTyped' /\ degraded' \in DegradedReason
  <2>1. CASE stopsProcessing(reason, cpmsCache)
    <3>1. degraded' = reason /\ endReconcile
      BY <2>1 DEF Reconcile
    <3> QED
      BY <3>1, <1>3, EndReconcileTyped
  <2>2. CASE ~stopsProcessing(reason, cpmsCache) /\ \E m \in ms : lacksOwner(m)
    <3>1. pc' = "owners" /\ view' = ms /\ UNCHANGED <<todo, surgeCount>> /\ degraded' = reason
      BY <2>2 DEF Reconcile
    <3> QED
      BY <3>1, <1>2, <1>3 DEF LocalsTyped, TypeInv, TypeOK
  <2>3. CASE ~stopsProcessing(reason, cpmsCache) /\ ~\E m \in ms : lacksOwner(m)
    <3>1. reconcileMachineUpdates(cpmsCache.strategy, ms)
      BY <2>3 DEF Reconcile
    <3> QED
      BY <3>1, <1>2, UpdatesTyped
  <2> QED
    BY <2>1, <2>2, <2>3
<1>5. template' \in Templates /\ strategy' \in Strategy
  BY <1>1 DEF Reconcile
<1>6. seen' \subseteq 1..created
  BY DEF Reconcile, hasSeen, TypeInv, TypeOK, isObjectsOf
<1> QED
  BY <1>4, <1>5, <1>6 DEF Reconcile, TypeInv, TypeOK, LocalsTyped, ViewIsFinite, serverVars, cacheVars

LEMMA EnsureOwnerTyped ==
    ASSUME TypeInv, NEW m, EnsureOwnerReference(m)
    PROVE  TypeInv'
<1> DEFINE ms == (view \ {m}) \cup {[m EXCEPT !.owner = "cpms"]}
<1>1. m \in MachineInfo
  BY DEF EnsureOwnerReference, TypeInv, TypeOK
<1>2. ms \subseteq MachineInfo
  BY <1>1 DEF MachineInfo, Owner, TypeInv, TypeOK
<1>3. IsFiniteSet(ms)
  BY FS_RemoveElement, FS_AddElement DEF TypeInv, ViewIsFinite
<1>4. isObjectsOf(machines', 1..created, Machine)
  <2>1. CASE m.name \in DOMAIN machines
    <3> DEFINE new == [machines[m.name] EXCEPT !.owner = "cpms"]
    <3>1. machines[m.name] \in Machine
      BY <2>1 DEF TypeInv, TypeOK, isObjectsOf
    <3>2. new \in Machine
      BY <3>1 DEF Machine, Owner
    <3>3. machines' = [machines EXCEPT ![m.name] = new]
      BY <2>1 DEF EnsureOwnerReference
    <3> QED
      BY <2>1, <3>2, <3>3, ReplacedObject DEF TypeInv, TypeOK
  <2>2. CASE m.name \notin DOMAIN machines
    BY <2>2 DEF EnsureOwnerReference, TypeInv, TypeOK
  <2> QED
    BY <2>1, <2>2
<1>5. LocalsTyped' /\ degraded' \in DegradedReason
  <2>1. CASE m.name \in DOMAIN machines /\ \E n \in ms : lacksOwner(n)
    <3>1. view' = ms /\ UNCHANGED <<pc, todo, surgeCount, degraded>>
      BY <2>1 DEF EnsureOwnerReference
    <3> QED
      BY <3>1, <1>2, <1>3 DEF LocalsTyped, TypeInv, TypeOK
  <2>2. CASE m.name \in DOMAIN machines /\ ~\E n \in ms : lacksOwner(n)
    <3>1. reconcileMachineUpdates(strategy, ms)
      BY <2>2 DEF EnsureOwnerReference
    <3> QED
      BY <3>1, <1>2, <1>3, UpdatesTyped
  <2>3. CASE m.name \notin DOMAIN machines
    <3>1. endReconcile /\ degraded' \in {degraded, "MachinesAlreadyOwned"}
      BY <2>3 DEF EnsureOwnerReference
    <3> QED
      BY <3>1, EndReconcileTyped DEF TypeInv, TypeOK, DegradedReason
  <2> QED
    BY <2>1, <2>2, <2>3
<1> QED
  BY <1>4, <1>5 DEF EnsureOwnerReference, hasSeen, TypeInv, TypeOK, LocalsTyped, ViewIsFinite, cacheVars

(***************************************************************************)
(* The loop over the indexes: deletion, creation and what lies between.    *)
(***************************************************************************)
LEMMA LoopContinues ==
    ASSUME TypeInv, NEW i, NEW surge \in Int,
           continueWith(strategy, todo \ {i}, view, surge)
    PROVE  LocalsTyped'
  BY ContinueTyped DEF TypeInv, TypeOK, ViewIsFinite

LEMMA DeleteReplacedTyped ==
    ASSUME TypeInv, NEW i, NEW m, DeleteReplacedMachine(i, m)
    PROVE  TypeInv'
<1>1. isObjectsOf(machines', 1..created, Machine)
  <2>1. CASE m.name \in DOMAIN machines
    <3> DEFINE new == [machines[m.name] EXCEPT !.deleted = TRUE]
    <3>1. machines[m.name] \in Machine
      BY <2>1 DEF TypeInv, TypeOK, isObjectsOf
    <3>2. new \in Machine
      BY <3>1 DEF Machine
    <3>3. machines' = [machines EXCEPT ![m.name] = new]
      BY <2>1 DEF DeleteReplacedMachine, DeleteMachine
    <3> QED
      BY <2>1, <3>2, <3>3, ReplacedObject DEF TypeInv, TypeOK
  <2>2. CASE m.name \notin DOMAIN machines
    BY <2>2 DEF DeleteReplacedMachine, DeleteMachine, TypeInv, TypeOK
  <2> QED
    BY <2>1, <2>2
<1>2. LocalsTyped'
  <2>1. CASE pc' = "create" /\ UNCHANGED <<todo, view, surgeCount>>
    BY <2>1 DEF LocalsTyped, TypeInv, TypeOK, ViewIsFinite
  <2>2. CASE continueWith(strategy, todo \ {i}, view, surgeCount)
    BY <2>2, LoopContinues DEF TypeInv, TypeOK
  <2> QED
    BY <2>1, <2>2 DEF DeleteReplacedMachine
<1> QED
  BY <1>1, <1>2
  DEF DeleteReplacedMachine, hasSeen, TypeInv, TypeOK, LocalsTyped, ViewIsFinite, cacheVars

LEMMA SkipIndexTyped ==
    ASSUME TypeInv, NEW i, SkipIndex(i)
    PROVE  TypeInv'
<1>1. LocalsTyped'
  BY LoopContinues DEF SkipIndex, TypeInv, TypeOK
<1> QED
  BY <1>1 DEF SkipIndex, hasSeen, TypeInv, TypeOK, LocalsTyped, ViewIsFinite, serverVars, cacheVars

LEMMA CheckForExistingTyped ==
    ASSUME TypeInv, NEW i, CheckForExistingReplacement(i)
    PROVE  TypeInv'
<1>1. LocalsTyped'
  <2>1. CASE endReconcile
    BY <2>1, EndReconcileTyped
  <2>2. CASE continueWith(strategy, todo \ {i}, view, surgeCount)
    BY <2>2, LoopContinues DEF TypeInv, TypeOK
  <2>3. CASE pc' = "checked" /\ UNCHANGED <<todo, view, surgeCount>>
    BY <2>3 DEF LocalsTyped, TypeInv, TypeOK, ViewIsFinite
  <2> QED
    BY <2>1, <2>2, <2>3 DEF CheckForExistingReplacement
<1> QED
  BY <1>1
  DEF CheckForExistingReplacement, hasSeen, TypeInv, TypeOK, LocalsTyped, ViewIsFinite, serverVars, cacheVars

LEMMA CreateMachineTyped ==
    ASSUME TypeInv, NEW i \in todo, CreateMachine(i)
    PROVE  TypeInv'
<1>1. created' = created + 1 /\ created \in Nat /\ created' \in Names
  BY BoundsAssumption DEF CreateMachine, TypeInv, TypeOK, Names
<1>2. /\ isObjectsOf(machines, 1..created', Machine)
      /\ isObjectsOf(machineCache, 1..created', Machine)
      /\ isObjectsOf(nodes, 1..created', NodeState)
      /\ isObjectsOf(nodeCache, 1..created', NodeState)
  BY <1>1, MoreNames DEF TypeInv, TypeOK
<1>3. newMachine(i, template) \in Machine
  BY DEF newMachine, Machine, Phase, Owner, TypeInv, TypeOK
<1>4. isObjectsOf(machines', 1..created', Machine)
  <2>1. created' \in 1..created'
    BY <1>1
  <2>2. machines' = [k \in DOMAIN machines \cup {created'} |->
                        IF k = created' THEN newMachine(i, template) ELSE machines[k]]
    BY DEF CreateMachine
  <2> QED
    BY <1>2, <1>3, <2>1, <2>2 DEF isObjectsOf
<1>5. LocalsTyped'
  <2> DEFINE surge == surgeAfterCreation(strategy, surgeCount)
  <2>1. surge \in Int
    BY DEF TypeInv, TypeOK, surgeAfterCreation
  <2>2. continueWith(strategy, todo \ {i}, view, surge)
    BY DEF CreateMachine
  <2> HIDE DEF surge
  <2> QED
    BY <2>1, <2>2, LoopContinues
<1>6. seen' \subseteq 1..created'
  <2>1. seen' \subseteq seen \cup {created'} /\ seen \subseteq 1..created
    BY DEF CreateMachine, hasSeen, TypeInv, TypeOK
  <2> QED
    BY <1>1, <2>1
<1> QED
  BY <1>1, <1>2, <1>4, <1>5, <1>6
  DEF CreateMachine, TypeInv, TypeOK, LocalsTyped, ViewIsFinite, cacheVars

LEMMA AbortTyped ==
    ASSUME TypeInv, AbortReconcile
    PROVE  TypeInv'
<1>1. LocalsTyped'
  BY EndReconcileTyped DEF AbortReconcile
<1>2. budget' \in [Disruption -> Nat]
  BY DEF AbortReconcile, spend, Disruption, TypeInv, TypeOK
<1> QED
  BY <1>1, <1>2
  DEF AbortReconcile, hasSeen, TypeInv, TypeOK, LocalsTyped, ViewIsFinite, serverVars, cacheVars

(***************************************************************************)
(* Everyone else's steps.  A Machine or a Node is replaced by one of its   *)
(* kind, added or removed.                                                 *)
(***************************************************************************)
LEMMA MachineStepTyped ==
    ASSUME TypeInv, machineStep, budget' \in [Disruption -> Nat],
           isObjectsOf(machines', 1..created, Machine)
    PROVE  TypeInv'
  BY DEF machineStep, TypeInv, TypeOK, ViewIsFinite, cacheVars, localVars

LEMMA NodeStepTyped ==
    ASSUME TypeInv, nodeStep, budget' \in [Disruption -> Nat],
           isObjectsOf(nodes', 1..created, NodeState)
    PROVE  TypeInv'
  BY DEF nodeStep, TypeInv, TypeOK, ViewIsFinite, cacheVars, localVars

LEMMA SpendTyped ==
    ASSUME TypeInv, NEW d, spend(d) \/ UNCHANGED budget
    PROVE  budget' \in [Disruption -> Nat]
  BY DEF spend, TypeInv, TypeOK

LEMMA SyncTyped ==
    ASSUME TypeInv, SyncCPMS \/ SyncMachines \/ SyncNodes
    PROVE  TypeInv'
  BY DEF SyncCPMS, SyncMachines, SyncNodes, TypeInv, TypeOK, ViewIsFinite,
         serverVars, localVars

LEMMA EditTyped ==
    ASSUME TypeInv, NEW spec \in CPMSSpec, EditCPMS(spec)
    PROVE  TypeInv'
<1>1. budget' \in [Disruption -> Nat]
  BY SpendTyped DEF EditCPMS
<1> QED
  BY <1>1 DEF EditCPMS, TypeInv, TypeOK, ViewIsFinite, cacheVars, localVars

LEMMA MachineWritten ==
    ASSUME TypeInv, NEW n,
           \/ LinkNode(n) \/ MachineFails(n) \/ MarkDeleting(n) \/ UserDeletesMachine(n)
    PROVE  isObjectsOf(machines', 1..created, Machine)
<1>1. n \in DOMAIN machines
  BY DEF LinkNode, MachineFails, MarkDeleting, UserDeletesMachine
<1>2. machines[n] \in Machine
  BY <1>1 DEF TypeInv, TypeOK, isObjectsOf
<1>3. PICK v \in Machine : machines' = [machines EXCEPT ![n] = v]
  <2>1. CASE LinkNode(n)
    <3> DEFINE v == [machines[n] EXCEPT
                        !.nodeRef = TRUE,
                        !.phase = IF @ = "Provisioning" THEN "Running" ELSE @]
    <3>1. v \in Machine
      BY <1>2 DEF Machine, Phase
    <3>2. machines' = [machines EXCEPT ![n] = v]
      BY <2>1, <1>1, <1>2 DEF LinkNode, Machine
    <3> QED
      BY <3>1, <3>2
  <2>2. CASE MachineFails(n)
    <3> DEFINE v == [machines[n] EXCEPT !.phase = "Failed"]
    <3>1. v \in Machine
      BY <1>2 DEF Machine, Phase
    <3> QED
      BY <2>2, <3>1 DEF MachineFails
  <2>3. CASE MarkDeleting(n)
    <3> DEFINE v == [machines[n] EXCEPT !.phase = "Deleting"]
    <3>1. v \in Machine
      BY <1>2 DEF Machine, Phase
    <3> QED
      BY <2>3, <3>1 DEF MarkDeleting
  <2>4. CASE UserDeletesMachine(n)
    <3> DEFINE v == [machines[n] EXCEPT !.deleted = TRUE]
    <3>1. v \in Machine
      BY <1>2 DEF Machine
    <3> QED
      BY <1>1, <2>4, <3>1 DEF UserDeletesMachine, DeleteMachine
  <2> QED
    BY <2>1, <2>2, <2>3, <2>4
<1> QED
  BY <1>1, <1>3, ReplacedObject DEF TypeInv, TypeOK

LEMMA ExternalTyped ==
    ASSUME TypeInv, NEW n \in Names,
           \/ MachineControllerStep(n)
           \/ NodeNotReady(n) \/ MachineFails(n) \/ UserDeletesMachine(n)
    PROVE  TypeInv'
<1>1. CASE RegisterNode(n)
  <2>1. n \in 1..created /\ "brief" \in NodeState
    BY <1>1 DEF RegisterNode, TypeInv, TypeOK, isObjectsOf, NodeState
  <2>2. isObjectsOf(nodes', 1..created, NodeState)
    BY <1>1, <2>1 DEF RegisterNode, TypeInv, TypeOK, isObjectsOf
  <2> QED
    BY <1>1, <2>2, SpendTyped, NodeStepTyped DEF RegisterNode
<1>2. CASE LinkNode(n) \/ MarkDeleting(n) \/ MachineFails(n) \/ UserDeletesMachine(n)
  <2>1. machineStep
    BY <1>2 DEF LinkNode, MarkDeleting, MachineFails, UserDeletesMachine
  <2>2. budget' \in [Disruption -> Nat]
    BY <1>2, SpendTyped DEF LinkNode, MarkDeleting, MachineFails, UserDeletesMachine
  <2> QED
    BY <1>2, <2>1, <2>2, MachineWritten, MachineStepTyped
<1>3. CASE NodeReady(n) \/ NodeNotReady(n)
  <2>1. n \in DOMAIN nodes /\ nodeStep
    BY <1>3 DEF NodeReady, NodeNotReady
  <2>2. \E v \in NodeState : nodes' = [nodes EXCEPT ![n] = v]
    BY <1>3 DEF NodeReady, NodeNotReady, NodeState
  <2>3. budget' \in [Disruption -> Nat]
    BY <1>3, SpendTyped DEF NodeReady, NodeNotReady
  <2>4. isObjectsOf(nodes', 1..created, NodeState)
    <3>1. PICK v \in NodeState : nodes' = [nodes EXCEPT ![n] = v]
      BY <2>2
    <3>2. isObjectsOf(nodes, 1..created, NodeState)
      BY DEF TypeInv, TypeOK
    <3> QED
      BY <2>1, <3>1, <3>2 DEF isObjectsOf
  <2> QED
    BY <2>1, <2>3, <2>4, NodeStepTyped
<1>4. CASE RemoveNode(n)
  BY <1>4, RemovedObject, SpendTyped, NodeStepTyped DEF RemoveNode, TypeInv, TypeOK
<1>5. CASE RemoveMachine(n)
  BY <1>5, RemovedObject, SpendTyped, MachineStepTyped DEF RemoveMachine, TypeInv, TypeOK
<1> QED
  BY <1>1, <1>2, <1>3, <1>4, <1>5 DEF MachineControllerStep

(***************************************************************************)
(* Every step keeps the types.                                             *)
(***************************************************************************)
LEMMA NextTyped == TypeInv /\ [Next]_vars => TypeInv'
<1> SUFFICES ASSUME TypeInv, [Next]_vars PROVE TypeInv'
  OBVIOUS
<1>1. CASE ReconcileStep
  <2>1. CASE Reconcile
    BY <2>1, ReconcileTyped
  <2>2. CASE \E m \in view : EnsureOwnerReference(m)
    BY <2>2, EnsureOwnerTyped
  <2>3. ASSUME NEW i \in todo, NEW m \in view, DeleteReplacedMachine(i, m) PROVE TypeInv'
    BY <2>3, DeleteReplacedTyped
  <2>4. ASSUME NEW i \in todo, SkipIndex(i) PROVE TypeInv'
    BY <2>4, SkipIndexTyped
  <2>5. ASSUME NEW i \in todo, CheckForExistingReplacement(i) PROVE TypeInv'
    BY <2>5, CheckForExistingTyped
  <2>6. ASSUME NEW i \in todo, CreateMachine(i) PROVE TypeInv'
    BY <2>6, CreateMachineTyped
  <2> QED
    BY <1>1, <2>1, <2>2, <2>3, <2>4, <2>5, <2>6 DEF ReconcileStep
<1>2. CASE AbortReconcile
  BY <1>2, AbortTyped
<1>3. CASE SyncCPMS \/ SyncMachines \/ SyncNodes
  BY <1>3, SyncTyped
<1>4. CASE \E n \in Names : \/ MachineControllerStep(n)
                            \/ NodeNotReady(n) \/ MachineFails(n) \/ UserDeletesMachine(n)
  BY <1>4, ExternalTyped
<1>5. CASE \E spec \in CPMSSpec : EditCPMS(spec)
  BY <1>5, EditTyped
<1>6. CASE UNCHANGED vars
  BY <1>6 DEF TypeInv, TypeOK, ViewIsFinite, vars, serverVars, cacheVars, localVars
<1> QED
  BY <1>1, <1>2, <1>3, <1>4, <1>5, <1>6 DEF Next

LEMMA AlwaysTyped == Spec => []TypeInv
  BY InitTyped, NextTyped, PTL DEF Spec

(***************************************************************************)
(* Every variable always has its type, however many replicas, Machines and *)
(* disruptions there are: the reconcile's local state (controller.go,      *)
(* updates.go) and the objects it reads and writes.                        *)
(***************************************************************************)
THEOREM TypeCorrect == Spec => []TypeOK
<1>1. TypeInv => TypeOK
  BY DEF TypeInv
<1> QED
  BY <1>1, AlwaysTyped, PTL

-----------------------------------------------------------------------------
(***************************************************************************)
(* No duplicate replacements.  Between the uncached check and the creation *)
(* there is one more step of the reconcile, and any number of steps of     *)
(* everyone else; none of them makes a replacement appear, because no step *)
(* but the creation itself adds a Machine, gives it another index or       *)
(* provider config, or takes a deletion back.                              *)
(***************************************************************************)
NoReplacementSinceCheck ==
    pc = "checked" => \A i \in todo : current(i) => ~existingReplacement(i)

ReplacementInv == NoDuplicateReplacement /\ NoReplacementSinceCheck

MachinesKeepIdentity ==
    /\ DOMAIN machines' \subseteq DOMAIN machines
    /\ \A n \in DOMAIN machines' :
          /\ machines'[n].index = machines[n].index
          /\ machines'[n].spec = machines[n].spec
          /\ machines[n].deleted => machines'[n].deleted

(***************************************************************************)
(* Every step but a creation keeps the Machines' identities.               *)
(***************************************************************************)
LEMMA IdentityKept ==
    ASSUME TypeInv, [Next]_vars, ~\E i \in todo : CreateMachine(i)
    PROVE  MachinesKeepIdentity
<1> USE DEF MachinesKeepIdentity
<1>1. \A n \in DOMAIN machines : machines[n] \in Machine
  BY DEF TypeInv, TypeOK, isObjectsOf
<1>2. CASE UNCHANGED machines
  BY <1>2
<1>3. ASSUME NEW m, EnsureOwnerReference(m) PROVE MachinesKeepIdentity
  BY <1>1, <1>3 DEF EnsureOwnerReference, Machine
<1>4. ASSUME NEW i, NEW m, DeleteReplacedMachine(i, m) PROVE MachinesKeepIdentity
  BY <1>1, <1>4 DEF DeleteReplacedMachine, DeleteMachine, Machine
<1>5. ASSUME NEW n, LinkNode(n) PROVE MachinesKeepIdentity
  BY <1>1, <1>5 DEF LinkNode, Machine
<1>6. ASSUME NEW n, MachineFails(n) PROVE MachinesKeepIdentity
  BY <1>1, <1>6 DEF MachineFails, Machine
<1>7. ASSUME NEW n, MarkDeleting(n) PROVE MachinesKeepIdentity
  BY <1>1, <1>7 DEF MarkDeleting, Machine
<1>8. ASSUME NEW n, UserDeletesMachine(n) PROVE MachinesKeepIdentity
  BY <1>1, <1>8 DEF UserDeletesMachine, DeleteMachine, Machine
<1>9. ASSUME NEW n, RemoveMachine(n) PROVE MachinesKeepIdentity
  BY <1>9 DEF RemoveMachine, Restrict
<1>10. CASE Reconcile \/ AbortReconcile \/ SyncCPMS \/ SyncMachines \/ SyncNodes \/ UNCHANGED vars
  BY <1>2, <1>10
  DEF Reconcile, AbortReconcile, SyncCPMS, SyncMachines, SyncNodes, vars, serverVars
<1>11. ASSUME NEW i, SkipIndex(i) \/ CheckForExistingReplacement(i) PROVE MachinesKeepIdentity
  BY <1>2, <1>11 DEF SkipIndex, CheckForExistingReplacement, serverVars
<1>12. ASSUME NEW n, RegisterNode(n) \/ NodeReady(n) \/ NodeNotReady(n) \/ RemoveNode(n)
       PROVE  MachinesKeepIdentity
  BY <1>2, <1>12 DEF RegisterNode, NodeReady, NodeNotReady, RemoveNode, nodeStep
<1>13. ASSUME NEW spec, EditCPMS(spec) PROVE MachinesKeepIdentity
  BY <1>2, <1>13 DEF EditCPMS
<1> HIDE DEF MachinesKeepIdentity
<1> QED
  BY <1>3, <1>4, <1>5, <1>6, <1>7, <1>8, <1>9, <1>10, <1>11, <1>12, <1>13
  DEF Next, ReconcileStep, MachineControllerStep

(***************************************************************************)
(* A step that arrives at, or stays at, "checked".                         *)
(***************************************************************************)
LEMMA StepsToChecked ==
    ASSUME TypeInv, [Next]_vars, pc' = "checked"
    PROVE  \/ /\ pc = "checked" /\ UNCHANGED <<todo, template>>
           \/ \E i \in todo : /\ CheckForExistingReplacement(i)
                              /\ current(i) /\ ~existingReplacement(i)
                              /\ UNCHANGED <<todo, template, machines>>
<1> USE DEF continueWith, endReconcile, reconcileMachineUpdates
<1>1. ~Reconcile /\ ~AbortReconcile
  BY DEF Reconcile, AbortReconcile
<1>2. ASSUME NEW m, EnsureOwnerReference(m) PROVE FALSE
  BY <1>2 DEF EnsureOwnerReference
<1>3. ASSUME NEW i, NEW m, DeleteReplacedMachine(i, m) PROVE FALSE
  BY <1>3 DEF DeleteReplacedMachine
<1>4. ASSUME NEW i, SkipIndex(i) \/ CreateMachine(i) PROVE FALSE
  BY <1>4 DEF SkipIndex, CreateMachine
<1>5. ASSUME NEW i, CheckForExistingReplacement(i)
      PROVE  current(i) /\ ~existingReplacement(i) /\ UNCHANGED <<todo, template, machines>>
  BY <1>5 DEF CheckForExistingReplacement, serverVars
<1>6. CASE ~\E i \in todo : CheckForExistingReplacement(i)
  <2>1. UNCHANGED localVars
    BY <1>1, <1>2, <1>3, <1>4, <1>6
    DEF Next, ReconcileStep, MachineControllerStep, SyncCPMS, SyncMachines, SyncNodes, vars,
        RegisterNode, LinkNode, NodeReady, NodeNotReady, MachineFails, MarkDeleting, RemoveNode,
        RemoveMachine, UserDeletesMachine, EditCPMS, machineStep, nodeStep
  <2> QED
    BY <2>1 DEF localVars
<1> QED
  BY <1>5, <1>6

LEMMA ReplacementInit == Init => ReplacementInv
  BY StartAssumption DEF Init, ReplacementInv, NoDuplicateReplacement, NoReplacementSinceCheck

LEMMA ReplacementNext == TypeInv /\ ReplacementInv /\ [Next]_vars => ReplacementInv'
<1> SUFFICES ASSUME TypeInv, ReplacementInv, [Next]_vars PROVE ReplacementInv'
  OBVIOUS
<1>1. ASSUME NEW i \in todo, CreateMachine(i) PROVE ReplacementInv'
  <2>1. pc' # "checked"
    BY <1>1 DEF CreateMachine, continueWith
  <2>2. /\ machines' = [n \in DOMAIN machines \cup {created'} |->
                           IF n = created' THEN newMachine(i, template) ELSE machines[n]]
        /\ created' \notin DOMAIN machines
    BY <1>1 DEF CreateMachine, TypeInv, TypeOK, isObjectsOf, Names
  <2>3. \A n \in DOMAIN machines :
           machines[n].index = i /\ machines[n].spec = template => machines[n].deleted
    BY <1>1 DEF CreateMachine, ReplacementInv, NoReplacementSinceCheck, existingReplacement
  <2>4. machines'[created'].index = i /\ machines'[created'].spec = template
    BY <2>2 DEF newMachine
  <2>5. NoDuplicateReplacement'
    BY <2>2, <2>3, <2>4 DEF ReplacementInv, NoDuplicateReplacement
  <2> QED
    BY <2>1, <2>5 DEF ReplacementInv, NoReplacementSinceCheck
<1>2. CASE ~\E i \in todo : CreateMachine(i)
  <2>1. MachinesKeepIdentity
    BY <1>2, IdentityKept
  <2>2. NoDuplicateReplacement'
    BY <2>1 DEF MachinesKeepIdentity, ReplacementInv, NoDuplicateReplacement
  <2>3. NoReplacementSinceCheck'
    <3> SUFFICES ASSUME pc' = "checked" PROVE \A i \in todo' : current(i)' => ~existingReplacement(i)'
      BY DEF NoReplacementSinceCheck
    <3>1. UNCHANGED <<todo, template>> /\ \A i \in todo : current(i) => ~existingReplacement(i)
      BY StepsToChecked DEF ReplacementInv, NoReplacementSinceCheck, current, TypeInv, TypeOK
    <3> QED
      BY <3>1, <2>1 DEF current, existingReplacement, MachinesKeepIdentity
  <2> QED
    BY <2>2, <2>3 DEF ReplacementInv
<1> QED
  BY <1>1, <1>2

(***************************************************************************)
(* However stale the caches and whoever interferes, createMachine never    *)
(* adds a second replacement for an index.                                 *)
(***************************************************************************)
THEOREM NeverDuplicates == Spec => []NoDuplicateReplacement
<1>1. ReplacementInv => NoDuplicateReplacement
  BY DEF ReplacementInv
<1>2. Init => TypeInv /\ ReplacementInv
  BY InitTyped, ReplacementInit
<1>3. TypeInv /\ ReplacementInv /\ [Next]_vars => (TypeInv /\ ReplacementInv)'
  BY NextTyped, ReplacementNext
<1> QED
  BY <1>1, <1>2, <1>3, PTL DEF Spec

-----------------------------------------------------------------------------
(***************************************************************************)
(* The surge limit of the rolling update, for caches of any age.  The      *)
(* surge count stands for the Machines the reconcile has seen: those it    *)
(* listed, and those it created since.  Before the count is taken the      *)
(* MachineInfos stand for it.                                              *)
(***************************************************************************)
inLoop == pc \in {"update", "create", "checked"}

SeenIsCounted ==
    /\ pc = "owners" => seen \subseteq {m.name : m \in view}
    /\ inLoop /\ strategy = "RollingUpdate" => Cardinality(seen) <= Replicas + surgeCount
    /\ pc = "checked" /\ strategy = "RollingUpdate" => roomToSurge(surgeCount)

machineCount == Cardinality(DOMAIN machines)

LEMMA CountIsNatural ==
    ASSUME TypeInv
    PROVE  machineCount \in Nat /\ IsFiniteSet(DOMAIN machines)
<1>1. IsFiniteSet(DOMAIN machines)
  BY ObjectsAreFinite DEF TypeInv, TypeOK, Names
<1> QED
  BY <1>1, FS_CardinalityType DEF machineCount

LEMMA CountOnlyFalls ==
    ASSUME TypeInv, MachinesKeepIdentity
    PROVE  machineCount' \in Nat /\ machineCount' <= machineCount
<1>1. IsFiniteSet(DOMAIN machines) /\ DOMAIN machines' \in SUBSET DOMAIN machines
  BY CountIsNatural DEF MachinesKeepIdentity
<1> QED
  BY <1>1, FS_Subset, FS_CardinalityType DEF machineCount

LEMMA SeenIsFinite ==
    ASSUME TypeInv
    PROVE  IsFiniteSet(seen) /\ Cardinality(seen) \in Nat
<1>1. IsFiniteSet(1..created) /\ seen \in SUBSET (1..created)
  BY FS_Interval DEF TypeInv, TypeOK, Names
<1> QED
  BY <1>1, FS_Subset, FS_CardinalityType

(***************************************************************************)
(* MachineInfos that name every Machine of a set give a surge that counts  *)
(* them all.                                                               *)
(***************************************************************************)
LEMMA ExistingSurgeCounts ==
    ASSUME NEW ms, NEW known, ms \subseteq MachineInfo, IsFiniteSet(ms),
           known \subseteq {m.name : m \in ms}
    PROVE  Cardinality(known) <= Replicas + deviseExistingSurge(ms)
<1> DEFINE name  == [m \in ms |-> m.name]
           names == {name[m] : m \in ms}
<1>1. DOMAIN name = ms /\ known \in SUBSET names
  OBVIOUS
<1> HIDE DEF name
<1>2. IsFiniteSet(names) /\ Cardinality(names) <= Cardinality(ms)
  BY <1>1, ImageIsFinite
<1> HIDE DEF names
<1>3. IsFiniteSet(known) /\ Cardinality(known) <= Cardinality(names)
  BY <1>1, <1>2, FS_Subset
<1>4. /\ Cardinality(ms) \in Nat /\ Cardinality(names) \in Nat
      /\ Cardinality(known) \in Nat
  BY <1>2, <1>3, FS_CardinalityType
<1> QED
  BY <1>2, <1>3, <1>4, ReplicasAssumption DEF deviseExistingSurge

LEMMA UpdatesCounted ==
    ASSUME NEW strat, NEW ms, NEW known, ms \subseteq MachineInfo, IsFiniteSet(ms),
           known \subseteq {m.name : m \in ms},
           reconcileMachineUpdates(strat, ms), strategy' = strat, hasSeen(known)
    PROVE  SeenIsCounted'
<1>1. Cardinality(known) <= Replicas + deviseExistingSurge(ms)
  BY ExistingSurgeCounts
<1>2. /\ pc' \in {"idle", "update"}
      /\ pc' = "update" /\ strat = "RollingUpdate" => surgeCount' = deviseExistingSurge(ms)
      /\ pc' = "update" => seen' = known
  BY DEF reconcileMachineUpdates, continueWith, endReconcile, hasSeen
<1> QED
  BY <1>1, <1>2 DEF SeenIsCounted, inLoop

(***************************************************************************)
(* A creation adds to what was seen, and to the count.                     *)
(***************************************************************************)
LEMMA CreationSeen ==
    ASSUME TypeInv, SeenIsCounted, NEW i \in todo, CreateMachine(i)
    PROVE  SeenIsCounted'
<1>1. /\ pc' \in {"idle", "update"} /\ UNCHANGED strategy
      /\ pc' = "update" => seen' = seen \cup {created'}
      /\ pc' = "update" /\ strategy = "RollingUpdate" => surgeCount' = surgeCount + 1
  BY DEF CreateMachine, continueWith, hasSeen, surgeAfterCreation
<1>2. created' \notin seen
  BY DEF CreateMachine, TypeInv, TypeOK, Names
<1>3. Cardinality(seen \cup {created'}) = Cardinality(seen) + 1
  BY <1>2, SeenIsFinite, FS_AddElement
<1>4. strategy = "RollingUpdate" => Cardinality(seen) <= Replicas + surgeCount
  BY DEF CreateMachine, SeenIsCounted, inLoop
<1>5. surgeCount \in Int /\ Cardinality(seen) \in Nat
  BY SeenIsFinite DEF TypeInv, TypeOK
<1>6. strategy = "RollingUpdate" => Cardinality(seen \cup {created'}) <= Replicas + (surgeCount + 1)
  BY <1>3, <1>4, <1>5, ReplicasAssumption
<1> QED
  BY <1>1, <1>6 DEF SeenIsCounted, inLoop

(***************************************************************************)
(* The reconcile's other steps, and everyone else's, see nothing new.      *)
(***************************************************************************)
LEMMA OthersSeen ==
    ASSUME TypeInv, SeenIsCounted, [Next]_vars, ~\E i \in todo : CreateMachine(i)
    PROVE  SeenIsCounted'
<1>1. CASE UNCHANGED localVars
  BY <1>1 DEF SeenIsCounted, inLoop, localVars, roomToSurge
<1>2. CASE endReconcile
  BY <1>2 DEF endReconcile, SeenIsCounted, inLoop
<1>3. ASSUME NEW i, continueWith(strategy, todo \ {i}, view, surgeCount), hasSeen(seen),
             inLoop, UNCHANGED strategy
      PROVE  SeenIsCounted'
  <2>1. /\ pc' \in {"idle", "update"}
        /\ pc' = "update" => surgeCount' = surgeCount /\ seen' = seen
    BY <1>3 DEF continueWith, hasSeen
  <2> QED
    BY <1>3, <2>1 DEF SeenIsCounted, inLoop
<1>4. CASE Reconcile
  <2> DEFINE ms == GetMachineInfos(machineCache, nodeCache, cpmsCache.template)
  <2>1. cpmsCache.template \in Templates /\ created \in Nat
    BY DEF TypeInv, TypeOK, CPMSSpec, Names
  <2>2. /\ ms \subseteq MachineInfo /\ IsFiniteSet(ms)
        /\ DOMAIN machineCache = {m.name : m \in ms}
    BY <2>1, InfosAreTyped DEF TypeInv, TypeOK
  <2>3. \/ endReconcile
        \/ pc' = "owners" /\ view' = ms
        \/ reconcileMachineUpdates(cpmsCache.strategy, ms)
    BY <1>4 DEF Reconcile
  <2>4. strategy' = cpmsCache.strategy /\ hasSeen(DOMAIN machineCache)
    BY <1>4 DEF Reconcile
  <2> HIDE DEF ms
  <2>5. CASE pc' = "owners" /\ view' = ms
    BY <2>2, <2>4, <2>5 DEF SeenIsCounted, inLoop, hasSeen
  <2> QED
    BY <1>2, <2>2, <2>3, <2>4, <2>5, UpdatesCounted
<1>5. ASSUME NEW m, EnsureOwnerReference(m) PROVE SeenIsCounted'
  <2> DEFINE ms == (view \ {m}) \cup {[m EXCEPT !.owner = "cpms"]}
  <2>1. m \in view /\ view \subseteq MachineInfo /\ IsFiniteSet(view)
    BY <1>5 DEF EnsureOwnerReference, TypeInv, TypeOK, ViewIsFinite
  <2>2. ms \subseteq MachineInfo /\ IsFiniteSet(ms)
    BY <2>1, FS_RemoveElement, FS_AddElement DEF MachineInfo, Owner
  <2>3. seen \subseteq {n.name : n \in view}
    BY <1>5 DEF EnsureOwnerReference, SeenIsCounted
  <2>4. [m EXCEPT !.owner = "cpms"].name = m.name
    BY <2>1 DEF MachineInfo
  <2>5. {n.name : n \in view} \subseteq {n.name : n \in ms}
    BY <2>1, <2>4
  <2>6. seen \subseteq {n.name : n \in ms}
    BY <2>3, <2>5
  <2>7. \/ endReconcile
        \/ view' = ms /\ pc' = pc /\ pc = "owners"
        \/ reconcileMachineUpdates(strategy, ms)
    BY <1>5 DEF EnsureOwnerReference
  <2>8. strategy' = strategy /\ hasSeen(seen)
    BY <1>5 DEF EnsureOwnerReference
  <2> HIDE DEF ms
  <2>9. CASE view' = ms /\ pc' = pc /\ pc = "owners"
    BY <2>6, <2>8, <2>9 DEF SeenIsCounted, inLoop, hasSeen
  <2> QED
    BY <1>2, <2>2, <2>6, <2>7, <2>8, <2>9, UpdatesCounted
<1>6. ASSUME NEW i, NEW m, DeleteReplacedMachine(i, m) PROVE SeenIsCounted'
  <2>1. inLoop /\ UNCHANGED strategy /\ hasSeen(seen)
    BY <1>6 DEF DeleteReplacedMachine, inLoop
  <2>2. CASE pc' = "create" /\ UNCHANGED surgeCount
    BY <2>1, <2>2 DEF SeenIsCounted, inLoop, hasSeen
  <2> QED
    BY <1>3, <1>6, <2>1, <2>2 DEF DeleteReplacedMachine
<1>7. ASSUME NEW i, SkipIndex(i) PROVE SeenIsCounted'
  BY <1>3, <1>7 DEF SkipIndex, pastDeletion, inLoop
<1>8. ASSUME NEW i, CheckForExistingReplacement(i) PROVE SeenIsCounted'
  <2>1. inLoop /\ UNCHANGED strategy /\ hasSeen(seen)
    BY <1>8 DEF CheckForExistingReplacement, pastDeletion, inLoop
  <2>2. CASE pc' = "checked" /\ UNCHANGED surgeCount
    <3>1. strategy = "RollingUpdate" => roomToSurge(surgeCount)
      BY <1>8 DEF CheckForExistingReplacement, wantsCreate, createRollingUpdateReplacementMachines
    <3> QED
      BY <2>1, <2>2, <3>1 DEF SeenIsCounted, inLoop, hasSeen, roomToSurge
  <2> QED
    BY <1>2, <1>3, <1>8, <2>1, <2>2 DEF CheckForExistingReplacement
<1>9. CASE AbortReconcile
  BY <1>2, <1>9 DEF AbortReconcile
<1> QED
  BY <1>1, <1>4, <1>5, <1>6, <1>7, <1>8, <1>9
  DEF Next, ReconcileStep, MachineControllerStep, SyncCPMS, SyncMachines, SyncNodes, vars,
      RegisterNode, LinkNode, NodeReady, NodeNotReady, MachineFails, MarkDeleting, RemoveNode,
      RemoveMachine, UserDeletesMachine, EditCPMS, machineStep, nodeStep

LEMMA SeenCountInit == Init => SeenIsCounted
  BY DEF Init, SeenIsCounted, inLoop

LEMMA SeenCountNext == TypeInv /\ SeenIsCounted /\ [Next]_vars => SeenIsCounted'
  BY CreationSeen, OthersSeen

(***************************************************************************)
(* A creation under the rolling update: there was room for it in what the  *)
(* reconcile had seen.                                                     *)
(***************************************************************************)
LEMMA CreationLimited ==
    ASSUME TypeInv, SeenIsCounted, NEW i \in todo, CreateMachine(i), strategy = "RollingUpdate"
    PROVE  machineCount' <= Replicas + maxSurge + Cardinality(DOMAIN machines \ seen)
<1> DEFINE known   == DOMAIN machines \cap seen
           unknown == DOMAIN machines \ seen
<1>1. DOMAIN machines' = DOMAIN machines \cup {created'} /\ created' \notin DOMAIN machines
  BY DEF CreateMachine, TypeInv, TypeOK, isObjectsOf, Names
<1>2. machineCount' = machineCount + 1
  BY <1>1, CountIsNatural, FS_AddElement DEF machineCount
<1>3. Cardinality(seen) <= Replicas + surgeCount /\ surgeCount < maxSurge
  BY DEF CreateMachine, SeenIsCounted, inLoop, roomToSurge
<1>4. IsFiniteSet(DOMAIN machines) /\ IsFiniteSet(known) /\ IsFiniteSet(unknown)
  BY CountIsNatural, FS_Subset
<1>5. known \in SUBSET seen /\ DOMAIN machines = known \cup unknown /\ known \cap unknown = {}
  OBVIOUS
<1> HIDE DEF known, unknown
<1>6. Cardinality(known) <= Cardinality(seen)
  BY <1>5, SeenIsFinite, FS_Subset
<1>7. machineCount = Cardinality(known) + Cardinality(unknown)
  <2>1. Cardinality(known \cap unknown) = 0
    BY <1>5, FS_EmptySet
  <2>2. Cardinality(known \cup unknown)
           = Cardinality(known) + Cardinality(unknown) - Cardinality(known \cap unknown)
    BY <1>4, FS_Union
  <2>3. Cardinality(known) \in Nat /\ Cardinality(unknown) \in Nat
    BY <1>4, FS_CardinalityType
  <2> QED
    BY <1>5, <2>1, <2>2, <2>3 DEF machineCount
<1>8. /\ Cardinality(seen) \in Nat /\ Cardinality(known) \in Nat /\ Cardinality(unknown) \in Nat
      /\ surgeCount \in Int
  BY <1>4, SeenIsFinite, FS_CardinalityType DEF TypeInv, TypeOK
<1>9. machineCount' <= Replicas + maxSurge + Cardinality(unknown)
  BY <1>2, <1>3, <1>6, <1>7, <1>8, ReplicasAssumption DEF maxSurge
<1> QED
  BY <1>9 DEF unknown

(***************************************************************************)
(* However old the caches, and whoever interferes: a rolling update        *)
(* exceeds its surge limit only by Machines that the reconcile's list did  *)
(* not show it, one for one (createMachineWithSurge and the running count  *)
(* of reconcileMachineRollingUpdate).                                      *)
(***************************************************************************)
THEOREM SurgeLimitedByWhatWasSeen == Spec => CreatesWithinLimit
<1> DEFINE Limited == created' > created /\ strategy = "RollingUpdate" =>
               Cardinality(DOMAIN machines')
                  <= Replicas + maxSurge + Cardinality(DOMAIN machines \ seen)
<1>1. TypeInv /\ SeenIsCounted /\ [Next]_vars => [Limited]_vars
  <2> SUFFICES ASSUME TypeInv, SeenIsCounted, [Next]_vars, created' > created,
                      strategy = "RollingUpdate"
               PROVE  machineCount' <= Replicas + maxSurge + Cardinality(DOMAIN machines \ seen)
    BY DEF machineCount
  <2>1. ASSUME UNCHANGED created PROVE FALSE
    BY <2>1 DEF TypeInv, TypeOK, Names
  <2>2. \E i \in todo : CreateMachine(i)
    BY <2>1 DEF Next, ReconcileStep, MachineControllerStep, Reconcile, EnsureOwnerReference,
         DeleteReplacedMachine, SkipIndex, CheckForExistingReplacement, AbortReconcile,
         SyncCPMS, SyncMachines, SyncNodes, RegisterNode, LinkNode, NodeReady, NodeNotReady,
         MachineFails, MarkDeleting, RemoveNode, RemoveMachine, UserDeletesMachine, EditCPMS,
         machineStep, nodeStep, vars, serverVars
  <2> QED
    BY <2>2, CreationLimited
<1>2. Init => TypeInv /\ SeenIsCounted
  BY InitTyped, SeenCountInit
<1>3. TypeInv /\ SeenIsCounted /\ [Next]_vars => (TypeInv /\ SeenIsCounted)'
  BY NextTyped, SeenCountNext
<1> QED
  BY <1>1, <1>2, <1>3, PTL DEF Spec, CreatesWithinLimit

-----------------------------------------------------------------------------
(***************************************************************************)
(* When no reconcile starts from a stale cache there is nothing it has not *)
(* seen: Machines disappear while it runs, and only its own creations add  *)
(* to them.  (From a stale one the limit is broken: README, Disagreements.) *)
(***************************************************************************)
RollingOnFreshReads ==
    FreshReads /\ StartCPMS.strategy = "RollingUpdate" /\ "strategy" \notin Editable

StaysRolling ==
    /\ cpms.strategy = "RollingUpdate"
    /\ cpmsCache.strategy = "RollingUpdate"
    /\ strategy = "RollingUpdate"

NothingUnseen == pc # "idle" => DOMAIN machines \subseteq seen

SurgeInv == StaysRolling /\ SeenIsCounted /\ NothingUnseen /\ SurgeWithinLimit

LEMMA SurgeInit == RollingOnFreshReads /\ Init => SurgeInv
<1> SUFFICES ASSUME RollingOnFreshReads, Init PROVE SurgeInv
  OBVIOUS
<1>1. Cardinality(1..Replicas) = Replicas
  BY FS_Interval, ReplicasAssumption
<1>2. DOMAIN machines = 1..Replicas
  BY DEF Init
<1>3. SurgeWithinLimit
  BY <1>1, <1>2, ReplicasAssumption DEF SurgeWithinLimit, maxSurge
<1> QED
  BY <1>3, SeenCountInit DEF Init, RollingOnFreshReads, SurgeInv, StaysRolling, NothingUnseen

LEMMA StrategyNext ==
    ASSUME RollingOnFreshReads, TypeInv, StaysRolling, [Next]_vars
    PROVE  StaysRolling'
<1> USE DEF StaysRolling
<1>1. CASE UNCHANGED <<cpms, cpmsCache, strategy>>
  BY <1>1
<1>2. CASE Reconcile
  BY <1>2 DEF Reconcile, serverVars, cacheVars
<1>3. CASE SyncCPMS
  BY <1>3 DEF SyncCPMS, serverVars, localVars
<1>4. ASSUME NEW spec \in CPMSSpec, EditCPMS(spec) PROVE StaysRolling'
  <2>1. spec["strategy"] = cpms["strategy"] /\ cpms' = spec
    BY <1>4 DEF EditCPMS, RollingOnFreshReads
  <2> QED
    BY <1>4, <2>1 DEF EditCPMS, cacheVars, localVars
<1> HIDE DEF StaysRolling
<1> QED
  BY <1>1, <1>2, <1>3, <1>4
  DEF Next, ReconcileStep, MachineControllerStep, SyncMachines, SyncNodes, EnsureOwnerReference,
      DeleteReplacedMachine, SkipIndex, CheckForExistingReplacement, CreateMachine, AbortReconcile,
      RegisterNode, LinkNode, NodeReady, NodeNotReady, MachineFails, MarkDeleting, RemoveNode,
      RemoveMachine, UserDeletesMachine, machineStep, nodeStep, vars, serverVars, cacheVars, localVars

LEMMA UnseenNext ==
    ASSUME RollingOnFreshReads, TypeInv, NothingUnseen, [Next]_vars
    PROVE  NothingUnseen'
<1> USE DEF NothingUnseen
<1>1. ASSUME NEW i \in todo, CreateMachine(i) PROVE NothingUnseen'
  BY <1>1 DEF CreateMachine, hasSeen
<1>2. CASE ~\E i \in todo : CreateMachine(i)
  <2>1. DOMAIN machines' \subseteq DOMAIN machines
    BY <1>2, IdentityKept DEF MachinesKeepIdentity
  <2>2. CASE Reconcile
    BY <2>2 DEF Reconcile, hasSeen, RollingOnFreshReads, cacheVars, serverVars
  <2>3. CASE hasSeen(seen) /\ pc # "idle"
    BY <2>1, <2>3 DEF hasSeen
  <2>4. CASE UNCHANGED localVars
    BY <2>1, <2>4 DEF localVars
  <2> HIDE DEF NothingUnseen
  <2> QED
    BY <1>2, <2>2, <2>3, <2>4
    DEF Next, ReconcileStep, MachineControllerStep, SyncCPMS, SyncMachines, SyncNodes, vars,
        EnsureOwnerReference, DeleteReplacedMachine, SkipIndex, CheckForExistingReplacement,
        AbortReconcile, pastDeletion, RegisterNode, LinkNode, NodeReady, NodeNotReady,
        MachineFails, MarkDeleting, RemoveNode, RemoveMachine, UserDeletesMachine, EditCPMS,
        machineStep, nodeStep
<1> QED
  BY <1>1, <1>2

LEMMA SurgeNext ==
    RollingOnFreshReads /\ TypeInv /\ SurgeInv /\ [Next]_vars => SurgeInv'
<1> SUFFICES ASSUME RollingOnFreshReads, TypeInv, SurgeInv, [Next]_vars PROVE SurgeInv'
  OBVIOUS
<1>1. StaysRolling' /\ SeenIsCounted' /\ NothingUnseen'
  BY StrategyNext, SeenCountNext, UnseenNext DEF SurgeInv
<1>2. ASSUME NEW i \in todo, CreateMachine(i) PROVE SurgeWithinLimit'
  <2>1. machineCount' <= Replicas + maxSurge + Cardinality(DOMAIN machines \ seen)
    BY <1>2, CreationLimited DEF SurgeInv, StaysRolling
  <2>2. DOMAIN machines \ seen = {}
    BY <1>2 DEF CreateMachine, SurgeInv, NothingUnseen
  <2> QED
    BY <2>1, <2>2, FS_EmptySet, ReplicasAssumption DEF SurgeWithinLimit, machineCount, maxSurge
<1>3. CASE ~\E i \in todo : CreateMachine(i)
  <2>1. MachinesKeepIdentity
    BY <1>3, IdentityKept
  <2>2. machineCount' \in Nat /\ machineCount \in Nat /\ machineCount' <= machineCount
    BY <2>1, CountIsNatural, CountOnlyFalls
  <2> QED
    BY <1>1, <2>2, ReplicasAssumption DEF SurgeInv, SurgeWithinLimit, machineCount, maxSurge
<1> QED
  BY <1>1, <1>2, <1>3 DEF SurgeInv

(***************************************************************************)
(* The number of Machines a fresh reconcile has counted bounds the number  *)
(* there are.                                                              *)
(***************************************************************************)
LEMMA FreshCount ==
    ASSUME TypeInv, SurgeInv, inLoop
    PROVE  machineCount <= Replicas + surgeCount
<1>1. Cardinality(seen) <= Replicas + surgeCount /\ DOMAIN machines \in SUBSET seen
  BY DEF SurgeInv, SeenIsCounted, StaysRolling, NothingUnseen, inLoop
<1>2. machineCount <= Cardinality(seen)
  BY <1>1, SeenIsFinite, FS_Subset DEF machineCount
<1>3. machineCount \in Nat /\ Cardinality(seen) \in Nat /\ surgeCount \in Int
  BY CountIsNatural, SeenIsFinite DEF TypeInv, TypeOK
<1> QED
  BY <1>1, <1>2, <1>3, ReplicasAssumption

(***************************************************************************)
(* A rolling update whose reconciles start from up to date caches never    *)
(* runs more than maxSurge Machines above the replicas.                    *)
(***************************************************************************)
LEMMA SurgeLimited ==
    ASSUME RollingOnFreshReads
    PROVE  Spec => []SurgeWithinLimit
<1>1. SurgeInv => SurgeWithinLimit
  BY DEF SurgeInv
<1>2. Init => TypeInv /\ SurgeInv
  BY InitTyped, SurgeInit
<1>3. TypeInv /\ SurgeInv /\ [Next]_vars => (TypeInv /\ SurgeInv)'
  BY NextTyped, SurgeNext
<1> QED
  BY <1>1, <1>2, <1>3, PTL DEF Spec

=============================================================================
