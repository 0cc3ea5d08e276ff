------------------------- MODULE MachineUpdateProofs -------------------------
(***************************************************************************)
(* Proofs about what the update strategies of ControlPlaneMachineSet may   *)
(* do to the Machines, for every number of replicas, every start and every *)
(* bound: nothing while Inactive; under OnDelete no second Machine beside  *)
(* one that is not being deleted; in a roll-out no deletion that leaves an *)
(* index without a ready Machine.                                          *)
(***************************************************************************)
EXTENDS ControlPlaneMachineSetProofs

StartTemplate == StartCPMS.template

(***************************************************************************)
(* A set without two elements.                                             *)
(***************************************************************************)
LEMMA AtMostOne ==
    ASSUME NEW S, \A x, y \in S : x = y
    PROVE  Cardinality(S) \in {0, 1}
<1>1. CASE S = {}
  BY <1>1, FS_EmptySet
<1>2. ASSUME NEW x \in S PROVE Cardinality(S) \in {0, 1}
  <2>1. S = {x}
    BY <1>2
  <2> QED
    BY <2>1, FS_Singleton
<1> QED
  BY <1>1, <1>2

-----------------------------------------------------------------------------
(***************************************************************************)
(* Who changes what.  Only the reconcile changes its local state.          *)
(***************************************************************************)
LEMMA OthersKeepLocals ==
    ASSUME [Next]_vars, ~ReconcileStep, ~AbortReconcile
    PROVE  UNCHANGED localVars
  BY DEF Next, MachineControllerStep, SyncCPMS, SyncMachines, SyncNodes, vars,
         RegisterNode, LinkNode, NodeReady, NodeNotReady, MachineFails, MarkDeleting, RemoveNode,
         RemoveMachine, UserDeletesMachine, EditCPMS, machineStep, nodeStep

(***************************************************************************)
(* Only users change the ControlPlaneMachineSet, and its cache follows.    *)
(***************************************************************************)
LEMMA CPMSIsEdited ==
    ASSUME [Next]_vars
    PROVE  /\ cpmsCache' \in {cpmsCache, cpms}
           /\ cpms' = cpms \/ (cpmsCache' = cpmsCache /\ \E spec \in CPMSSpec : EditCPMS(spec))
           /\ \/ UNCHANGED <<template, strategy>>
              \/ template' = cpmsCache.template /\ strategy' = cpmsCache.strategy
  BY DEF Next, ReconcileStep, MachineControllerStep, Reconcile, EnsureOwnerReference,
         DeleteReplacedMachine, SkipIndex, CheckForExistingReplacement, CreateMachine,
         AbortReconcile, SyncCPMS, SyncMachines, SyncNodes, RegisterNode, LinkNode, NodeReady,
         NodeNotReady, MachineFails, MarkDeleting, RemoveNode, RemoveMachine, UserDeletesMachine,
         EditCPMS, machineStep, nodeStep, vars, serverVars, cacheVars, localVars

(***************************************************************************)
(* A reconcile of an Inactive ControlPlaneMachineSet ends where it starts. *)
(***************************************************************************)
LEMMA InactiveStops ==
    ASSUME Reconcile, ~isActive(cpmsCache)
    PROVE  pc' = "idle"
  BY DEF Reconcile, stopsProcessing, endReconcile

(***************************************************************************)
(* Budgets only shrink, and only the disruption they are for spends them.  *)
(***************************************************************************)
LEMMA BudgetsShrink ==
    ASSUME TypeInv, [Next]_vars, NEW d \in Disruption
    PROVE  budget[d] \in Nat /\ budget'[d] \in Nat /\ budget'[d] <= budget[d]
<1>1. budget \in [Disruption -> Nat]
  BY DEF TypeInv, TypeOK
<1>2. UNCHANGED budget \/ \E e \in Disruption : spend(e)
  BY DEF Disruption, Next, ReconcileStep, MachineControllerStep, Reconcile, EnsureOwnerReference,
         DeleteReplacedMachine, SkipIndex, CheckForExistingReplacement, CreateMachine,
         AbortReconcile, SyncCPMS, SyncMachines, SyncNodes, RegisterNode, LinkNode, NodeReady,
         NodeNotReady, MachineFails, MarkDeleting, RemoveNode, RemoveMachine, UserDeletesMachine,
         EditCPMS, vars
<1> QED
  BY <1>1, <1>2 DEF spend

-----------------------------------------------------------------------------
(***************************************************************************)
(* An Inactive ControlPlaneMachineSet.  The caches may lag, but they       *)
(* cannot show Active before the API server does, and the API keeps an     *)
(* Active one Active.                                                      *)
(***************************************************************************)
WorksWhenActive ==
    /\ isActive(cpmsCache) => isActive(cpms)
    /\ pc # "idle" => isActive(cpms)

DeletesAreSpent == budget["deletes"] <= Bounds["deletes"]

ReadOnlyInv == WorksWhenActive /\ DeletesAreSpent /\ InactiveIsReadOnly

LEMMA ReadOnlyInit == Init => ReadOnlyInv
<1> SUFFICES ASSUME Init PROVE ReadOnlyInv
  OBVIOUS
<1>1. WorksWhenActive
  BY DEF Init, WorksWhenActive
<1>2. DeletesAreSpent
  BY BoundsAssumption DEF Init, DeletesAreSpent, Disruption
<1>3. InactiveIsReadOnly
  BY DEF Init, InactiveIsReadOnly
<1> QED
  BY <1>1, <1>2, <1>3 DEF ReadOnlyInv

LEMMA WorksWhenActiveNext ==
    ASSUME TypeInv, WorksWhenActive, [Next]_vars
    PROVE  WorksWhenActive'
<1> USE DEF WorksWhenActive, isActive
<1>1. isActive(cpms) => isActive(cpms')
  BY CPMSIsEdited DEF EditCPMS
<1>2. isActive(cpmsCache') => isActive(cpms')
  BY <1>1, CPMSIsEdited
<1>3. pc' # "idle" => isActive(cpms')
  <2>1. CASE pc # "idle"
    BY <1>1, <2>1
  <2>2. CASE pc = "idle" /\ Reconcile
    BY <1>1, <2>2, InactiveStops
  <2>3. CASE pc = "idle" /\ ~Reconcile
    <3>1. ~ReconcileStep /\ ~AbortReconcile
      BY <2>3 DEF ReconcileStep, EnsureOwnerReference, DeleteReplacedMachine, SkipIndex,
                  CheckForExistingReplacement, CreateMachine, pastDeletion, AbortReconcile
    <3> QED
      BY <2>3, <3>1, OthersKeepLocals DEF localVars
  <2> QED
    BY <2>1, <2>2, <2>3
<1> QED
  BY <1>2, <1>3

(***************************************************************************)
(* With no reconcile at work Machines change in phase and Node alone; and  *)
(* users delete them.                                                      *)
(***************************************************************************)
OnlyUsersWrite ==
    /\ created' = created
    /\ DOMAIN machines' \subseteq DOMAIN machines
    /\ \A n \in DOMAIN machines' :
          /\ machines'[n].owner = machines[n].owner
          /\ machines'[n].deleted # machines[n].deleted =>
                budget'["deletes"] < budget["deletes"]

LEMMA IdleMachines ==
    ASSUME TypeInv, [Next]_vars, pc = "idle"
    PROVE  OnlyUsersWrite
<1> USE DEF OnlyUsersWrite
<1>1. \A n \in DOMAIN machines : machines[n] \in Machine
  BY DEF TypeInv, TypeOK, isObjectsOf
<1>2. CASE UNCHANGED <<machines, created>>
  BY <1>2
<1>3. ASSUME NEW n, LinkNode(n) PROVE OnlyUsersWrite
  BY <1>1, <1>3 DEF LinkNode, machineStep, Machine
<1>4. ASSUME NEW n, MachineFails(n) PROVE OnlyUsersWrite
  BY <1>1, <1>4 DEF MachineFails, machineStep, Machine
<1>5. ASSUME NEW n, MarkDeleting(n) PROVE OnlyUsersWrite
  BY <1>1, <1>5 DEF MarkDeleting, machineStep, Machine
<1>6. ASSUME NEW n, RemoveMachine(n) PROVE OnlyUsersWrite
  BY <1>6 DEF RemoveMachine, Restrict, machineStep
<1>7. ASSUME NEW n, UserDeletesMachine(n) PROVE OnlyUsersWrite
  <2>1. budget'["deletes"] < budget["deletes"]
    BY <1>7 DEF UserDeletesMachine, spend, Disruption, TypeInv, TypeOK
  <2> QED
    BY <1>1, <1>7, <2>1 DEF UserDeletesMachine, DeleteMachine, machineStep, Machine
<1>8. ReconcileStep => Reconcile
  BY DEF ReconcileStep, EnsureOwnerReference, DeleteReplacedMachine, SkipIndex,
         CheckForExistingReplacement, CreateMachine, pastDeletion
<1> HIDE DEF OnlyUsersWrite
<1> QED
  BY <1>2, <1>3, <1>4, <1>5, <1>6, <1>7, <1>8
  DEF Next, MachineControllerStep, Reconcile, AbortReconcile, SyncCPMS, SyncMachines, SyncNodes,
      RegisterNode, NodeReady, NodeNotReady, RemoveNode, EditCPMS, nodeStep, vars, serverVars

LEMMA ReadOnlyNext == TypeInv /\ ReadOnlyInv /\ [Next]_vars => ReadOnlyInv'
<1> SUFFICES ASSUME TypeInv, ReadOnlyInv, [Next]_vars PROVE ReadOnlyInv'
  OBVIOUS
<1>1. WorksWhenActive'
  BY WorksWhenActiveNext DEF ReadOnlyInv
<1>2. /\ "deletes" \in Disruption /\ Bounds["deletes"] \in Nat
      /\ budget["deletes"] \in Nat /\ budget'["deletes"] \in Nat
      /\ budget'["deletes"] <= budget["deletes"]
  BY BudgetsShrink, BoundsAssumption DEF Disruption
<1>3. DeletesAreSpent'
  BY <1>2 DEF ReadOnlyInv, DeletesAreSpent
<1>4. InactiveIsReadOnly'
  <2> SUFFICES ASSUME cpms'.state = "Inactive" PROVE InactiveIsReadOnly'
    BY DEF InactiveIsReadOnly
  <2>1. cpms.state = "Inactive"
    BY CPMSIsEdited DEF EditCPMS, TypeInv, TypeOK, CPMSSpec, State
  <2>2. OnlyUsersWrite
    BY <2>1, IdleMachines DEF ReadOnlyInv, WorksWhenActive, isActive
  <2> QED
    BY <1>2, <2>1, <2>2 DEF OnlyUsersWrite, ReadOnlyInv, DeletesAreSpent, InactiveIsReadOnly
<1> QED
  BY <1>1, <1>3, <1>4 DEF ReadOnlyInv

(***************************************************************************)
(* Until users activate the ControlPlaneMachineSet, the controller creates *)
(* no Machine, deletes none and adopts none, however stale its caches      *)
(* (reconcileMachines: "we don't want to modify the machines at all").     *)
(***************************************************************************)
THEOREM ReadOnlyUntilActive == Spec => []InactiveIsReadOnly
<1>1. ReadOnlyInv => InactiveIsReadOnly
  BY DEF ReadOnlyInv
<1>2. Init => TypeInv /\ ReadOnlyInv
  BY InitTyped, ReadOnlyInit
<1>3. TypeInv /\ ReadOnlyInv /\ [Next]_vars => (TypeInv /\ ReadOnlyInv)'
  BY NextTyped, ReadOnlyNext
<1> QED
  BY <1>1, <1>2, <1>3, PTL DEF Spec

-----------------------------------------------------------------------------
(***************************************************************************)
(* OnDelete, with a template that nobody edits or reconciles that start    *)
(* from up to date caches.                                                 *)
(***************************************************************************)
OnDeleteThroughout ==
    /\ StartCPMS.strategy = "OnDelete" /\ "strategy" \notin Editable
    /\ FreshReads \/ "template" \notin Editable

StaysOnDelete ==
    /\ cpms.strategy = "OnDelete"
    /\ cpmsCache.strategy = "OnDelete"
    /\ strategy = "OnDelete"

TemplateStays ==
    /\ cpms.template = StartTemplate
    /\ cpmsCache.template = StartTemplate
    /\ template = StartTemplate

isLive(n) == n \in DOMAIN machines /\ ~machines[n].deleted

(***************************************************************************)
(* What a cache cannot lack: with an unchanging template the Machines that *)
(* are outdated are those of the start, and none that is there now was     *)
(* ever absent or deleted.                                                 *)
(***************************************************************************)
OutdatedIsCached ==
    \A n \in DOMAIN machines : isLive(n) /\ machines[n].spec # StartTemplate =>
        /\ n \in DOMAIN machineCache /\ ~machineCache[n].deleted
        /\ machineCache[n].index = machines[n].index

TemplateInv == "template" \notin Editable => TemplateStays /\ OutdatedIsCached

(***************************************************************************)
(* The Machines a reconcile cannot have overlooked.  For the others there  *)
(* is the uncached check.                                                  *)
(***************************************************************************)
isSeen(n) == isLive(n) /\ (FreshReads \/ machines[n].spec # StartTemplate)

SeenIsInView ==
    pc = "owners" =>
        \A n \in DOMAIN machines : isSeen(n) =>
            \E m \in view : m.index = machines[n].index /\ ~m.deleted

WorksOnEmptyIndexes ==
    pc \in {"update", "create", "checked"} =>
        \A n \in DOMAIN machines : isSeen(n) => machines[n].index \notin todo

OnDeleteInv ==
    /\ StaysOnDelete /\ TemplateInv
    /\ SeenIsInView /\ WorksOnEmptyIndexes /\ OneLiveMachinePerIndex

LEMMA OnDeleteInit == OnDeleteThroughout /\ Init => OnDeleteInv
<1> SUFFICES ASSUME OnDeleteThroughout, Init PROVE OnDeleteInv
  OBVIOUS
<1>1. TemplateInv
  BY DEF Init, TemplateInv, TemplateStays, OutdatedIsCached, StartTemplate, isLive
<1>2. OneLiveMachinePerIndex
  BY StartAssumption DEF Init, OneLiveMachinePerIndex, sameIndex
<1> QED
  BY <1>1, <1>2
  DEF Init, OnDeleteThroughout, OnDeleteInv, StaysOnDelete, SeenIsInView, WorksOnEmptyIndexes

LEMMA StaysOnDeleteNext ==
    ASSUME OnDeleteThroughout, StaysOnDelete, [Next]_vars
    PROVE  StaysOnDelete'
<1>1. ASSUME NEW spec, EditCPMS(spec) PROVE cpms'.strategy = cpms.strategy
  <2>1. spec["strategy"] = cpms["strategy"] /\ cpms' = spec
    BY <1>1 DEF EditCPMS, OnDeleteThroughout
  <2> QED
    BY <2>1
<1> QED
  BY <1>1, CPMSIsEdited DEF StaysOnDelete

LEMMA TemplateStaysNext ==
    ASSUME "template" \notin Editable, TemplateStays, [Next]_vars
    PROVE  TemplateStays'
<1>1. ASSUME NEW spec, EditCPMS(spec) PROVE cpms'.template = cpms.template
  <2>1. spec["template"] = cpms["template"] /\ cpms' = spec
    BY <1>1 DEF EditCPMS
  <2> QED
    BY <2>1
<1> QED
  BY <1>1, CPMSIsEdited DEF TemplateStays, StartTemplate

(***************************************************************************)
(* The cache of the Machines is left alone or caught up with the server.   *)
(***************************************************************************)
LEMMA MachinesAreSynced ==
    ASSUME [Next]_vars
    PROVE  machineCache' = machineCache \/ (machineCache' = machines /\ machines' = machines)
  BY DEF Next, ReconcileStep, MachineControllerStep, Reconcile, EnsureOwnerReference,
         DeleteReplacedMachine, SkipIndex, CheckForExistingReplacement, CreateMachine,
         AbortReconcile, SyncCPMS, SyncMachines, SyncNodes, RegisterNode, LinkNode, NodeReady,
         NodeNotReady, MachineFails, MarkDeleting, RemoveNode, RemoveMachine, UserDeletesMachine,
         EditCPMS, machineStep, nodeStep, vars, serverVars, cacheVars

(***************************************************************************)
(* The Machine a creation adds, and the ones it leaves alone.              *)
(***************************************************************************)
LEMMA CreatedMachine ==
    ASSUME TypeInv, NEW i, CreateMachine(i)
    PROVE  /\ DOMAIN machines' = DOMAIN machines \cup {created'}
           /\ created' \notin DOMAIN machines
           /\ \A n \in DOMAIN machines : machines'[n] = machines[n]
           /\ machines'[created'].index = i /\ machines'[created'].spec = template
           /\ machines'[created'].phase = "Provisioning" /\ ~machines'[created'].deleted
  BY DEF CreateMachine, newMachine, TypeInv, TypeOK, isObjectsOf, Names

LEMMA TemplateInvNext ==
    ASSUME TypeInv, TemplateInv, [Next]_vars
    PROVE  TemplateInv'
<1> SUFFICES ASSUME "template" \notin Editable PROVE TemplateInv'
  BY DEF TemplateInv
<1>1. TemplateStays' /\ TemplateStays
  BY TemplateStaysNext DEF TemplateInv
<1>2. OutdatedIsCached'
  <2>1. ASSUME NEW i \in todo, CreateMachine(i) PROVE OutdatedIsCached'
    <3>1. UNCHANGED machineCache
      BY <2>1 DEF CreateMachine, cacheVars
    <3> QED
      BY <1>1, <2>1, <3>1, CreatedMachine
      DEF TemplateInv, TemplateStays, OutdatedIsCached, isLive
  <2>2. CASE ~\E i \in todo : CreateMachine(i)
    <3>1. MachinesKeepIdentity
      BY <2>2, IdentityKept
    <3> QED
      BY <3>1, MachinesAreSynced DEF MachinesKeepIdentity, TemplateInv, OutdatedIsCached, isLive
  <2> QED
    BY <2>1, <2>2
<1> QED
  BY <1>1, <1>2 DEF TemplateInv

(***************************************************************************)
(* Under OnDelete the loop works on indexes without a Machine that is not  *)
(* being deleted, as far as its MachineInfos say.                          *)
(***************************************************************************)
LEMMA WorksOnDeleted ==
    ASSUME NEW indexes, NEW ms, NEW surge, NEW i \in worksOn("OnDelete", indexes, ms, surge),
           NEW m \in ms, m.index = i
    PROVE  i \in indexes /\ m.deleted
<1>1. i \in indexes /\ wantsCreate("OnDelete", ofIndex(ms, i), surge)
  BY DEF worksOn, wantsDelete
<1>2. createOnDeleteReplacementMachines(ofIndex(ms, i)) /\ m \in ofIndex(ms, i)
  BY <1>1 DEF wantsCreate, ofIndex
<1> QED
  BY <1>1, <1>2 DEF createOnDeleteReplacementMachines, isDeletedMachine

LEMMA UpdatesWorkOnDeleted ==
    ASSUME NEW ms, reconcileMachineUpdates("OnDelete", ms),
           \A n \in DOMAIN machines' : isSeen(n)' =>
               \E m \in ms : m.index = machines'[n].index /\ ~m.deleted
    PROVE  SeenIsInView' /\ WorksOnEmptyIndexes'
<1>1. todo' = worksOn("OnDelete", machineInfosByIndex(ms), ms, 0) /\ pc' \in {"idle", "update"}
  BY DEF reconcileMachineUpdates, continueWith
<1>2. WorksOnEmptyIndexes'
  BY <1>1, WorksOnDeleted DEF WorksOnEmptyIndexes
<1> QED
  BY <1>1, <1>2 DEF SeenIsInView

LEMMA LoopNarrows ==
    ASSUME NEW i, NEW surge, continueWith(strategy, todo \ {i}, view, surge)
    PROVE  todo' \subseteq todo \ {i} /\ pc' \in {"idle", "update"}
  BY DEF continueWith, worksOn

(***************************************************************************)
(* Every step keeps what the reconcile knows of the indexes it works on.   *)
(***************************************************************************)
LEMMA SeenNext ==
    ASSUME OnDeleteThroughout, TypeInv, OnDeleteInv, [Next]_vars,
           MachinesKeepIdentity
    PROVE  SeenIsInView' /\ WorksOnEmptyIndexes'
<1>1. \A n \in DOMAIN machines' : isSeen(n)' => isSeen(n) /\ machines'[n].index = machines[n].index
  BY DEF MachinesKeepIdentity, isSeen, isLive
<1>2. CASE UNCHANGED localVars
  BY <1>1, <1>2
  DEF OnDeleteInv, SeenIsInView, WorksOnEmptyIndexes, localVars, MachinesKeepIdentity
<1>3. CASE endReconcile
  BY <1>3 DEF endReconcile, SeenIsInView, WorksOnEmptyIndexes
<1>4. CASE /\ todo' \subseteq todo /\ pc \in {"update", "create", "checked"}
           /\ pc' # "owners"
  BY <1>1, <1>4 DEF OnDeleteInv, SeenIsInView, WorksOnEmptyIndexes, MachinesKeepIdentity
<1>5. CASE Reconcile
  <2> DEFINE ms == GetMachineInfos(machineCache, nodeCache, cpmsCache.template)
  <2>1. UNCHANGED machines
    BY <1>5 DEF Reconcile, serverVars
  <2>2. ASSUME NEW n \in DOMAIN machines, isSeen(n)
        PROVE  /\ n \in DOMAIN machineCache /\ ~machineCache[n].deleted
               /\ machineCache[n].index = machines[n].index
    <3>1. CASE FreshReads
      BY <1>5, <2>2, <3>1 DEF Reconcile, cacheVars, isSeen, isLive
    <3>2. CASE ~FreshReads
      BY <2>2, <3>2 DEF OnDeleteInv, OnDeleteThroughout, TemplateInv, OutdatedIsCached, isSeen
    <3> QED
      BY <3>1, <3>2
  <2>3. ASSUME NEW n \in DOMAIN machines, isSeen(n)
        PROVE  \E m \in ms : m.index = machines[n].index /\ ~m.deleted
    <3>1. generateMachineInfo(n, machineCache, nodeCache, cpmsCache.template) \in ms
      BY <2>2, <2>3 DEF GetMachineInfos
    <3> QED
      BY <2>2, <2>3, <3>1 DEF generateMachineInfo
  <2>4. \/ endReconcile
        \/ pc' = "owners" /\ view' = ms
        \/ reconcileMachineUpdates("OnDelete", ms)
    BY <1>5 DEF Reconcile, OnDeleteInv, StaysOnDelete
  <2> HIDE DEF ms
  <2>5. CASE pc' = "owners" /\ view' = ms
    BY <1>1, <2>1, <2>3, <2>5 DEF SeenIsInView, WorksOnEmptyIndexes
  <2> QED
    BY <1>1, <1>3, <2>1, <2>3, <2>4, <2>5, UpdatesWorkOnDeleted
<1>6. ASSUME NEW m, EnsureOwnerReference(m) PROVE SeenIsInView' /\ WorksOnEmptyIndexes'
  <2> DEFINE new == [m EXCEPT !.owner = "cpms"]
             ms  == (view \ {m}) \cup {new}
  <2>1. m \in MachineInfo /\ m \in view /\ pc = "owners"
    BY <1>6 DEF EnsureOwnerReference, TypeInv, TypeOK
  <2>2. new.index = m.index /\ new.deleted = m.deleted
    BY <2>1 DEF MachineInfo
  <2>3. ASSUME NEW n \in DOMAIN machines', isSeen(n)'
        PROVE  \E k \in ms : k.index = machines'[n].index /\ ~k.deleted
    <3>1. PICK k \in view : k.index = machines'[n].index /\ ~k.deleted
      BY <1>1, <2>1, <2>3 DEF OnDeleteInv, SeenIsInView, MachinesKeepIdentity
    <3> QED
      BY <2>2, <3>1
  <2>4. \/ endReconcile
        \/ pc' = "owners" /\ view' = ms
        \/ reconcileMachineUpdates("OnDelete", ms)
    BY <1>6, <2>1 DEF EnsureOwnerReference, OnDeleteInv, StaysOnDelete
  <2> HIDE DEF ms
  <2>5. CASE pc' = "owners" /\ view' = ms
    BY <2>3, <2>5 DEF SeenIsInView, WorksOnEmptyIndexes
  <2> QED
    BY <1>3, <2>3, <2>4, <2>5, UpdatesWorkOnDeleted
<1>7. ASSUME NEW i, NEW m, DeleteReplacedMachine(i, m) PROVE SeenIsInView' /\ WorksOnEmptyIndexes'
  <2>1. todo' \subseteq todo /\ pc' # "owners" /\ pc = "update"
    BY <1>7, LoopNarrows DEF DeleteReplacedMachine
  <2> QED
    BY <1>4, <2>1
<1>8. ASSUME NEW i, SkipIndex(i) PROVE SeenIsInView' /\ WorksOnEmptyIndexes'
  BY <1>4, <1>8, LoopNarrows DEF SkipIndex, pastDeletion
<1>9. ASSUME NEW i, CheckForExistingReplacement(i) PROVE SeenIsInView' /\ WorksOnEmptyIndexes'
  BY <1>3, <1>4, <1>9, LoopNarrows DEF CheckForExistingReplacement, pastDeletion
<1>10. ASSUME NEW i, CreateMachine(i) PROVE SeenIsInView' /\ WorksOnEmptyIndexes'
  BY <1>4, <1>10, LoopNarrows DEF CreateMachine
<1>11. CASE AbortReconcile
  BY <1>3, <1>11 DEF AbortReconcile
<1> QED
  BY <1>2, <1>5, <1>6, <1>7, <1>8, <1>9, <1>10, <1>11, OthersKeepLocals DEF ReconcileStep

LEMMA OnDeleteNext ==
    OnDeleteThroughout /\ TypeInv /\ ReplacementInv /\ OnDeleteInv /\ [Next]_vars => OnDeleteInv'
<1> SUFFICES ASSUME OnDeleteThroughout, TypeInv, ReplacementInv, OnDeleteInv, [Next]_vars
             PROVE  OnDeleteInv'
  OBVIOUS
<1>1. StaysOnDelete' /\ TemplateInv'
  BY StaysOnDeleteNext, TemplateInvNext DEF OnDeleteInv
<1>2. ASSUME NEW i \in todo, CreateMachine(i)
      PROVE  SeenIsInView' /\ WorksOnEmptyIndexes' /\ OneLiveMachinePerIndex'
  <2>1. pc = "checked" /\ current(i) /\ todo' \subseteq todo \ {i} /\ pc' \in {"idle", "update"}
    BY <1>2, LoopNarrows DEF CreateMachine
  <2>2. ASSUME NEW n \in DOMAIN machines, machines[n].index = i
        PROVE  machines[n].deleted
    <3>1. ~isSeen(n)
      BY <2>1, <2>2 DEF OnDeleteInv, WorksOnEmptyIndexes
    <3>2. ~(machines[n].spec = template /\ ~machines[n].deleted)
      BY <2>1, <2>2 DEF ReplacementInv, NoReplacementSinceCheck, existingReplacement
    <3>3. ~FreshReads => template = StartTemplate
      BY DEF OnDeleteInv, OnDeleteThroughout, TemplateInv, TemplateStays
    <3> QED
      BY <3>1, <3>2, <3>3 DEF isSeen, isLive
  <2>3. OneLiveMachinePerIndex'
    BY <1>2, <2>2, CreatedMachine DEF OnDeleteInv, OneLiveMachinePerIndex, sameIndex
  <2>4. WorksOnEmptyIndexes'
    BY <1>2, <2>1, CreatedMachine DEF OnDeleteInv, WorksOnEmptyIndexes, isSeen, isLive
  <2> QED
    BY <2>1, <2>3, <2>4 DEF SeenIsInView
<1>3. CASE ~\E i \in todo : CreateMachine(i)
  <2>1. MachinesKeepIdentity
    BY <1>3, IdentityKept
  <2>2. OneLiveMachinePerIndex'
    BY <2>1 DEF MachinesKeepIdentity, OnDeleteInv, OneLiveMachinePerIndex, sameIndex
  <2> QED
    BY <1>1, <2>1, <2>2, SeenNext DEF OnDeleteInv
<1> QED
  BY <1>1, <1>2, <1>3 DEF OnDeleteInv

(***************************************************************************)
(* Under OnDelete an index never has two Machines that are not being       *)
(* deleted, whatever users delete and whatever fails: from stale caches    *)
(* when nobody edits the template, and with edits when reconciles start    *)
(* from up to date caches (reconcileMachineOnDeleteUpdate).                *)
(***************************************************************************)
THEOREM OnDeleteKeepsOne ==
    ASSUME OnDeleteThroughout
    PROVE  Spec => []OneLiveMachinePerIndex
<1>1. OnDeleteInv => OneLiveMachinePerIndex
  BY DEF OnDeleteInv
<1>2. Init => TypeInv /\ ReplacementInv /\ OnDeleteInv
  BY InitTyped, ReplacementInit, OnDeleteInit
<1>3. TypeInv /\ ReplacementInv /\ OnDeleteInv /\ [Next]_vars
        => (TypeInv /\ ReplacementInv /\ OnDeleteInv)'
  BY NextTyped, ReplacementNext, OnDeleteNext
<1> QED
  BY <1>1, <1>2, <1>3, PTL DEF Spec

-----------------------------------------------------------------------------
(***************************************************************************)
(* A roll-out that nobody disturbs: users edit neither the template nor    *)
(* delete Machines, Nodes and Machines do not fail.  Caches may be stale,  *)
(* reconciles may be aborted, strategy and state may be edited.            *)
(***************************************************************************)
Undisturbed ==
    /\ "template" \notin Editable
    /\ Bounds["deletes"] = 0 /\ Bounds["flaps"] = 0 /\ Bounds["errors"] = 0

StaysUndisturbed ==
    /\ budget["deletes"] = 0 /\ budget["flaps"] = 0 /\ budget["errors"] = 0
    /\ TemplateStays

(***************************************************************************)
(* Machines of the template are on their way up and stay; the others run   *)
(* until they are deleted.                                                 *)
(***************************************************************************)
MachinesRun ==
    \A n \in DOMAIN machines :
        /\ machines[n].spec = StartTemplate =>
              ~machines[n].deleted /\ machines[n].phase \in {"Provisioning", "Running"}
        /\ machines[n].spec # StartTemplate /\ ~machines[n].deleted =>
              machines[n].phase = "Running"
        /\ machines[n].phase = "Running" => machines[n].nodeRef /\ n \in DOMAIN nodes

NodesRun ==
    /\ \A n \in DOMAIN nodes : nodes[n] # "unready"
    /\ \A n \in DOMAIN nodeCache : nodeCache[n] # "unready"

(***************************************************************************)
(* What the cache may say of a Machine: one of the template is still there *)
(* and no less far; one that is outdated and not deleted was running.      *)
(***************************************************************************)
CacheLags ==
    \A n \in DOMAIN machineCache :
        /\ machineCache[n].spec = StartTemplate =>
              /\ n \in DOMAIN machines
              /\ machineCache[n].phase \in {"Provisioning", "Running"}
              /\ machineCache[n].phase = "Running" => machines[n].phase = "Running"
        /\ machineCache[n].spec # StartTemplate /\ ~machineCache[n].deleted =>
              machineCache[n].phase = "Running" /\ machineCache[n].nodeRef
        /\ n \in DOMAIN machines =>
              /\ machines[n].index = machineCache[n].index
              /\ machines[n].spec = machineCache[n].spec

(***************************************************************************)
(* And what a reconcile may have read of it.                               *)
(***************************************************************************)
ViewLags ==
    /\ \A m \in view :
        /\ m.name \in 1..created
        /\ ~m.needsUpdate =>
              /\ m.name \in DOMAIN machines
              /\ m.ready => machines[m.name].phase = "Running"
        /\ m.needsUpdate /\ ~m.deleted => m.ready
        /\ m.name \in DOMAIN machines =>
              /\ machines[m.name].index = m.index
              /\ m.needsUpdate <=> machines[m.name].spec # StartTemplate
    /\ \A m, n \in view : m.name = n.name => m = n

IndexesRun ==
    \A s \in 1..Replicas : \E n \in DOMAIN machines :
        /\ machines[n].index = StartMachines[s].index
        /\ ~machines[n].deleted /\ machines[n].phase = "Running"

RolloutInv ==
    StaysUndisturbed /\ MachinesRun /\ NodesRun /\ CacheLags /\ ViewLags /\ IndexesRun

LEMMA RolloutInit == Undisturbed /\ Init => RolloutInv
<1> SUFFICES ASSUME Undisturbed, Init PROVE RolloutInv
  OBVIOUS
<1> USE DEF Init
<1>1. StaysUndisturbed
  BY DEF Undisturbed, StaysUndisturbed, TemplateStays, StartTemplate
<1>2. MachinesRun
  BY DEF MachinesRun
<1>3. NodesRun
  BY DEF NodesRun
<1>4. CacheLags
  BY DEF CacheLags
<1>5. ViewLags
  BY DEF ViewLags
<1>6. IndexesRun
  <2> SUFFICES ASSUME NEW s \in 1..Replicas
               PROVE  \E n \in DOMAIN machines :
                         /\ machines[n].index = StartMachines[s].index
                         /\ ~machines[n].deleted /\ machines[n].phase = "Running"
    BY DEF IndexesRun
  <2> WITNESS s \in DOMAIN machines
  <2> QED
    OBVIOUS
<1> QED
  BY <1>1, <1>2, <1>3, <1>4, <1>5, <1>6 DEF RolloutInv

(***************************************************************************)
(* With its budgets spent nobody disturbs the roll-out.                    *)
(***************************************************************************)
LEMMA NobodyDisturbs ==
    ASSUME TypeInv, StaysUndisturbed, NEW n
    PROVE  ~UserDeletesMachine(n) /\ ~NodeNotReady(n) /\ ~MachineFails(n)
  BY DEF StaysUndisturbed, UserDeletesMachine, NodeNotReady, MachineFails, spend

LEMMA UndisturbedNext ==
    ASSUME Undisturbed, TypeInv, StaysUndisturbed, [Next]_vars
    PROVE  StaysUndisturbed'
<1>1. {"deletes", "flaps", "errors"} \subseteq Disruption
  BY DEF Disruption
<1>2. \A d \in {"deletes", "flaps", "errors"} : budget'[d] = 0
  BY <1>1, BudgetsShrink DEF StaysUndisturbed
<1>3. TemplateStays'
  BY TemplateStaysNext DEF StaysUndisturbed, Undisturbed
<1> QED
  BY <1>2, <1>3 DEF StaysUndisturbed

(***************************************************************************)
(* The heart of it: deleteReplacedMachines settles on an outdated Machine  *)
(* whose index has an updated one.  Two updated ones would be duplicate    *)
(* replacements, and none that is outdated and alive is not ready.         *)
(***************************************************************************)
LEMMA DeletesOutdated ==
    ASSUME TypeInv, ReplacementInv, RolloutInv, NEW i, NEW m, DeleteReplacedMachine(i, m)
    PROVE  /\ m \in view /\ m.index = i /\ m.needsUpdate
           /\ \E u \in view : u.index = i /\ u.ready /\ ~u.needsUpdate
<1> DEFINE ms == ofIndex(view, i)
<1>1. m \in toDeleteMachine(ms) /\ ~m.deleted
  BY DEF DeleteReplacedMachine, wantsDelete, isDeletedMachine
<1>2. \A u \in ms : u \in view /\ u.index = i
  BY DEF ofIndex
<1>4. ~(Cardinality(updatedMachines(ms)) > 1)
  <2>1. \A u \in updatedMachines(ms) :
           /\ u \in view /\ u.name \in DOMAIN machines
           /\ machines[u.name].index = i /\ machines[u.name].spec = StartTemplate
           /\ ~machines[u.name].deleted
    BY <1>2 DEF updatedMachines, RolloutInv, ViewLags, MachinesRun
  <2>2. \A u, v \in updatedMachines(ms) : u = v
    BY <2>1 DEF ReplacementInv, NoDuplicateReplacement, RolloutInv, ViewLags
  <2>3. Cardinality(updatedMachines(ms)) \in {0, 1}
    BY <2>2, AtMostOne
  <2> QED
    BY <2>3
<1>5. nonReadyMachines(needReplacementMachines(ms)) \cap {u \in ms : ~u.deleted} = {}
  BY <1>2 DEF nonReadyMachines, needReplacementMachines, isDeletedMachine, RolloutInv, ViewLags
<1>6. m \in ms
  BY <1>1 DEF toDeleteMachine, oldestMachines, updatedMachines, nonReadyMachines,
              needReplacementMachines
<1>7. m \in needReplacementMachines(ms) /\ updatedMachines(ms) # {}
  BY <1>1, <1>4, <1>5, <1>6 DEF toDeleteMachine
<1>8. PICK u \in updatedMachines(ms) : TRUE
  BY <1>7
<1> QED
  BY <1>1, <1>2, <1>6, <1>7, <1>8 DEF needReplacementMachines, isDeletedMachine, updatedMachines

(***************************************************************************)
(* A step of the roll-out: Machines of the template stay and only get      *)
(* further; a Machine that runs and is not deleted goes on, unless the     *)
(* step is its deletion.                                                   *)
(***************************************************************************)
runs(n) == isLive(n) /\ machines[n].phase = "Running"

RolloutStep ==
    /\ MachinesRun'
    /\ \A n \in DOMAIN nodes' : nodes'[n] # "unready"
    /\ \A n \in DOMAIN machines : machines[n].spec = StartTemplate =>
          /\ n \in DOMAIN machines'
          /\ machines[n].phase = "Running" => machines'[n].phase = "Running"

LEMMA RolloutSteps ==
    ASSUME Undisturbed, TypeInv, ReplacementInv, RolloutInv, [Next]_vars
    PROVE  /\ RolloutStep
           /\ (\E i, m : DeleteReplacedMachine(i, m)) \/ \A n : runs(n) => runs(n)'
<1> DEFINE RunsGoOn == \A n : runs(n) => runs(n)'
<1> USE DEF RolloutStep, MachinesRun, runs, isLive
<1>1. /\ \A n \in DOMAIN machines : machines[n] \in Machine
      /\ MachinesRun /\ \A n \in DOMAIN nodes : nodes[n] # "unready"
  BY DEF TypeInv, TypeOK, isObjectsOf, RolloutInv, NodesRun
<1>2. ASSUME UNCHANGED <<machines, nodes>> PROVE RolloutStep /\ RunsGoOn
  BY <1>1, <1>2
<1>3. ASSUME NEW m, EnsureOwnerReference(m) PROVE RolloutStep /\ RunsGoOn
  BY <1>1, <1>3 DEF EnsureOwnerReference, Machine
<1>4. ASSUME NEW i, NEW m, DeleteReplacedMachine(i, m) PROVE RolloutStep
  <2>1. m.name \in DOMAIN machines => machines[m.name].spec # StartTemplate
    BY <1>4, DeletesOutdated DEF RolloutInv, ViewLags
  <2> QED
    BY <1>1, <1>4, <2>1 DEF DeleteReplacedMachine, DeleteMachine, Machine
<1>5. ASSUME NEW i, CreateMachine(i) PROVE RolloutStep /\ RunsGoOn
  <2>1. template = StartTemplate /\ UNCHANGED nodes
    BY <1>5 DEF CreateMachine, RolloutInv, StaysUndisturbed, TemplateStays
  <2> QED
    BY <1>1, <1>5, <2>1, CreatedMachine
<1>6. ASSUME NEW n, LinkNode(n) PROVE RolloutStep /\ RunsGoOn
  BY <1>1, <1>6 DEF LinkNode, machineStep, Machine
<1>7. ASSUME NEW n, MarkDeleting(n) PROVE RolloutStep /\ RunsGoOn
  BY <1>1, <1>7 DEF MarkDeleting, machineStep, Machine
<1>8. ASSUME NEW n, RemoveMachine(n) PROVE RolloutStep /\ RunsGoOn
  BY <1>1, <1>8 DEF RemoveMachine, Restrict, machineStep
<1>9. ASSUME NEW n, RegisterNode(n) PROVE RolloutStep /\ RunsGoOn
  BY <1>1, <1>9 DEF RegisterNode, nodeStep
<1>10. ASSUME NEW n, NodeReady(n) PROVE RolloutStep /\ RunsGoOn
  BY <1>1, <1>10 DEF NodeReady, nodeStep
<1>11. ASSUME NEW n, RemoveNode(n) PROVE RolloutStep /\ RunsGoOn
  BY <1>1, <1>11 DEF RemoveNode, Restrict, nodeStep
<1>12. \A n : ~UserDeletesMachine(n) /\ ~NodeNotReady(n) /\ ~MachineFails(n)
  BY NobodyDisturbs DEF RolloutInv
<1> HIDE DEF RolloutStep, RunsGoOn
<1>13. RolloutStep /\ ((\E i, m : DeleteReplacedMachine(i, m)) \/ RunsGoOn)
  BY <1>2, <1>3, <1>4, <1>5, <1>6, <1>7, <1>8, <1>9, <1>10, <1>11, <1>12
  DEF Next, ReconcileStep, MachineControllerStep, Reconcile, SkipIndex,
      CheckForExistingReplacement, AbortReconcile, SyncCPMS, SyncMachines, SyncNodes, EditCPMS,
      vars, serverVars
<1> QED
  BY <1>13 DEF RunsGoOn

(***************************************************************************)
(* What the reconcile has read: a part of what it had, the same with an    *)
(* owner filled in, or what the caches hold now.                           *)
(***************************************************************************)
LEMMA ViewKinds ==
    ASSUME TypeInv, [Next]_vars
    PROVE  \/ view' \subseteq view
           \/ \E m \in view : view' \subseteq (view \ {m}) \cup {[m EXCEPT !.owner = "cpms"]}
           \/ /\ Reconcile
              /\ view' \subseteq GetMachineInfos(machineCache, nodeCache, cpmsCache.template)
<1>1. ASSUME NEW strat, NEW ms, reconcileMachineUpdates(strat, ms) PROVE view' \subseteq ms
  BY <1>1 DEF reconcileMachineUpdates, continueWith, endReconcile
<1>2. endReconcile => view' \subseteq view
  BY DEF endReconcile
<1>3. CASE Reconcile
  BY <1>1, <1>2, <1>3 DEF Reconcile
<1>4. ASSUME NEW m \in view, EnsureOwnerReference(m)
      PROVE  view' \subseteq (view \ {m}) \cup {[m EXCEPT !.owner = "cpms"]}
  <2> DEFINE ms == (view \ {m}) \cup {[m EXCEPT !.owner = "cpms"]}
  <2>1. view' = ms \/ endReconcile \/ reconcileMachineUpdates(strategy, ms)
    BY <1>4 DEF EnsureOwnerReference
  <2> HIDE DEF ms
  <2>2. view' \subseteq ms
    BY <1>1, <2>1 DEF endReconcile
  <2> QED
    BY <2>2 DEF ms
<1>5. ASSUME NEW i, NEW surge, continueWith(strategy, todo \ {i}, view, surge)
      PROVE  view' \subseteq view
  BY <1>5 DEF continueWith
<1>6. CASE \E i \in todo : \/ \E m \in view : DeleteReplacedMachine(i, m)
                         \/ SkipIndex(i)
                         \/ CheckForExistingReplacement(i)
                         \/ CreateMachine(i)
  BY <1>2, <1>5, <1>6
  DEF DeleteReplacedMachine, SkipIndex, CheckForExistingReplacement, CreateMachine
<1>7. CASE AbortReconcile
  BY <1>2, <1>7 DEF AbortReconcile
<1>8. CASE ~ReconcileStep /\ ~AbortReconcile
  BY <1>8, OthersKeepLocals DEF localVars
<1> QED
  BY <1>3, <1>4, <1>6, <1>7, <1>8 DEF ReconcileStep

(***************************************************************************)
(* Machines keep index and provider config, and a new one has a new name.  *)
(***************************************************************************)
LEMMA IdentityAcrossSteps ==
    ASSUME TypeInv, [Next]_vars
    PROVE  /\ \A n \in DOMAIN machines' \cap (1..created) :
                 /\ n \in DOMAIN machines
                 /\ machines'[n].index = machines[n].index
                 /\ machines'[n].spec = machines[n].spec
           /\ 1..created \subseteq 1..created'
<1>1. ASSUME NEW i \in todo, CreateMachine(i)
      PROVE  /\ created' \notin 1..created /\ 1..created \subseteq 1..created'
             /\ \A n \in DOMAIN machines' : n # created' => n \in DOMAIN machines
             /\ \A n \in DOMAIN machines : machines'[n] = machines[n]
  <2>1. created' = created + 1 /\ created \in Nat
    BY <1>1 DEF CreateMachine, TypeInv, TypeOK, Names
  <2> QED
    BY <1>1, <2>1, CreatedMachine
<1>2. CASE ~\E i \in todo : CreateMachine(i)
  <2>1. created' = created
    BY <1>2
    DEF Next, ReconcileStep, MachineControllerStep, Reconcile, EnsureOwnerReference,
        DeleteReplacedMachine, SkipIndex, CheckForExistingReplacement, AbortReconcile, SyncCPMS,
        SyncMachines, SyncNodes, RegisterNode, LinkNode, NodeReady, NodeNotReady, MachineFails,
        MarkDeleting, RemoveNode, RemoveMachine, UserDeletesMachine, EditCPMS, machineStep,
        nodeStep, vars, serverVars
  <2> QED
    BY <1>2, <2>1, IdentityKept DEF MachinesKeepIdentity
<1> QED
  BY <1>1, <1>2

LEMMA NodesAreSynced ==
    ASSUME [Next]_vars
    PROVE  nodeCache' \in {nodeCache, nodes}
  BY DEF Next, ReconcileStep, MachineControllerStep, Reconcile, EnsureOwnerReference,
         DeleteReplacedMachine, SkipIndex, CheckForExistingReplacement, CreateMachine,
         AbortReconcile, SyncCPMS, SyncMachines, SyncNodes, RegisterNode, LinkNode, NodeReady,
         NodeNotReady, MachineFails, MarkDeleting, RemoveNode, RemoveMachine, UserDeletesMachine,
         EditCPMS, machineStep, nodeStep, vars, serverVars, cacheVars

LEMMA CacheLagsNext ==
    ASSUME TypeInv, RolloutInv, [Next]_vars, RolloutStep
    PROVE  CacheLags'
<1>1. CASE machineCache' = machines /\ machines' = machines
  BY <1>1 DEF RolloutInv, MachinesRun, CacheLags
<1>2. CASE machineCache' = machineCache
  <2>1. DOMAIN machineCache \subseteq 1..created
    BY DEF TypeInv, TypeOK, isObjectsOf
  <2>2. ASSUME NEW n \in DOMAIN machineCache
        PROVE  /\ machineCache[n].spec = StartTemplate =>
                     /\ n \in DOMAIN machines'
                     /\ machineCache[n].phase \in {"Provisioning", "Running"}
                     /\ machineCache[n].phase = "Running" => machines'[n].phase = "Running"
               /\ machineCache[n].spec # StartTemplate /\ ~machineCache[n].deleted =>
                     machineCache[n].phase = "Running" /\ machineCache[n].nodeRef
               /\ n \in DOMAIN machines' =>
                     /\ machines'[n].index = machineCache[n].index
                     /\ machines'[n].spec = machineCache[n].spec
    BY <2>1, <2>2, IdentityAcrossSteps DEF RolloutInv, CacheLags, RolloutStep
  <2> QED
    BY <1>2, <2>2 DEF CacheLags
<1> QED
  BY <1>1, <1>2, MachinesAreSynced

(***************************************************************************)
(* What one MachineInfo may say, and what it still may say after a step.   *)
(***************************************************************************)
infoLags(m) ==
    /\ m.name \in 1..created
    /\ ~m.needsUpdate =>
          /\ m.name \in DOMAIN machines
          /\ m.ready => machines[m.name].phase = "Running"
    /\ m.needsUpdate /\ ~m.deleted => m.ready
    /\ m.name \in DOMAIN machines =>
          /\ machines[m.name].index = m.index
          /\ m.needsUpdate <=> machines[m.name].spec # StartTemplate

LEMMA InfoLagsNext ==
    ASSUME TypeInv, [Next]_vars, RolloutStep, NEW m, infoLags(m)
    PROVE  infoLags(m)'
  BY IdentityAcrossSteps DEF infoLags, RolloutStep

(***************************************************************************)
(* The MachineInfos a reconcile reads off its caches.                      *)
(***************************************************************************)
LEMMA ReadInfosLag ==
    ASSUME TypeInv, RolloutInv, Reconcile,
           NEW m \in GetMachineInfos(machineCache, nodeCache, cpmsCache.template)
    PROVE  infoLags(m)
<1>1. PICK n \in DOMAIN machineCache :
         m = generateMachineInfo(n, machineCache, nodeCache, cpmsCache.template)
  BY DEF GetMachineInfos
<1>2. /\ m.name = n /\ m.index = machineCache[n].index /\ m.deleted = machineCache[n].deleted
      /\ m.needsUpdate <=> machineCache[n].spec # StartTemplate
      /\ m.ready <=> machineCache[n].nodeRef /\ isMachineReady(machineCache[n], nodeCache[n])
  BY <1>1 DEF generateMachineInfo, RolloutInv, StaysUndisturbed, TemplateStays
<1>3. n \in 1..created
  BY DEF TypeInv, TypeOK, isObjectsOf
<1>4. machineCache[n].nodeRef => n \in DOMAIN nodeCache
  BY DEF Reconcile, machineInfosAvailable
<1>5. n \in DOMAIN nodeCache => nodeCache[n] \in {"ready", "brief"}
  BY DEF TypeInv, TypeOK, isObjectsOf, NodeState, RolloutInv, NodesRun
<1>6. m.needsUpdate /\ ~m.deleted => m.ready
  BY <1>2, <1>4, <1>5 DEF RolloutInv, CacheLags, isMachineReady, isNodeReady,
                          isNodeNotReadyWithinNodeGracePeriod
<1>7. ~m.needsUpdate /\ m.ready => machineCache[n].phase = "Running"
  BY <1>2 DEF RolloutInv, CacheLags, isMachineReady
<1> QED
  BY <1>2, <1>3, <1>6, <1>7 DEF RolloutInv, CacheLags, infoLags

LEMMA ViewLagsNext ==
    ASSUME TypeInv, RolloutInv, [Next]_vars, RolloutStep
    PROVE  ViewLags'
<1>1. \A m \in view : infoLags(m) /\ infoLags(m)'
  BY InfoLagsNext DEF RolloutInv, ViewLags, infoLags
<1>2. \A m, n \in view : m.name = n.name => m = n
  BY DEF RolloutInv, ViewLags
<1>3. (\A m \in view' : infoLags(m)') /\ (\A m, n \in view' : m.name = n.name => m = n)
  <2>1. CASE view' \subseteq view
    BY <1>1, <1>2, <2>1
  <2>2. ASSUME NEW m \in view, view' \subseteq (view \ {m}) \cup {[m EXCEPT !.owner = "cpms"]}
        PROVE  (\A k \in view' : infoLags(k)') /\ (\A k, n \in view' : k.name = n.name => k = n)
    <3> DEFINE new == [m EXCEPT !.owner = "cpms"]
    <3>1. /\ new.name = m.name /\ new.index = m.index /\ new.ready = m.ready
          /\ new.needsUpdate = m.needsUpdate /\ new.deleted = m.deleted
      BY DEF TypeInv, TypeOK, MachineInfo
    <3>2. infoLags(new)'
      BY <1>1, <3>1 DEF infoLags
    <3> QED
      BY <1>1, <1>2, <2>2, <3>1, <3>2
  <2>3. CASE /\ Reconcile
             /\ view' \subseteq GetMachineInfos(machineCache, nodeCache, cpmsCache.template)
    <3>1. \A m \in view' : infoLags(m)'
      BY <2>3, ReadInfosLag, InfoLagsNext
    <3>2. \A m \in view' : m = generateMachineInfo(m.name, machineCache, nodeCache, cpmsCache.template)
      BY <2>3 DEF GetMachineInfos, generateMachineInfo
    <3> QED
      BY <3>1, <3>2
  <2> QED
    BY <2>1, <2>2, <2>3, ViewKinds
<1> QED
  BY <1>3 DEF ViewLags, infoLags

(***************************************************************************)
(* The replacement that a deletion relies on runs, and stays.              *)
(***************************************************************************)
LEMMA ReplacementRuns ==
    ASSUME TypeInv, ReplacementInv, RolloutInv, NEW i, NEW m, DeleteReplacedMachine(i, m)
    PROVE  /\ m.name \in DOMAIN machines => machines[m.name].index = i
           /\ \E u \in DOMAIN machines \ {m.name} :
                 /\ machines[u].index = i /\ runs(u) /\ runs(u)'
                 /\ machines'[u].index = machines[u].index
<1>1. PICK u \in view : u.index = i /\ u.ready /\ ~u.needsUpdate
  BY DeletesOutdated
<1>2. m \in view /\ m.index = i /\ m.needsUpdate
  BY DeletesOutdated
<1>3. /\ u.name \in DOMAIN machines /\ machines[u.name].phase = "Running"
      /\ machines[u.name].index = i /\ ~machines[u.name].deleted /\ u.name # m.name
  BY <1>1, <1>2 DEF RolloutInv, ViewLags, MachinesRun
<1>4. u.name \in DOMAIN machines' /\ machines'[u.name] = machines[u.name]
  BY <1>3 DEF DeleteReplacedMachine, DeleteMachine
<1> QED
  BY <1>2, <1>3, <1>4 DEF RolloutInv, ViewLags, runs, isLive

LEMMA IndexesRunNext ==
    ASSUME Undisturbed, TypeInv, ReplacementInv, RolloutInv, [Next]_vars
    PROVE  IndexesRun'
<1> SUFFICES ASSUME NEW s \in 1..Replicas
             PROVE  \E n : runs(n)' /\ machines'[n].index = StartMachines[s].index
  BY DEF IndexesRun, runs, isLive
<1>1. PICK n : runs(n) /\ machines[n].index = StartMachines[s].index
  BY DEF RolloutInv, IndexesRun, runs, isLive
<1>2. CASE runs(n)'
  <2>1. n \in DOMAIN machines /\ n \in 1..created /\ n \in DOMAIN machines'
    BY <1>1, <1>2 DEF runs, isLive, TypeInv, TypeOK, isObjectsOf
  <2>2. machines'[n].index = machines[n].index
    BY <2>1, IdentityAcrossSteps
  <2> QED
    BY <1>1, <1>2, <2>2
<1>3. ASSUME NEW i, NEW m, DeleteReplacedMachine(i, m), ~runs(n)'
      PROVE  \E k : runs(k)' /\ machines'[k].index = StartMachines[s].index
  <2>1. m.name = n
    BY <1>1, <1>3 DEF DeleteReplacedMachine, DeleteMachine, runs, isLive
  <2> QED
    BY <1>1, <1>3, <2>1, ReplacementRuns DEF runs, isLive
<1> QED
  BY <1>1, <1>2, <1>3, RolloutSteps

LEMMA RolloutNext ==
    Undisturbed /\ TypeInv /\ ReplacementInv /\ RolloutInv /\ [Next]_vars => RolloutInv'
<1> SUFFICES ASSUME Undisturbed, TypeInv, ReplacementInv, RolloutInv, [Next]_vars
             PROVE  RolloutInv'
  OBVIOUS
<1>1. RolloutStep
  BY RolloutSteps
<1>2. StaysUndisturbed'
  BY UndisturbedNext DEF RolloutInv
<1>3. NodesRun'
  BY <1>1, NodesAreSynced DEF RolloutStep, RolloutInv, NodesRun
<1> QED
  BY <1>1, <1>2, <1>3, CacheLagsNext, ViewLagsNext, IndexesRunNext DEF RolloutInv, RolloutStep

LEMMA RunsIsReady ==
    ASSUME TypeInv, RolloutInv, NEW n, runs(n)
    PROVE  n \in DOMAIN machines /\ ~machines[n].deleted /\ readyNow(n)
<1>1. n \in DOMAIN machines /\ ~machines[n].deleted /\ machines[n].phase = "Running"
  BY DEF runs, isLive
<1>2. machines[n].nodeRef /\ n \in DOMAIN nodes
  BY <1>1 DEF RolloutInv, MachinesRun
<1>3. nodes[n] \in {"ready", "brief"}
  BY <1>2 DEF TypeInv, TypeOK, isObjectsOf, NodeState, RolloutInv, NodesRun
<1> QED
  BY <1>1, <1>2, <1>3 DEF readyNow, isMachineReady, isNodeNotReadyWithinNodeGracePeriod

LEMMA RolloutAlways ==
    ASSUME Undisturbed
    PROVE  Spec => [](TypeInv /\ ReplacementInv /\ RolloutInv)
<1>1. Init => TypeInv /\ ReplacementInv /\ RolloutInv
  BY InitTyped, ReplacementInit, RolloutInit
<1>2. TypeInv /\ ReplacementInv /\ RolloutInv /\ [Next]_vars
        => (TypeInv /\ ReplacementInv /\ RolloutInv)'
  BY NextTyped, ReplacementNext, RolloutNext
<1> QED
  BY <1>1, <1>2, PTL DEF Spec

(***************************************************************************)
(* In a roll-out that nobody disturbs every index keeps a ready Machine    *)
(* that is not being deleted, though every cache lags and reconciles are   *)
(* aborted half-way (reconcileMachineRollingUpdate, deleteReplacedMachines). *)
(***************************************************************************)
THEOREM RolloutKeepsIndexes ==
    ASSUME Undisturbed
    PROVE  Spec => []IndexesStayAvailable
<1>1. TypeInv /\ RolloutInv => IndexesStayAvailable
  <2> SUFFICES ASSUME TypeInv, RolloutInv, NEW s \in 1..Replicas
               PROVE  \E n \in DOMAIN machines :
                         /\ machines[n].index = StartMachines[s].index
                         /\ ~machines[n].deleted /\ readyNow(n)
    BY DEF IndexesStayAvailable
  <2>1. PICK n : runs(n) /\ machines[n].index = StartMachines[s].index
    BY DEF RolloutInv, IndexesRun, runs, isLive
  <2> QED
    BY <2>1, RunsIsReady
<1> QED
  BY <1>1, RolloutAlways, PTL

=============================================================================
