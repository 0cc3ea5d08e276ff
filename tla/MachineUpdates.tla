--------------------------- MODULE MachineUpdates ---------------------------
(***************************************************************************)
(* The loop of an update strategy over the indexes of the control plane    *)
(* (pkg/controllers/controlplanemachineset/updates.go): what it decides    *)
(* for one index from the index's MachineInfos, and how it goes on to the  *)
(* next one.  The variables are the loop's own, kept from one API call of  *)
(* a reconcile to the next.                                                *)
(***************************************************************************)
EXTENDS MachineInfos

VARIABLES
    pc,              \* where the reconcile in flight stands
    todo,            \* the indexes it has yet to act on
    view,            \* their MachineInfos, as it read them
    strategy,        \* the update strategy
    surgeCount       \* its running surge count

-----------------------------------------------------------------------------
(***************************************************************************)
(* What the update strategies decide for one index, from its MachineInfos. *)
(***************************************************************************)
maxSurge == 1

(***************************************************************************)
(* Three bugs deleteReplacedMachines could have: it takes a replacement    *)
(* that is not ready for one that is; it forgets Machines that are         *)
(* outdated and not ready; it never deletes a replaced Machine.            *)
(***************************************************************************)
toDeleteMachineTooEarly(ms) ==
    IF Cardinality(ms) >= 2 /\ ms # needReplacementMachines(ms)
    THEN needReplacementMachines(ms) ELSE {}

toDeleteMachineReadyOnly(ms) ==
    IF Cardinality(ms) >= 2 /\ updatedMachines(ms) # {}
    THEN needReplacementMachines(ms) ELSE {}

toDeleteMachineNever(ms) ==
    IF Cardinality(ms) >= 2 THEN nonReadyMachines(needReplacementMachines(ms)) ELSE {}

(***************************************************************************)
(* The Machine deleteReplacedMachines settles on: a later rule overrides   *)
(* an earlier one, and each takes the first Machine it finds.              *)
(***************************************************************************)
toDeleteMachine(ms) ==
    LET outdatedNonReady == nonReadyMachines(needReplacementMachines(ms))
    IN  IF Cardinality(ms) < 2 THEN {}
        ELSE IF Cardinality(updatedMachines(ms)) > 1
             THEN oldestMachines(updatedMachines(ms))
        ELSE IF outdatedNonReady # {} THEN outdatedNonReady
        ELSE IF updatedMachines(ms) # {} THEN needReplacementMachines(ms)
        ELSE {}

(***************************************************************************)
(* A bug: the surge limit is off by one.                                   *)
(***************************************************************************)
roomToSurgeOffByOne(surge) == surge <= maxSurge

(***************************************************************************)
(* The surge allows a Machine more (createMachineWithSurge).               *)
(***************************************************************************)
roomToSurge(surge) == surge < maxSurge

(***************************************************************************)
(* A bug: the Machine just created is not counted.                         *)
(***************************************************************************)
surgeNotCounted(strat, surge) == surge

(***************************************************************************)
(* The running count after a creation; OnDelete has none.                  *)
(***************************************************************************)
surgeAfterCreation(strat, surge) == IF strat = "RollingUpdate" THEN surge + 1 ELSE 0

createRollingUpdateReplacementMachines(ms, surge) ==
    /\ \/ ms = {}
       \/ /\ needReplacementMachines(ms) # {}
          /\ updatedNonDeletedMachines(ms) = {}
          /\ pendingMachines(ms) = {}
    /\ roomToSurge(surge)

(***************************************************************************)
(* Two bugs: the user's deletion is not waited for; only an index that is  *)
(* empty gets a Machine.                                                   *)
(***************************************************************************)
createOnDeleteWithoutDeletion(ms) ==
    ms = {} \/ (Cardinality(ms) = 1 /\ needReplacementMachines(ms) = ms)

createOnDeleteWhenEmpty(ms) == ms = {}

createOnDeleteReplacementMachines(ms) ==
    \/ ms = {}
    \/ /\ Cardinality(ms) = 1
       /\ Cardinality(needReplacementMachines(ms)) = 1
       /\ \A m \in ms : isDeletedMachine(m)

wantsCreate(strat, ms, surge) ==
    \/ strat = "RollingUpdate" /\ createRollingUpdateReplacementMachines(ms, surge)
    \/ strat = "OnDelete" /\ createOnDeleteReplacementMachines(ms)

wantsDelete(strat, ms) ==
    {m \in toDeleteMachine(ms) : strat = "RollingUpdate" /\ ~isDeletedMachine(m)}

(***************************************************************************)
(* The indexes on which the loop does more than log that it waits.         *)
(***************************************************************************)
worksOn(strat, indexes, ms, surge) ==
    {i \in indexes : \/ wantsDelete(strat, ofIndex(ms, i)) # {}
                     \/ wantsCreate(strat, ofIndex(ms, i), surge)}

-----------------------------------------------------------------------------
(***************************************************************************)
(* The loop over the indexes goes on with what is left of `indexes', in    *)
(* ascending order; the reconcile ends when nothing is.                    *)
(***************************************************************************)
continueWith(strat, indexes, ms, surge) ==
    LET left == worksOn(strat, indexes, ms, surge)
    IN  /\ todo' = left
        /\ view' = {m \in ms : m.index \in left}
        /\ pc' = IF left = {} THEN "idle" ELSE "update"
        /\ surgeCount' = IF left = {} THEN 0 ELSE surge

endReconcile ==
    pc' = "idle" /\ todo' = {} /\ view' = {} /\ surgeCount' = 0

(***************************************************************************)
(* The index the loop is at, and its MachineInfos.                         *)
(***************************************************************************)
current(i) == i \in todo /\ \A j \in todo : i <= j

(***************************************************************************)
(* No deletion comes first: none is wanted, the Machine found first was    *)
(* deleted before, or the deletion is done.                                *)
(***************************************************************************)
pastDeletion(ms) ==
    \/ pc = "create"
    \/ /\ pc = "update"
       /\ \/ wantsDelete(strategy, ms) = {}
          \/ toDeleteMachine(ms) \ wantsDelete(strategy, ms) # {}

=============================================================================
