------------------------ MODULE FailureDomainMapping ------------------------
(***************************************************************************)
(* The mapping of IndexMapping in use, and the updates that move Machines  *)
(* to the failure domains it gives them                                    *)
(* (pkg/machineproviders/providers/openshift/machine/v1beta1).             *)
(*                                                                         *)
(* A reconcile makes a Machine provider, which computes the mapping out of *)
(* the failure domains of the template and of the Machines its cache       *)
(* lists, and uses it until the reconcile ends.  A Machine whose failure   *)
(* domain is not the mapped one is replaced, which changes the input of    *)
(* later computations.  The check before a creation has a provider of its  *)
(* own, with a mapping of the Machines the API server lists.               *)
(***************************************************************************)
EXTENDS IndexMapping, ClusterValidation, MachineUpdates

CONSTANTS
    Domains,        \* failure domains there are, a set of numbers
    FirstIndex,     \* the lowest index of the Machines at the start
    Strategies,     \* update strategies to start with
    MaxMachines,    \* bound: Machines that are ever created
    MaxDisruptions  \* bound: what users change: edits of the failure domains,
                    \* and Machines that they delete or that vanish

(***************************************************************************)
(* The template has failure domains, or there is no mapping.               *)
(***************************************************************************)
ASSUME MappingAssumption ==
    /\ FirstIndex \in Nat
    /\ Domains \subseteq Int /\ IsFiniteSet(Domains)
    /\ Strategies \subseteq {"RollingUpdate", "OnDelete"}
    /\ MaxMachines \in Nat /\ MaxDisruptions \in Nat

VARIABLES
    domains,     \* the failure domains of the ControlPlaneMachineSet's template
    machines,    \* the Machines: index, failure domain, creation, deleted or not
    cache,       \* the Machines the informer cache holds
    mapping,     \* indexToFailureDomain of the reconcile in flight
    offered,     \* and the failure domains it was computed from
    created,     \* how many Machines were ever created
    budget       \* disruptions left

loopVars == <<pc, todo, view, strategy, surgeCount, mapping, offered>>
vars     == <<domains, machines, cache, created, budget, loopVars>>

(***************************************************************************)
(* An informer cache lists Machines in any order.  Only the order within   *)
(* an index can matter to keepMachine, and only when it has three of them. *)
(***************************************************************************)
listings(ms) ==
    LET crowded == {m \in ms : Cardinality(ofIndex(ms, m.index)) > 2}
        rest    == ms \ crowded
    IN  {list \o sortedBy(rest, [m \in rest |-> m.created]) : list \in SetToSeqs(crowded)}

(***************************************************************************)
(* updateMachineCache: the mappings a provider may compute from Machines   *)
(* it lists.                                                               *)
(***************************************************************************)
updateMachineCache(ms, fds) ==
    {mapMachineIndexesToFailureDomains(list, fds) : list \in listings(ms)}

(***************************************************************************)
(* generateMachineInfo: as far as the domain is concerned a Machine needs  *)
(* an update when its domain is not the mapped one.                        *)
(***************************************************************************)
generateMachineInfo(m, map, ready) ==
    [name |-> m.created, index |-> m.index, ready |-> ready,
     needsUpdate |-> m.fd # map[m.index], deleted |-> m.deleted,
     failed |-> FALSE, hasNode |-> ready, owner |-> "cpms"]

-----------------------------------------------------------------------------
(***************************************************************************)
(* The provider lives as long as the reconcile.                            *)
(***************************************************************************)
keepProvider(map, fds) ==
    /\ mapping' = IF pc' = "idle" THEN << >> ELSE map
    /\ offered' = IF pc' = "idle" THEN {} ELSE fds

(***************************************************************************)
(* A reconcile lists the Machines of its cache, computes mapping and       *)
(* MachineInfos, and unless it is Degraded goes over the indexes.  Which   *)
(* Machines are ready is left open.                                        *)
(***************************************************************************)
Reconcile ==
    /\ pc = "idle"
    /\ \E map \in updateMachineCache(cache, domains), ready \in SUBSET cache :
          LET ms == {generateMachineInfo(m, map, m \in ready) : m \in cache}
          IN  /\ ~isControlPlaneMachineSetDegraded(validateClusterState(ms, {}, strategy))
              /\ continueWith(strategy, machineInfosByIndex(ms), ms,
                              IF strategy = "RollingUpdate" THEN deviseExistingSurge(ms) ELSE 0)
              /\ keepProvider(map, domains)
    /\ UNCHANGED <<domains, machines, cache, strategy, created, budget>>

afterDeletion(names) ==
    {m \in machines : m.created \notin names}
    \cup {[m EXCEPT !.deleted = TRUE] : m \in {k \in machines : k.created \in names}}

(***************************************************************************)
(* deleteReplacedMachines deletes a Machine, if there is still one.        *)
(***************************************************************************)
DeleteReplacedMachine(i, m) ==
    /\ pc = "update" /\ current(i)
    /\ m \in wantsDelete(strategy, ofIndex(view, i))
    /\ machines' = afterDeletion({m.name})
    /\ IF wantsCreate(strategy, ofIndex(view, i), surgeCount)
       THEN pc' = "create" /\ UNCHANGED <<todo, view, surgeCount>>
       ELSE continueWith(strategy, todo \ {i}, view, surgeCount)
    /\ keepProvider(mapping, offered)
    /\ UNCHANGED <<domains, cache, strategy, created, budget>>

(***************************************************************************)
(* A bug: the check lists the Machines of the cache.                       *)
(***************************************************************************)
existingReplacementInCache(i, map) ==
    i \in DOMAIN map /\ \E m \in ofIndex(cache, i) : ~m.deleted /\ m.fd = map[i]

(***************************************************************************)
(* checkForExistingReplacement: WithClient computes a mapping of its own   *)
(* from the Machines there are.                                            *)
(***************************************************************************)
existingReplacement(i, map) ==
    \E m \in ofIndex(machines, i) : ~m.deleted /\ m.fd = map[i]

(***************************************************************************)
(* Nothing is created for index i: nothing is wanted, or the check finds a *)
(* replacement.                                                            *)
(***************************************************************************)
SkipIndex(i) ==
    /\ current(i) /\ pastDeletion(ofIndex(view, i))
    /\ wantsCreate(strategy, ofIndex(view, i), surgeCount)
       => \E map \in updateMachineCache(machines, offered) : existingReplacement(i, map)
    /\ continueWith(strategy, todo \ {i}, view, surgeCount)
    /\ keepProvider(mapping, offered)
    /\ UNCHANGED <<domains, machines, cache, strategy, created, budget>>

(***************************************************************************)
(* CreateMachine takes the failure domain from the reconcile's mapping,    *)
(* whatever the check's mapping was.  An index that the mapping lacks has  *)
(* no failure domain to inject: the error ends the reconcile.  Nothing     *)
(* that happens between check and creation matters to either.              *)
(***************************************************************************)
wantsMachine(i) ==
    /\ current(i) /\ pastDeletion(ofIndex(view, i))
    /\ wantsCreate(strategy, ofIndex(view, i), surgeCount)
    /\ \E map \in updateMachineCache(machines, offered) : ~existingReplacement(i, map)

CreateMachine(i) ==
    /\ wantsMachine(i) /\ i \in DOMAIN mapping
    /\ created < MaxMachines
    /\ machines' = machines \cup
          {[index |-> i, fd |-> mapping[i], created |-> created + 1, deleted |-> FALSE]}
    /\ created' = created + 1
    /\ continueWith(strategy, todo \ {i}, view, surgeAfterCreation(strategy, surgeCount))
    /\ keepProvider(mapping, offered)
    /\ UNCHANGED <<domains, cache, strategy, budget>>

NoFailureDomain(i) ==
    /\ wantsMachine(i) /\ i \notin DOMAIN mapping
    /\ endReconcile
    /\ keepProvider(mapping, offered)
    /\ UNCHANGED <<domains, machines, cache, strategy, created, budget>>

-----------------------------------------------------------------------------
(***************************************************************************)
(* External: the informer delivers; the etcd operator lets a deleted       *)
(* Machine go once there are Replicas others.                              *)
(***************************************************************************)
SyncMachines ==
    /\ cache # machines /\ cache' = machines
    /\ UNCHANGED <<domains, machines, created, budget, loopVars>>

RemoveDeleted(m) ==
    /\ m \in machines /\ m.deleted
    /\ Cardinality(machines) > Replicas
    /\ machines' = machines \ {m}
    /\ UNCHANGED <<domains, cache, created, budget, loopVars>>

(***************************************************************************)
(* Users edit the list of failure domains (the moment is the one when the  *)
(* controller's cache shows it), delete Machines, or a Machine vanishes.   *)
(***************************************************************************)
ChangeDomains(S) ==
    /\ budget > 0 /\ S # domains
    /\ domains' = S
    /\ budget' = budget - 1
    /\ UNCHANGED <<machines, cache, created, loopVars>>

LoseMachine(m) ==
    /\ budget > 0 /\ m \in machines /\ ~m.deleted
    /\ machines' \in {afterDeletion({m.created}), machines \ {m}}
    /\ budget' = budget - 1
    /\ UNCHANGED <<domains, cache, created, loopVars>>

Configurable == (SUBSET Domains) \ {{}}

Init ==
    /\ domains \in Configurable
    /\ strategy \in Strategies
    /\ \E fd \in [1..Replicas -> Domains] :
          machines = {[index |-> FirstIndex + n - 1, fd |-> fd[n], created |-> n,
                       deleted |-> FALSE] : n \in 1..Replicas}
    /\ cache = machines
    /\ pc = "idle" /\ todo = {} /\ view = {} /\ surgeCount = 0
    /\ mapping = << >> /\ offered = {}
    /\ created = Replicas
    /\ budget = MaxDisruptions

ReconcileStep ==
    \/ Reconcile
    \/ \E i \in todo : \/ \E m \in view : DeleteReplacedMachine(i, m)
                       \/ SkipIndex(i) \/ CreateMachine(i) \/ NoFailureDomain(i)

Next ==
    \/ ReconcileStep
    \/ SyncMachines
    \/ \E m \in machines : RemoveDeleted(m) \/ LoseMachine(m)
    \/ \E S \in Configurable : ChangeDomains(S)

Spec == Init /\ [][Next]_vars

-----------------------------------------------------------------------------
(***************************************************************************)
(* Whatever the cache lists, a mapping covers as many indexes as the       *)
(* cluster must have, every index of a Machine among them, and only uses   *)
(* domains of the template: no candidate is lost or left empty by the      *)
(* swaps of matchMachinesToCandidates.                                     *)
(***************************************************************************)
MappingCoversIndexes ==
    \A map \in updateMachineCache(cache, domains) :
        LET indexes == {m.index : m \in cache}
        IN  /\ indexes \subseteq DOMAIN map
            /\ Cardinality(DOMAIN map) = Max({Replicas, Cardinality(indexes)})
            /\ \A i \in DOMAIN map : map[i] \in domains

(***************************************************************************)
(* No domain gets more indexes than its share, rounded up                  *)
(* (reconcileMappings: "to ensure we balance appropriately across the      *)
(* available failure domains").                                            *)
(***************************************************************************)
NoDomainOverRepresented(map) ==
    LET indexes == Cardinality(DOMAIN map)
        usable  == Min({Cardinality(domains), indexes})
    IN  \A fd \in domains : (countForFailureDomain(map, fd) - 1) * usable < indexes

(***************************************************************************)
(* It holds whenever every index with Machines has one that is not being   *)
(* deleted, in the middle of an update too (handleUnmatchedIndex, "over    *)
(* represented").                                                          *)
(***************************************************************************)
LiveIndexesBalanced ==
    listDeletingIndexes(cache) = {} =>
        \A map \in updateMachineCache(cache, domains) : NoDomainOverRepresented(map)

(***************************************************************************)
(* A placement uses the domains equally: two of them differ by one index   *)
(* at most.                                                                *)
(***************************************************************************)
Balanced(f) == \A a, b \in domains : countForFailureDomain(f, a) <= countForFailureDomain(f, b) + 1

(***************************************************************************)
(* A complete control plane that uses the template's domains equally is    *)
(* left as it is: no Machine is replaced without need.                     *)
(***************************************************************************)
placement == [i \in {m.index : m \in cache} |-> (CHOOSE m \in cache : m.index = i).fd]

BalancedIsStable ==
    /\ Cardinality(cache) = Replicas
    /\ Cardinality(DOMAIN placement) = Replicas
    /\ \A m \in cache : m.fd \in domains /\ ~m.deleted
    /\ Balanced(placement)
    => \A map \in updateMachineCache(cache, domains) : map = placement

(***************************************************************************)
(* While users leave it alone, a control plane of any placement moves to   *)
(* the failure domains of its template with one new Machine per index at   *)
(* most, and keeps that Machine: a mapping computed from a cache in the    *)
(* middle of the update, however late, never sends an index on or back.    *)
(***************************************************************************)
MovesOnce ==
    budget = MaxDisruptions =>
        \A m \in machines : m.created > Replicas =>
            /\ ~m.deleted
            /\ \A n \in ofIndex(machines, m.index) : n.created > Replicas => n = m

(***************************************************************************)
(* No index ever has two Machines in the same failure domain that nobody   *)
(* deletes.  createMachine looks past the cache before it creates: "Check  *)
(* if a replacement machine already exists and was not previously detected *)
(* due to potential stale cache."                                          *)
(***************************************************************************)
NoSecondReplacement ==
    \A m, n \in machines :
        m.index = n.index /\ m.fd = n.fd /\ ~m.deleted /\ ~n.deleted => m = n

=============================================================================
