--------------------- MODULE FailureDomainMappingProofs ---------------------
(***************************************************************************)
(* Proofs about FailureDomainMapping, for every number of replicas, every  *)
(* set of failure domains and every bound on the changes of users.         *)
(***************************************************************************)
EXTENDS FailureDomainMapping, IndexMappingProofs

(***************************************************************************)
(* The specification.  Machines and what a cache holds of them are finite  *)
(* sets of Machines that were created one after the other; a listing in    *)
(* any order names every Machine once.                                     *)
(***************************************************************************)
areMachines(ms, count) ==
    /\ ms \subseteq Machine /\ IsFiniteSet(ms) /\ count \in Nat
    /\ \A m \in ms : m.created <= count
    /\ \A m, k \in ms : m.created = k.created => m = k

isMapping(map) == DOMAIN map \subseteq Nat /\ \A i \in DOMAIN map : map[i] \in Int

MappingInv ==
    /\ domains \in Configurable
    /\ areMachines(machines, created)
    /\ areMachines(cache, created)
    /\ isMapping(mapping)

LEMMA ListsEveryMachine ==
    ASSUME NEW ms, NEW count, areMachines(ms, count), NEW list \in listings(ms)
    PROVE  isListing(list, ms)
<1> DEFINE crowded == {m \in ms : Cardinality(ofIndex(ms, m.index)) > 2}
           rest    == ms \ crowded
           key     == [m \in rest |-> m.created]
           second  == sortedBy(rest, key)
<1>1. ms \subseteq Machine /\ IsFiniteSet(ms) /\ \A m, k \in ms : m.created = k.created => m = k
  BY DEF areMachines
<1>2. /\ crowded \subseteq ms /\ rest \subseteq ms
      /\ crowded \cup rest = ms /\ crowded \cap rest = {}
  OBVIOUS
<1>3. PICK first \in SetToSeqs(crowded) : list = first \o second
  BY DEF listings
<1> HIDE DEF crowded, second
<1>4. isListing(second, rest)
  <2>1. key \in [rest -> Int] /\ \A m, k \in rest : key[m] = key[k] => m = k
    BY <1>1, <1>2 DEF Machine
  <2>2. IsFiniteSet(rest)
    BY <1>1, <1>2, FS_Subset
  <2> HIDE DEF key, rest
  <2> QED
    BY <2>1, <2>2, SortedIsListing DEF second
<1> HIDE DEF rest
<1>5. isListing(first, crowded)
  <2> DEFINE D == 1..Cardinality(crowded)
  <2>1. /\ Cardinality(crowded) \in Nat /\ IsFiniteSet(crowded)
        /\ IsFiniteSet(D) /\ Cardinality(D) = Cardinality(crowded)
    <3>1. IsFiniteSet(crowded)
      BY <1>1, <1>2, FS_Subset
    <3>2. Cardinality(crowded) \in Nat
      BY <3>1, FS_CardinalityType
    <3> QED
      BY <3>1, <3>2, FS_Interval
  <2>2. first \in [D -> crowded] /\ \A i, j \in D : i # j => first[i] # first[j]
    BY <1>3 DEF SetToSeqs
  <2>3. first \in Injection(D, crowded)
    BY <2>2 DEF Injection, IsInjective
  <2>4. first \in Surjection(D, crowded)
    BY <2>1, <2>3, FS_Injection
  <2>5. \A m \in crowded : \E k \in D : first[k] = m
    BY <2>4 DEF Surjection
  <2>6. first \in Seq(crowded) /\ Len(first) = Cardinality(crowded)
    BY <2>1, <2>2
  <2> QED
    BY <2>2, <2>5, <2>6 DEF isListing
<1>6. Cardinality(ms) = Cardinality(crowded) + Cardinality(rest)
  <2>1. IsFiniteSet(crowded) /\ IsFiniteSet(rest)
    BY <1>1, <1>2, FS_Subset
  <2>2. Cardinality(crowded \cap rest) = 0
    BY <1>2, FS_EmptySet
  <2>3. Cardinality(crowded) \in Nat /\ Cardinality(rest) \in Nat
    BY <2>1, FS_CardinalityType
  <2>4. Cardinality(crowded \cup rest)
          = Cardinality(crowded) + Cardinality(rest) - Cardinality(crowded \cap rest)
    BY <2>1, FS_Union
  <2>5. Cardinality(crowded \cup rest) = Cardinality(ms)
    BY <1>2, Zenon
  <2> QED
    BY <2>2, <2>3, <2>4, <2>5
<1>7. /\ first \in Seq(ms) /\ second \in Seq(ms)
      /\ Len(first) = Cardinality(crowded) /\ Len(second) = Cardinality(rest)
      /\ \A k \in 1..Len(first) : first[k] \in crowded
      /\ \A k \in 1..Len(second) : second[k] \in rest
  BY <1>2, <1>4, <1>5 DEF isListing
<1>8. /\ list \in Seq(ms) /\ Len(list) = Len(first) + Len(second)
      /\ \A k \in 1..Len(first) : list[k] = first[k]
      /\ \A k \in 1..Len(second) : list[Len(first) + k] = second[k]
      /\ Len(first) \in Nat /\ Len(second) \in Nat
  <2>1. first \in Seq(ms) /\ second \in Seq(ms)
    BY <1>7
  <2> QED
    BY <1>3, <2>1
<1>9. \A k \in 1..Len(list) : \/ k \in 1..Len(first)
                              \/ k - Len(first) \in 1..Len(second)
  BY <1>8
<1>10. ASSUME NEW m \in ms
       PROVE  \E k \in 1..Len(list) : list[k] = m
  <2>1. CASE m \in crowded
    <3>1. PICK k \in 1..Len(first) : first[k] = m
      BY <1>5, <2>1 DEF isListing
    <3>2. k \in 1..Len(list) /\ list[k] = m
      BY <1>8, <3>1
    <3> QED
      BY <3>2
  <2>2. CASE m \in rest
    <3>1. PICK k \in 1..Len(second) : second[k] = m
      BY <1>4, <2>2 DEF isListing
    <3>2. Len(first) + k \in 1..Len(list) /\ list[Len(first) + k] = m
      BY <1>8, <3>1
    <3> QED
      BY <3>2
  <2> QED
    BY <1>2, <2>1, <2>2
<1>11. ASSUME NEW j \in 1..Len(list), NEW k \in 1..Len(list), list[j] = list[k]
       PROVE  j = k
  <2>1. ASSUME NEW n \in 1..Len(list), n \notin 1..Len(first)
        PROVE  n - Len(first) \in 1..Len(second) /\ list[n] = second[n - Len(first)]
    <3>1. n - Len(first) \in 1..Len(second) /\ n = Len(first) + (n - Len(first))
      BY <1>8, <1>9, <2>1
    <3> QED
      BY <1>8, <3>1
  <2>2. CASE j \in 1..Len(first) /\ k \in 1..Len(first)
    BY <1>5, <1>8, <1>11, <2>2 DEF isListing
  <2>3. CASE j \notin 1..Len(first) /\ k \notin 1..Len(first)
    <3>1. j - Len(first) = k - Len(first)
      BY <1>4, <1>11, <2>1, <2>3 DEF isListing
    <3> QED
      BY <1>8, <3>1
  <2>4. CASE j \in 1..Len(first) /\ k \notin 1..Len(first)
    BY <1>2, <1>7, <1>8, <1>11, <2>1, <2>4
  <2>5. CASE j \notin 1..Len(first) /\ k \in 1..Len(first)
    BY <1>2, <1>7, <1>8, <1>11, <2>1, <2>5
  <2> QED
    BY <2>2, <2>3, <2>4, <2>5
<1> QED
  BY <1>6, <1>7, <1>8, <1>10, <1>11 DEF isListing

LEMMA CacheIsComplete ==
    ASSUME NEW ms, NEW count, areMachines(ms, count), NEW fds \in Configurable,
           NEW f \in updateMachineCache(ms, fds)
    PROVE  isComplete(f, {m.index : m \in ms}, fds)
<1> DEFINE indexes == {m.index : m \in ms}
           index   == [m \in ms |-> m.index]
<1>1. PICK list \in listings(ms) : f = mapMachineIndexesToFailureDomains(list, fds)
  BY DEF updateMachineCache
<1>2. /\ list \in Seq(ms) /\ ms \subseteq Machine /\ IsFiniteSet(ms)
      /\ \A m \in ms : \E k \in 1..Len(list) : list[k] = m
  <2>1. isListing(list, ms)
    BY ListsEveryMachine
  <2> QED
    BY <2>1 DEF isListing, areMachines
<1>3. list \in Seq(Machine)
  BY <1>2
<1>4. indexes = {list[k].index : k \in 1..Len(list)}
  <2>1. \A k \in 1..Len(list) : list[k] \in ms
    BY <1>2
  <2> QED
    BY <1>2, <2>1
<1>5. IsFiniteSet(indexes)
  <2>1. index \in Surjection(ms, indexes)
    BY DEF Surjection
  <2> HIDE DEF index, indexes
  <2> QED
    BY <1>2, <2>1, FS_Surjection
<1>6. IsFiniteSet(fds) /\ fds \subseteq Int /\ fds # {}
  <2>1. fds \in SUBSET Domains /\ fds # {}
    BY Zenon DEF Configurable
  <2> QED
    BY <2>1, MappingAssumption, FS_Subset
<1> HIDE DEF indexes
<1>7. isComplete(f, indexes, fds)
  BY <1>1, <1>3, <1>4, <1>5, <1>6, MappingIsComplete
<1> QED
  BY <1>7 DEF indexes

(***************************************************************************)
(* What can happen to the Machines.                                        *)
(***************************************************************************)
LEMMA AddsMachine ==
    ASSUME NEW ms, NEW count, areMachines(ms, count), NEW i \in Nat, NEW fd \in Int
    PROVE  areMachines(ms \cup {[index |-> i, fd |-> fd, created |-> count + 1,
                                 deleted |-> FALSE]}, count + 1)
<1> DEFINE m == [index |-> i, fd |-> fd, created |-> count + 1, deleted |-> FALSE]
<1>1. m \in Machine /\ m.created = count + 1
  BY DEF Machine, areMachines
<1>2. IsFiniteSet(ms \cup {m})
  BY FS_AddElement DEF areMachines
<1>3. \A k \in ms : k.created \in Nat /\ k.created <= count + 1 /\ k.created # count + 1
  BY DEF Machine, areMachines
<1> HIDE DEF m
<1>4. areMachines(ms \cup {m}, count + 1)
  BY <1>1, <1>2, <1>3 DEF areMachines
<1> QED
  BY <1>4 DEF m

LEMMA RemovesMachine ==
    ASSUME NEW ms, NEW count, areMachines(ms, count), NEW m
    PROVE  areMachines(ms \ {m}, count)
  BY FS_RemoveElement DEF areMachines

LEMMA MarksMachines ==
    ASSUME NEW names, areMachines(machines, created)
    PROVE  areMachines(afterDeletion(names), created)
<1> DEFINE marked(m) == [m EXCEPT !.deleted = TRUE]
           f  == [m \in machines |-> IF m.created \in names THEN marked(m) ELSE m]
           ms == afterDeletion(names)
<1>1. \A m \in machines : marked(m) \in Machine /\ marked(m).created = m.created
  BY DEF Machine, areMachines
<1>2. \A m \in ms : \E k \in machines : m = f[k]
  BY DEF afterDeletion
<1>3. \A k \in machines : f[k] \in ms /\ f[k] \in Machine /\ f[k].created = k.created
  BY <1>1 DEF afterDeletion, areMachines
<1>4. IsFiniteSet(ms)
  <2>1. f \in Surjection(machines, ms)
    BY <1>2, <1>3 DEF Surjection
  <2> HIDE DEF f, ms
  <2> QED
    BY <2>1, FS_Surjection DEF areMachines
<1> HIDE DEF f, ms
<1>5. areMachines(ms, created)
  BY <1>2, <1>3, <1>4 DEF areMachines
<1> QED
  BY <1>5 DEF ms

LEMMA MoreCreated ==
    ASSUME NEW ms, NEW count, areMachines(ms, count)
    PROVE  areMachines(ms, count + 1)
<1>1. \A m \in ms : m.created \in Nat /\ m.created <= count
  BY DEF areMachines, Machine
<1>2. count \in Nat
  BY DEF areMachines
<1>3. count + 1 \in Nat /\ \A m \in ms : m.created <= count + 1
  BY <1>1, <1>2
<1> QED
  BY <1>3 DEF areMachines

LEMMA FirstMachines ==
    ASSUME NEW fd \in [1..Replicas -> Domains]
    PROVE  areMachines({[index |-> FirstIndex + n - 1, fd |-> fd[n], created |-> n,
                         deleted |-> FALSE] : n \in 1..Replicas}, Replicas)
<1> DEFINE first(n) == [index |-> FirstIndex + n - 1, fd |-> fd[n], created |-> n,
                        deleted |-> FALSE]
           f  == [n \in 1..Replicas |-> first(n)]
           ms == {first(n) : n \in 1..Replicas}
<1> USE MappingAssumption, ReplicasAssumption
<1>1. ASSUME NEW n \in 1..Replicas
      PROVE  first(n) \in Machine /\ first(n).created = n /\ n \in Nat /\ n <= Replicas
  <2>1. FirstIndex + n - 1 \in Nat /\ n \in Nat /\ n <= Replicas
    OBVIOUS
  <2>2. fd[n] \in Domains
    OBVIOUS
  <2>3. fd[n] \in Int
    BY <2>2
  <2> QED
    BY <2>1, <2>3 DEF Machine
<1>2. IsFiniteSet(ms)
  <2>1. f \in Surjection(1..Replicas, ms)
    BY DEF Surjection
  <2>2. IsFiniteSet(1..Replicas)
    BY FS_Interval
  <2> HIDE DEF f, ms
  <2> QED
    BY <2>1, <2>2, FS_Surjection
<1> HIDE DEF first
<1>3. areMachines(ms, Replicas)
  BY <1>1, <1>2 DEF areMachines
<1> QED
  BY <1>3 DEF first

LEMMA KeepsMapping ==
    ASSUME NEW map, NEW fds, isMapping(map), keepProvider(map, fds)
    PROVE  isMapping(mapping')
<1>1. isMapping(<< >>)
  BY DEF isMapping
<1> QED
  BY <1>1 DEF keepProvider

LEMMA MappingInvStep == MappingInv /\ [Next]_vars => MappingInv'
<1> SUFFICES ASSUME MappingInv, [Next]_vars
             PROVE  MappingInv'
  OBVIOUS
<1>1. CASE Reconcile
  <2>1. PICK map \in updateMachineCache(cache, domains) : keepProvider(map, domains)
    BY <1>1 DEF Reconcile
  <2>2. isComplete(map, {m.index : m \in cache}, domains)
    BY CacheIsComplete DEF MappingInv
  <2>3. domains \subseteq Int
    BY MappingAssumption DEF MappingInv, Configurable
  <2>4. isMapping(map)
    BY <2>2, <2>3 DEF isMapping, isComplete
  <2>5. isMapping(mapping')
    BY <2>1, <2>4, KeepsMapping
  <2> QED
    BY <1>1, <2>5 DEF MappingInv, Reconcile
<1>2. ASSUME NEW i \in todo, NEW m \in view, DeleteReplacedMachine(i, m)
      PROVE  MappingInv'
  <2>1. areMachines(machines', created)
    BY <1>2, MarksMachines DEF DeleteReplacedMachine, MappingInv
  <2>2. isMapping(mapping')
    BY <1>2, KeepsMapping DEF DeleteReplacedMachine, MappingInv
  <2> QED
    BY <1>2, <2>1, <2>2 DEF MappingInv, DeleteReplacedMachine
<1>3. ASSUME NEW i \in todo, SkipIndex(i)
      PROVE  MappingInv'
  <2>1. isMapping(mapping')
    BY <1>3, KeepsMapping DEF SkipIndex, MappingInv
  <2> QED
    BY <1>3, <2>1 DEF MappingInv, SkipIndex
<1>4. ASSUME NEW i \in todo, CreateMachine(i)
      PROVE  MappingInv'
  <2>1. i \in Nat /\ mapping[i] \in Int
    BY <1>4 DEF MappingInv, isMapping, CreateMachine
  <2>2. areMachines(machines', created')
    BY <1>4, <2>1, AddsMachine DEF CreateMachine, MappingInv
  <2>3. areMachines(cache', created')
    BY <1>4, MoreCreated DEF CreateMachine, MappingInv
  <2>4. isMapping(mapping')
    BY <1>4, KeepsMapping DEF CreateMachine, MappingInv
  <2> QED
    BY <1>4, <2>2, <2>3, <2>4 DEF MappingInv, CreateMachine
<1>5. ASSUME NEW i \in todo, NoFailureDomain(i)
      PROVE  MappingInv'
  <2>1. isMapping(mapping')
    BY <1>5, KeepsMapping DEF NoFailureDomain, MappingInv
  <2> QED
    BY <1>5, <2>1 DEF MappingInv, NoFailureDomain
<1>6. CASE SyncMachines
  BY <1>6 DEF MappingInv, SyncMachines, loopVars
<1>7. ASSUME NEW m \in machines, RemoveDeleted(m)
      PROVE  MappingInv'
  <2>1. areMachines(machines', created)
    BY <1>7, RemovesMachine DEF RemoveDeleted, MappingInv
  <2> QED
    BY <1>7, <2>1 DEF RemoveDeleted, MappingInv, loopVars
<1>8. ASSUME NEW m \in machines, LoseMachine(m)
      PROVE  MappingInv'
  <2>1. areMachines(machines', created)
    BY <1>8, MarksMachines, RemovesMachine DEF LoseMachine, MappingInv
  <2> QED
    BY <1>8, <2>1 DEF LoseMachine, MappingInv, loopVars
<1>9. ASSUME NEW S \in Configurable, ChangeDomains(S)
      PROVE  MappingInv'
  BY <1>9 DEF ChangeDomains, MappingInv, loopVars
<1>10. CASE UNCHANGED vars
  BY <1>10 DEF MappingInv, vars, loopVars
<1> QED
  BY <1>1, <1>2, <1>3, <1>4, <1>5, <1>6, <1>7, <1>8, <1>9, <1>10 DEF Next, ReconcileStep

LEMMA MappingInvInit == Init => MappingInv
<1> SUFFICES ASSUME Init PROVE MappingInv
  OBVIOUS
<1>1. areMachines(machines, created)
  BY FirstMachines DEF Init
<1>2. domains \in Configurable /\ mapping = << >> /\ cache = machines
  BY DEF Init
<1> QED
  BY <1>1, <1>2 DEF MappingInv, isMapping

LEMMA MappingInvAlways == Spec => []MappingInv
  BY MappingInvInit, MappingInvStep, PTL DEF Spec

(***************************************************************************)
(* mapMachineIndexesToFailureDomains: whatever users do to the failure     *)
(* domains and to the Machines, however far an update has got and however  *)
(* late the cache is, a mapping computed from it has an index for every    *)
(* replica, every index of a Machine among them, and gives each a failure  *)
(* domain of the template.                                                 *)
(***************************************************************************)
THEOREM MappingCovers == Spec => []MappingCoversIndexes
<1>1. MappingInv => MappingCoversIndexes
  <2> SUFFICES ASSUME MappingInv, NEW map \in updateMachineCache(cache, domains)
               PROVE  isComplete(map, {m.index : m \in cache}, domains)
    BY DEF isComplete, MappingCoversIndexes
  <2> QED
    BY CacheIsComplete DEF MappingInv
<1> QED
  BY <1>1, MappingInvAlways, PTL

-----------------------------------------------------------------------------
(***************************************************************************)
(* Stability.                                                              *)
(***************************************************************************)
LEMMA PlacementStays ==
    ASSUME MappingInv, NEW map \in updateMachineCache(cache, domains),
           Cardinality(cache) = Replicas,
           Cardinality(DOMAIN placement) = Replicas,
           \A m \in cache : m.fd \in domains,
           Balanced(placement)
    PROVE  map = placement
<1> DEFINE indexes == {m.index : m \in cache}
           index   == [m \in cache |-> m.index]
<1>1. PICK list \in listings(cache) : map = mapMachineIndexesToFailureDomains(list, domains)
  BY DEF updateMachineCache
<1> DEFINE mm   == mapIndexesToFailureDomainsForMachines(list)
           base == createBaseFailureDomainMapping(domains, mm)
           q    == maxIndexesPerFailureDomain(base)
<1>2. /\ cache \subseteq Machine /\ IsFiniteSet(cache) /\ domains \in Configurable
      /\ isComplete(map, indexes, domains)
      /\ areMachines(cache, created)
  BY CacheIsComplete DEF MappingInv, areMachines
<1>3. isListing(list, cache)
  BY <1>2, ListsEveryMachine
<1>4. /\ list \in Seq(Machine)
      /\ \A k \in 1..Len(list) : list[k] \in cache
      /\ \A m \in cache : \E k \in 1..Len(list) : list[k] = m
      /\ \A j, k \in 1..Len(list) : list[j] = list[k] => j = k
  <2>1. list \in Seq(cache)
    BY <1>3 DEF isListing
  <2> QED
    BY <1>2, <1>3, <2>1 DEF isListing
<1>5. indexes = {list[k].index : k \in 1..Len(list)} /\ indexes \subseteq Nat
  BY <1>2, <1>4 DEF Machine
<1>6. DOMAIN placement = indexes
  BY DEF placement
<1>7. IsFiniteSet(indexes) /\ Cardinality(indexes) = Replicas
      /\ \A m, k \in cache : m.index = k.index => m = k
  <2>1. index \in Surjection(cache, indexes)
    BY DEF Surjection
  <2>2. Cardinality(indexes) = Cardinality(cache)
    BY <1>6
  <2> HIDE DEF index, indexes
  <2>3. IsFiniteSet(indexes) /\ index \in Injection(cache, indexes)
    BY <1>2, <2>1, <2>2, FS_Surjection
  <2>4. \A m, k \in cache : index[m] = index[k] => m = k
    BY <2>3 DEF Injection, IsInjective
  <2> QED
    BY <2>2, <2>3, <2>4 DEF index
<1>8. \A j, k \in 1..Len(list) : list[j].index = list[k].index => j = k
  BY <1>4, <1>7
<1>9. IsFiniteSet(domains) /\ domains \subseteq Int /\ domains # {}
  <2>1. domains \in SUBSET Domains /\ domains # {}
    BY <1>2 DEF Configurable
  <2> QED
    BY <2>1, MappingAssumption, FS_Subset
<1> HIDE DEF indexes
<1>10. mm = placement
  <2>1. DOMAIN mm = indexes
    BY <1>4, <1>5, KeepsEveryIndex
  <2>2. ASSUME NEW i \in indexes
        PROVE  mm[i] = placement[i]
    <3>1. PICK k \in 1..Len(list) : list[k].index = i
      BY <1>5
    <3>2. mm[i] = list[k].fd
      BY <1>4, <1>8, <3>1, KeepsSingleMachines
    <3>3. (CHOOSE m \in cache : m.index = i) = list[k]
      BY <1>4, <1>7, <3>1
    <3> QED
      BY <3>2, <3>3, <1>6 DEF placement
  <2>3. mm = [i \in DOMAIN mm |-> mm[i]] /\ placement = [i \in DOMAIN placement |-> placement[i]]
    BY DEF mapIndexesToFailureDomainsForMachines, placement
  <2> HIDE DEF mm
  <2> QED
    BY <1>6, <2>1, <2>2, <2>3
<1> HIDE DEF mm
<1>11. /\ q \in Nat /\ 1 <= q /\ Replicas <= q * Cardinality(domains)
       /\ Replicas \in Nat /\ Cardinality(domains) \in Nat
  <2>1. IsFiniteSet(DOMAIN mm) /\ Cardinality(DOMAIN mm) = Replicas
    BY <1>6, <1>7, <1>10
  <2>2. Replicas \in Nat
    BY ReplicasAssumption
  <2>3. Max({Replicas, Replicas}) = Replicas
    BY <2>2 DEF Max
  <2>4. Cardinality(DOMAIN base) = Replicas
    BY <1>9, <2>1, <2>3, BaseIsComplete
  <2> QED
    BY <1>9, <2>1, <2>2, <2>4, BaseShare, FS_CardinalityType
<1>12. ASSUME NEW i \in DOMAIN mm
       PROVE  ~(countForFailureDomain(mm, mm[i]) > q)
  <2> DEFINE a == mm[i]
  <2>1. a \in domains
    <3>1. PICK m \in cache : m.index = i
      BY <1>6, <1>10 DEF indexes
    <3>2. (CHOOSE k \in cache : k.index = i) = m
      BY <1>7, <3>1
    <3> QED
      BY <1>6, <1>10, <3>1, <3>2 DEF placement
  <2>2. ASSUME NEW b \in domains
        PROVE  countForFailureDomain(mm, b) \in Nat
    <3>1. {k \in DOMAIN mm : mm[k] = b} \in SUBSET DOMAIN mm
      OBVIOUS
    <3> QED
      BY <1>6, <1>7, <1>10, <3>1, FS_Subset, FS_CardinalityType DEF countForFailureDomain
  <2>3. \A b \in domains : countForFailureDomain(mm, a) <= countForFailureDomain(mm, b) + 1
    BY <1>10, <2>1 DEF Balanced
  <2> HIDE DEF a, q
  <2>4. ASSUME q < countForFailureDomain(mm, a)
        PROVE  FALSE
    <3>1. \A b \in domains : q <= countForFailureDomain(mm, b)
      BY <1>11, <2>1, <2>2, <2>3, <2>4
    <3>2. IsFiniteSet(DOMAIN mm) /\ DOMAIN mm \subseteq Int /\ Cardinality(DOMAIN mm) = Replicas
      BY <1>5, <1>6, <1>7, <1>10, Nat \subseteq Int
    <3>3. Cardinality(domains) * q < Replicas
      BY <1>9, <1>11, <2>1, <2>4, <3>1, <3>2, MoreThanTheShare
    <3>4. Cardinality(domains) * q = q * Cardinality(domains) /\ q * Cardinality(domains) \in Nat
      BY <1>11
    <3> DEFINE x == q * Cardinality(domains)
    <3>5. x < Replicas /\ Replicas <= x /\ x \in Nat /\ Replicas \in Nat
      BY <1>11, <3>3, <3>4
    <3> HIDE DEF x
    <3> QED
      BY <3>5
  <2> QED
    BY <1>11, <2>1, <2>2, <2>4 DEF a
<1>13. keepsAll(map, mm)
  <2>1. \A k \in 1..Len(list) : list[k].fd \in domains
    BY <1>4
  <2>2. mm = mapIndexesToFailureDomainsForMachines(list)
    BY DEF mm
  <2> QED
    BY <1>1, <1>4, <1>5, <1>7, <1>8, <1>9, <1>12, <2>1, <2>2, MappingStays
<1>14. DOMAIN map = indexes
  <2>1. Max({Replicas, Replicas}) = Replicas
    BY ReplicasAssumption DEF Max
  <2>2. indexes \in SUBSET DOMAIN map /\ Cardinality(DOMAIN map) = Cardinality(indexes)
    BY <1>2, <1>7, <2>1 DEF isComplete
  <2> QED
    BY <1>2, <1>7, <2>2, FS_Subset DEF isComplete
<1>15. isFunction(map) /\ isFunction(placement)
  BY <1>2 DEF isComplete, isFunction, placement
<1> QED
  BY <1>6, <1>10, <1>13, <1>14, <1>15 DEF keepsAll, isFunction

(***************************************************************************)
(* maxIndexesPerFailureDomain, handleUnmatchedIndex: a complete control    *)
(* plane that uses the template's failure domains equally is never moved,  *)
(* whatever its size, its indexes and the number of failure domains.       *)
(***************************************************************************)
THEOREM BalancedStays == Spec => []BalancedIsStable
<1>1. MappingInv => BalancedIsStable
  BY PlacementStays DEF BalancedIsStable
<1> QED
  BY <1>1, MappingInvAlways, PTL

-----------------------------------------------------------------------------
(***************************************************************************)
(* Balance.  The listing of the Machines that a mapping is computed from   *)
(* has every Machine, so the same indexes are deleting.                    *)
(***************************************************************************)
LEMMA CacheIsBalanced ==
    ASSUME MappingInv, listDeletingIndexes(cache) = {},
           NEW map \in updateMachineCache(cache, domains)
    PROVE  NoDomainOverRepresented(map)
<1> DEFINE indexes == {m.index : m \in cache}
           index   == [m \in cache |-> m.index]
<1>1. PICK list \in listings(cache) : map = mapMachineIndexesToFailureDomains(list, domains)
  BY DEF updateMachineCache
<1>2. /\ cache \subseteq Machine /\ IsFiniteSet(cache) /\ domains \in Configurable
      /\ areMachines(cache, created)
  BY CacheIsComplete DEF MappingInv, areMachines
<1>3. isListing(list, cache)
  BY <1>2, ListsEveryMachine
<1>4. /\ list \in Seq(Machine)
      /\ \A k \in 1..Len(list) : list[k] \in cache
      /\ \A m \in cache : \E k \in 1..Len(list) : list[k] = m
      /\ DOMAIN list = 1..Len(list)
  <2>1. list \in Seq(cache)
    BY <1>3 DEF isListing
  <2> QED
    BY <1>2, <1>3, <2>1 DEF isListing
<1>5. indexes = {list[k].index : k \in 1..Len(list)} /\ ToSet(list) = cache
  BY <1>4 DEF ToSet
<1>6. IsFiniteSet(indexes)
  <2>1. index \in Surjection(cache, indexes)
    BY DEF Surjection
  <2> HIDE DEF index, indexes
  <2> QED
    BY <1>2, <2>1, FS_Surjection
<1>7. IsFiniteSet(domains) /\ domains \subseteq Int /\ domains # {}
  <2>1. domains \in SUBSET Domains /\ domains # {}
    BY <1>2 DEF Configurable
  <2> QED
    BY <2>1, MappingAssumption, FS_Subset
<1> HIDE DEF indexes
<1>8. isBalanced(mapMachineIndexesToFailureDomains(list, domains), domains)
  BY <1>4, <1>5, <1>6, <1>7, MappingIsBalanced
<1> QED
  BY <1>1, <1>8 DEF isBalanced, NoDomainOverRepresented

(***************************************************************************)
(* As long as every index with Machines has one that is not being deleted, *)
(* no failure domain gets more indexes than its share, rounded up, at any  *)
(* point of a roll-out (matchMachinesToCandidates, handleUnmatchedIndex).  *)
(***************************************************************************)
THEOREM LiveIndexesStayBalanced == Spec => []LiveIndexesBalanced
<1>1. MappingInv => LiveIndexesBalanced
  BY CacheIsBalanced DEF LiveIndexesBalanced
<1> QED
  BY <1>1, MappingInvAlways, PTL

=============================================================================
