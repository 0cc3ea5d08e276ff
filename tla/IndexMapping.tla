---------------------------- MODULE IndexMapping ----------------------------
(***************************************************************************)
(* Which failure domain each Machine index belongs to                      *)
(* (pkg/machineproviders/providers/openshift/machine/v1beta1/mapping.go),  *)
(* a function of the Machines, in the order they are listed, and of the    *)
(* failure domains of the template.                                        *)
(*                                                                         *)
(* A failure domain is a number; the order of numbers is the order of the  *)
(* domains' strings.  A mapping is a function from indexes to domains.     *)
(***************************************************************************)
EXTENDS MachineInfos, SequencesExt

(***************************************************************************)
(* sortedIndexes, extraIndexes and the sorts of failure domains by their   *)
(* strings.  The k-th element is the one with k elements up to its key.    *)
(***************************************************************************)
sortedBy(S, key) ==
    [k \in 1..Cardinality(S) |->
        CHOOSE x \in S : Cardinality({y \in S : key[y] <= key[x]}) = k]

ascending(S) == sortedBy(S, [x \in S |-> x])

-----------------------------------------------------------------------------
(***************************************************************************)
(* mapIndexesToFailureDomainsForMachines, over the Machines in the order   *)
(* they were listed.  The Machine kept for an index is the last one that   *)
(* agreed with its failure domain or was not older than the one kept.      *)
(***************************************************************************)
keepMachine(kept, m) ==
    IF /\ m.index \in DOMAIN kept
       /\ kept[m.index].fd # m.fd
       /\ kept[m.index].created > m.created
    THEN kept
    ELSE [i \in DOMAIN kept \cup {m.index} |-> IF i = m.index THEN m ELSE kept[i]]

keptMachines(list) ==
    LET kept[n \in 0..Len(list)] == IF n = 0 THEN << >>
                                    ELSE keepMachine(kept[n - 1], list[n])
    IN  kept

mapIndexesToFailureDomainsForMachines(list) ==
    LET kept == keptMachines(list)[Len(list)]
    IN  [i \in DOMAIN kept |-> kept[i].fd]

listDeletingIndexes(ms) ==
    {m.index : m \in {d \in ms : d.deleted}} \ {m.index : m \in {d \in ms : ~d.deleted}}

(***************************************************************************)
(* createBaseFailureDomainMapping: the domains Machines use come first,    *)
(* dealt out to the indexes from 0 on in turn.                             *)
(***************************************************************************)
createBaseFailureDomainMapping(domains, machineMapping) ==
    LET used   == {machineMapping[i] : i \in DOMAIN machineMapping}
        sorted == ascending(domains \cap used) \o ascending(domains \ used)
        count  == Max({Replicas, Cardinality(DOMAIN machineMapping)})
    IN  [i \in 0..(count - 1) |-> sorted[(i % Len(sorted)) + 1]]

(***************************************************************************)
(* reconcileIndexes: the k-th index that only the base has stands for the  *)
(* k-th that only the Machines have.                                       *)
(***************************************************************************)
reconcileIndexes(base, preferred) ==
    LET extra   == ascending(DOMAIN base \ preferred)
        missing == ascending(preferred \ DOMAIN base)
        renamed == {k \in DOMAIN extra : k <= Len(missing)}
        oldName(i) == IF \E k \in renamed : missing[k] = i
                      THEN extra[CHOOSE k \in renamed : missing[k] = i] ELSE i
    IN  [i \in (DOMAIN base \ {extra[k] : k \in renamed}) \cup preferred |-> base[oldName(i)]]

useCandidate(candidates, i) == Restrict(candidates, DOMAIN candidates \ {i})

(***************************************************************************)
(* A bug: the candidate found is used up without the swap.                 *)
(***************************************************************************)
takeWithoutSwap(out, candidates, y) ==
    LET equal == {x \in DOMAIN candidates : candidates[x] = out[y]}
    IN  IF equal = {} THEN candidates ELSE useCandidate(candidates, Min(equal))

(***************************************************************************)
(* matchMachinesToCandidates: index y takes the lowest candidate that has  *)
(* its domain; the candidate y had goes to that one's index.               *)
(***************************************************************************)
takeCandidate(out, candidates, y) ==
    LET equal == {x \in DOMAIN candidates : candidates[x] = out[y]}
    IN  IF equal = {} THEN candidates
        ELSE useCandidate([candidates EXCEPT ![Min(equal)] = candidates[y]], y)

unmatched(out, candidates, order) ==
    LET left[n \in 0..Len(order)] == IF n = 0 THEN candidates
                                     ELSE takeCandidate(out, left[n - 1], order[n])
    IN  left

matchMachinesToCandidates(out, candidates, deletingIndexes) ==
    LET order == ascending(DOMAIN out \ deletingIndexes)
    IN  unmatched(out, candidates, order)[Len(order)]

countForFailureDomain(mapping, fd) == Cardinality({i \in DOMAIN mapping : mapping[i] = fd})

contains(mapping, fd) == \E i \in DOMAIN mapping : mapping[i] = fd

(***************************************************************************)
(* Two bugs: the share is rounded down; it is one too many.                *)
(***************************************************************************)
maxIndexesRoundedDown(base) ==
    Cardinality(DOMAIN base) \div Cardinality({base[i] : i \in DOMAIN base})

maxIndexesOffByOne(base) ==
    LET unique == Cardinality({base[i] : i \in DOMAIN base})
    IN  (Cardinality(DOMAIN base) + unique - 1) \div unique + 1

(***************************************************************************)
(* The ceiling of indexes over domains.                                    *)
(***************************************************************************)
maxIndexesPerFailureDomain(base) ==
    LET unique == Cardinality({base[i] : i \in DOMAIN base})
    IN  (Cardinality(DOMAIN base) + unique - 1) \div unique

(***************************************************************************)
(* handleUnmatchedIndex: index i keeps its domain unless it has none, the  *)
(* domain was removed, or the domain is used too often.                    *)
(***************************************************************************)
handleUnmatchedIndex(out, i, base, candidates) ==
    IF \/ i \notin DOMAIN out
       \/ ~contains(base, out[i])
       \/ countForFailureDomain(out, out[i]) > maxIndexesPerFailureDomain(base)
    THEN [k \in DOMAIN out \cup {i} |-> IF k = i THEN candidates[i] ELSE out[k]]
    ELSE out

handled(machineMapping, base, candidates, order) ==
    LET out[n \in 0..Len(order)] ==
            IF n = 0 THEN machineMapping
            ELSE handleUnmatchedIndex(out[n - 1], order[n], base, candidates)
    IN  out

reconcileMappings(base, machineMapping, deletingIndexes) ==
    LET candidates == matchMachinesToCandidates(
                          machineMapping,
                          reconcileIndexes(base, DOMAIN machineMapping), deletingIndexes)
        order == ascending(DOMAIN candidates)
    IN  handled(machineMapping, base, candidates, order)[Len(order)]

mapMachineIndexesToFailureDomains(list, domains) ==
    LET machineMapping == mapIndexesToFailureDomainsForMachines(list)
        base           == createBaseFailureDomainMapping(domains, machineMapping)
    IN  reconcileMappings(base, machineMapping, listDeletingIndexes(ToSet(list)))

=============================================================================
