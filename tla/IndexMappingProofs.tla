------------------------- MODULE IndexMappingProofs -------------------------
(***************************************************************************)
(* What the mapping algorithm returns, for every number of replicas, every *)
(* list of Machines and every set of failure domains.                      *)
(***************************************************************************)
EXTENDS IndexMapping, FiniteSetTheorems, TLAPS

-----------------------------------------------------------------------------
(***************************************************************************)
(* Counting up.  A non-empty set of numbers has a least element, so a set  *)
(* that has 0 and the successor of each of its numbers has them all.       *)
(***************************************************************************)
below == {p \in Nat \X Nat : p[1] < p[2]}

LEMMA LeastNumber ==
    ASSUME NEW S, S \subseteq Nat, S # {}
    PROVE  \E x \in S : \A y \in S : x <= y
<1>1. IsWellFoundedOn(below, Nat)
  BY NatLessThanWellFounded DEF OpToRel, below
<1>2. PICK x \in S : \A y \in S : <<y, x>> \notin below
  BY <1>1, WFMin
<1>3. ASSUME NEW y \in S, <<y, x>> \notin below
      PROVE  x <= y
  BY <1>3 DEF below
<1> QED
  BY <1>2, <1>3

LEMMA MinIsElement ==
    ASSUME NEW S, S \subseteq Nat, S # {}
    PROVE  Min(S) \in S
  BY LeastNumber DEF Min

LEMMA CountUp ==
    ASSUME NEW N \in Nat, NEW S, 0 \in S, \A n \in 1..N : n - 1 \in S => n \in S
    PROVE  \A n \in 0..N : n \in S
<1> SUFFICES ASSUME (0..N) \ S # {} PROVE FALSE
  OBVIOUS
<1> DEFINE T == (0..N) \ S
<1>1. PICK x \in T : \A y \in T : x <= y
  <2>1. T \subseteq Nat /\ T # {}
    OBVIOUS
  <2> HIDE DEF T
  <2> QED
    BY <2>1, LeastNumber
<1>2. x \in 1..N
  OBVIOUS
<1>3. x - 1 \in 0..N /\ ~(x <= x - 1)
  BY <1>2
<1>4. x - 1 \in S
  BY <1>1, <1>3
<1> QED
  BY <1>1, <1>2, <1>4

-----------------------------------------------------------------------------
(***************************************************************************)
(* Sorting.  Different elements have different keys, so the k-th element   *)
(* is unique, and as there are as many places as elements, there is one.   *)
(***************************************************************************)
isListing(s, S) ==
    /\ s \in Seq(S) /\ Len(s) = Cardinality(S)
    /\ \A x \in S : \E k \in 1..Len(s) : s[k] = x
    /\ \A j, k \in 1..Len(s) : s[j] = s[k] => j = k

LEMMA SortedIsListing ==
    ASSUME NEW S, IsFiniteSet(S), NEW key \in [S -> Int],
           \A x, y \in S : key[x] = key[y] => x = y
    PROVE  /\ isListing(sortedBy(S, key), S)
           /\ \A j, k \in 1..Cardinality(S) :
                j < k => key[sortedBy(S, key)[j]] < key[sortedBy(S, key)[k]]
<1> DEFINE upTo(x) == {y \in S : key[y] <= key[x]}
           rank    == [x \in S |-> Cardinality(upTo(x))]
           N       == Cardinality(S)
           s       == sortedBy(S, key)
<1>1. N \in Nat /\ IsFiniteSet(1..N) /\ Cardinality(1..N) = N
  BY FS_CardinalityType, FS_Interval
<1>2. ASSUME NEW x \in S
      PROVE  /\ IsFiniteSet(upTo(x)) /\ Cardinality(upTo(x)) \in 1..N
  <2>1. upTo(x) \in SUBSET S /\ x \in upTo(x)
    OBVIOUS
  <2>2. IsFiniteSet(upTo(x)) /\ Cardinality(upTo(x)) <= N
    BY <2>1, FS_Subset
  <2>3. Cardinality(upTo(x)) \in Nat /\ Cardinality(upTo(x)) # 0
    BY <2>1, <2>2, FS_CardinalityType, FS_EmptySet
  <2> QED
    BY <1>1, <2>2, <2>3
<1>3. ASSUME NEW x \in S, NEW y \in S, key[x] < key[y]
      PROVE  Cardinality(upTo(x)) # Cardinality(upTo(y))
  <2>1. upTo(x) \in SUBSET upTo(y) /\ y \in upTo(y) /\ y \notin upTo(x)
    BY <1>3
  <2> HIDE DEF upTo
  <2> QED
    BY <1>2, <2>1, FS_Subset
<1>4. rank \in [S -> 1..N]
  BY <1>2
<1>5. \A x, y \in S : rank[x] = rank[y] => x = y
  <2> SUFFICES ASSUME NEW x \in S, NEW y \in S, x # y
               PROVE  rank[x] # rank[y]
    OBVIOUS
  <2>1. key[x] \in Int /\ key[y] \in Int /\ key[x] # key[y]
    OBVIOUS
  <2>2. key[x] < key[y] \/ key[y] < key[x]
    BY <2>1
  <2> QED
    BY <1>3, <2>2
<1>6. \A k \in 1..N : \E x \in S : rank[x] = k
  <2> HIDE DEF rank
  <2>1. rank \in Injection(S, 1..N)
    BY <1>4, <1>5 DEF Injection, IsInjective
  <2>2. rank \in Surjection(S, 1..N)
    BY <1>1, <2>1, FS_Injection
  <2> QED
    BY <2>2 DEF Surjection
<1>7. s = [k \in 1..N |-> CHOOSE x \in S : Cardinality(upTo(x)) = k]
  BY DEF sortedBy
<1> HIDE DEF s, upTo
<1>8. ASSUME NEW k \in 1..N
      PROVE  s[k] \in S /\ rank[s[k]] = k
  <2>1. \E x \in S : Cardinality(upTo(x)) = k
    BY <1>6
  <2> QED
    BY <1>7, <2>1
<1>12. ASSUME NEW j \in 1..N, NEW k \in 1..N, j < k
       PROVE  key[s[j]] < key[s[k]]
  <2>1. /\ s[j] \in S /\ Cardinality(upTo(s[j])) = j
        /\ s[k] \in S /\ Cardinality(upTo(s[k])) = k
    BY <1>8
  <2>2. key[s[j]] \in Int /\ key[s[k]] \in Int
    BY <2>1
  <2>3. ASSUME key[s[k]] <= key[s[j]]
        PROVE  upTo(s[k]) \in SUBSET upTo(s[j])
    BY <2>1, <2>2, <2>3 DEF upTo
  <2>4. ASSUME upTo(s[k]) \in SUBSET upTo(s[j])
        PROVE  k <= j
    BY <1>2, <2>1, <2>4, FS_Subset
  <2> QED
    BY <1>12, <2>2, <2>3, <2>4
<1> HIDE DEF rank
<1>9. s \in Seq(S) /\ Len(s) = N
  BY <1>1, <1>7, <1>8
<1>10. \A x \in S : s[rank[x]] = x
  BY <1>4, <1>5, <1>8
<1> HIDE DEF N
<1>11. isListing(s, S)
  BY <1>4, <1>8, <1>9, <1>10 DEF isListing, N
<1> QED
  BY <1>11, <1>12 DEF s, N

LEMMA AscendingIsListing ==
    ASSUME NEW S, IsFiniteSet(S), S \subseteq Int
    PROVE  /\ isListing(ascending(S), S)
           /\ \A j, k \in 1..Cardinality(S) : j < k => ascending(S)[j] < ascending(S)[k]
<1> DEFINE key == [x \in S |-> x]
<1>1. key \in [S -> Int] /\ \A x, y \in S : key[x] = key[y] => x = y
  OBVIOUS
<1>2. ascending(S) = sortedBy(S, key)
  BY DEF ascending
<1> HIDE DEF key
<1>3. /\ isListing(ascending(S), S)
      /\ \A j, k \in 1..Cardinality(S) : j < k => key[ascending(S)[j]] < key[ascending(S)[k]]
  BY <1>1, <1>2, SortedIsListing
<1>4. Cardinality(S) \in Nat /\ \A k \in 1..Cardinality(S) : ascending(S)[k] \in S
  BY <1>3, FS_CardinalityType DEF isListing
<1> QED
  BY <1>3, <1>4 DEF key

-----------------------------------------------------------------------------
(***************************************************************************)
(* The three loops.  Each is a function of the number of rounds; that the  *)
(* function its definition asks for exists follows by counting up.         *)
(***************************************************************************)
LEMMA KeptRound ==
    ASSUME NEW list, Len(list) \in Nat
    PROVE  LET kept == keptMachines(list)
           IN  /\ kept[0] = << >>
               /\ \A n \in 1..Len(list) : kept[n] = keepMachine(kept[n - 1], list[n])
<1> DEFINE N == Len(list)
           round(g, k) == IF k = 0 THEN << >> ELSE keepMachine(g[k - 1], list[k])
           rounds(g, n) == \A k \in 0..n : g[k] = round(g, k)
           S == {n \in 0..N : \E g : rounds(g, n)}
<1>1. 0 \in S
  <2> DEFINE g == [k \in 0..0 |-> << >>]
  <2>1. rounds(g, 0)
    OBVIOUS
  <2> HIDE DEF rounds, g
  <2> QED
    BY <2>1
<1>2. ASSUME NEW n \in 1..N, n - 1 \in S
      PROVE  n \in S
  <2>1. PICK g : rounds(g, n - 1)
    BY <1>2
  <2> DEFINE h == [k \in 0..n |-> IF k = n THEN keepMachine(g[n - 1], list[n]) ELSE g[k]]
  <2>2. ASSUME NEW k \in 0..n
        PROVE  h[k] = round(h, k)
    <3>1. CASE k = 0
      BY <2>1, <3>1
    <3>2. CASE k \in 1..(n - 1)
      <4>1. k - 1 \in 0..n /\ k - 1 # n /\ k # n /\ k # 0 /\ k \in 0..(n - 1)
        BY <3>2
      <4>2. h[k] = g[k] /\ h[k - 1] = g[k - 1]
        BY <4>1
      <4>3. g[k] = keepMachine(g[k - 1], list[k])
        BY <2>1, <4>1
      <4> QED
        BY <4>1, <4>2, <4>3
    <3>3. CASE k = n
      <4>1. n - 1 \in 0..n /\ n - 1 # n /\ n # 0
        OBVIOUS
      <4> QED
        BY <3>3, <4>1
    <3> QED
      BY <3>1, <3>2, <3>3
  <2>3. rounds(h, n) /\ n \in 0..N
    BY <2>2
  <2> HIDE DEF rounds, h
  <2> QED
    BY <2>3
<1>3. N \in S
  <2>1. N \in Nat /\ N \in 0..N
    OBVIOUS
  <2> HIDE DEF S, N
  <2> QED
    BY <1>1, <1>2, <2>1, CountUp
<1>4. \E g : g = [k \in 0..N |-> round(g, k)]
  <2>1. PICK g : rounds(g, N)
    BY <1>3
  <2> DEFINE h == [k \in 0..N |-> g[k]]
  <2>2. ASSUME NEW k \in 0..N
        PROVE  g[k] = round(h, k)
    <3>1. CASE k = 0
      BY <2>1, <3>1
    <3>2. CASE k # 0
      <4>1. k - 1 \in 0..N
        BY <3>2
      <4> QED
        BY <2>1, <3>2, <4>1
    <3> QED
      BY <3>1, <3>2
  <2>3. h = [k \in 0..N |-> round(h, k)]
    BY <2>2
  <2> HIDE DEF h
  <2> QED
    BY <2>3, Zenon
<1>5. keptMachines(list) = [k \in 0..N |-> round(keptMachines(list), k)]
  BY <1>4 DEF keptMachines
<1> HIDE DEF round
<1>6. \A k \in 0..N : keptMachines(list)[k] = round(keptMachines(list), k)
  BY <1>5
<1> QED
  BY <1>6 DEF round

LEMMA UnmatchedRound ==
    ASSUME NEW out, NEW candidates, NEW order, Len(order) \in Nat
    PROVE  LET left == unmatched(out, candidates, order)
           IN  /\ left[0] = candidates
               /\ \A n \in 1..Len(order) : left[n] = takeCandidate(out, left[n - 1], order[n])
<1> DEFINE N == Len(order)
           round(g, k) == IF k = 0 THEN candidates ELSE takeCandidate(out, g[k - 1], order[k])
           rounds(g, n) == \A k \in 0..n : g[k] = round(g, k)
           S == {n \in 0..N : \E g : rounds(g, n)}
<1>1. 0 \in S
  <2> DEFINE g == [k \in 0..0 |-> candidates]
  <2>1. rounds(g, 0)
    OBVIOUS
  <2> HIDE DEF rounds, g
  <2> QED
    BY <2>1
<1>2. ASSUME NEW n \in 1..N, n - 1 \in S
      PROVE  n \in S
  <2>1. PICK g : rounds(g, n - 1)
    BY <1>2
  <2> DEFINE h == [k \in 0..n |-> IF k = n THEN takeCandidate(out, g[n - 1], order[n]) ELSE g[k]]
  <2>2. ASSUME NEW k \in 0..n
        PROVE  h[k] = round(h, k)
    <3>1. CASE k = 0
      BY <2>1, <3>1
    <3>2. CASE k \in 1..(n - 1)
      <4>1. k - 1 \in 0..n /\ k - 1 # n /\ k # n /\ k # 0 /\ k \in 0..(n - 1)
        BY <3>2
      <4>2. h[k] = g[k] /\ h[k - 1] = g[k - 1]
        BY <4>1
      <4>3. g[k] = takeCandidate(out, g[k - 1], order[k])
        BY <2>1, <4>1
      <4> QED
        BY <4>1, <4>2, <4>3
    <3>3. CASE k = n
      <4>1. n - 1 \in 0..n /\ n - 1 # n /\ n # 0
        OBVIOUS
      <4> QED
        BY <3>3, <4>1
    <3> QED
      BY <3>1, <3>2, <3>3
  <2>3. rounds(h, n) /\ n \in 0..N
    BY <2>2
  <2> HIDE DEF rounds, h
  <2> QED
    BY <2>3
<1>3. N \in S
  <2>1. N \in Nat /\ N \in 0..N
    OBVIOUS
  <2> HIDE DEF S, N
  <2> QED
    BY <1>1, <1>2, <2>1, CountUp
<1>4. \E g : g = [k \in 0..N |-> round(g, k)]
  <2>1. PICK g : rounds(g, N)
    BY <1>3
  <2> DEFINE h == [k \in 0..N |-> g[k]]
  <2>2. ASSUME NEW k \in 0..N
        PROVE  g[k] = round(h, k)
    <3>1. CASE k = 0
      BY <2>1, <3>1
    <3>2. CASE k # 0
      <4>1. k - 1 \in 0..N
        BY <3>2
      <4> QED
        BY <2>1, <3>2, <4>1
    <3> QED
      BY <3>1, <3>2
  <2>3. h = [k \in 0..N |-> round(h, k)]
    BY <2>2
  <2> HIDE DEF h
  <2> QED
    BY <2>3, Zenon
<1>5. unmatched(out, candidates, order) = [k \in 0..N |-> round(unmatched(out, candidates, order), k)]
  BY <1>4 DEF unmatched
<1> HIDE DEF round
<1>6. \A k \in 0..N : unmatched(out, candidates, order)[k] = round(unmatched(out, candidates, order), k)
  BY <1>5
<1> QED
  BY <1>6 DEF round

LEMMA HandledRound ==
    ASSUME NEW mm, NEW base, NEW candidates, NEW order, Len(order) \in Nat
    PROVE  LET out == handled(mm, base, candidates, order)
           IN  /\ out[0] = mm
               /\ \A n \in 1..Len(order) : out[n] = handleUnmatchedIndex(out[n - 1], order[n], base, candidates)
<1> DEFINE N == Len(order)
           round(g, k) == IF k = 0 THEN mm ELSE handleUnmatchedIndex(g[k - 1], order[k], base, candidates)
           rounds(g, n) == \A k \in 0..n : g[k] = round(g, k)
           S == {n \in 0..N : \E g : rounds(g, n)}
<1>1. 0 \in S
  <2> DEFINE g == [k \in 0..0 |-> mm]
  <2>1. rounds(g, 0)
    OBVIOUS
  <2> HIDE DEF rounds, g
  <2> QED
    BY <2>1
<1>2. ASSUME NEW n \in 1..N, n - 1 \in S
      PROVE  n \in S
  <2>1. PICK g : rounds(g, n - 1)
    BY <1>2
  <2> DEFINE h == [k \in 0..n |-> IF k = n THEN handleUnmatchedIndex(g[n - 1], order[n], base, candidates) ELSE g[k]]
  <2>2. ASSUME NEW k \in 0..n
        PROVE  h[k] = round(h, k)
    <3>1. CASE k = 0
      BY <2>1, <3>1
    <3>2. CASE k \in 1..(n - 1)
      <4>1. k - 1 \in 0..n /\ k - 1 # n /\ k # n /\ k # 0 /\ k \in 0..(n - 1)
        BY <3>2
      <4>2. h[k] = g[k] /\ h[k - 1] = g[k - 1]
        BY <4>1
      <4>3. g[k] = handleUnmatchedIndex(g[k - 1], order[k], base, candidates)
        BY <2>1, <4>1
      <4> QED
        BY <4>1, <4>2, <4>3
    <3>3. CASE k = n
      <4>1. n - 1 \in 0..n /\ n - 1 # n /\ n # 0
        OBVIOUS
      <4> QED
        BY <3>3, <4>1
    <3> QED
      BY <3>1, <3>2, <3>3
  <2>3. rounds(h, n) /\ n \in 0..N
    BY <2>2
  <2> HIDE DEF rounds, h
  <2> QED
    BY <2>3
<1>3. N \in S
  <2>1. N \in Nat /\ N \in 0..N
    OBVIOUS
  <2> HIDE DEF S, N
  <2> QED
    BY <1>1, <1>2, <2>1, CountUp
<1>4. \E g : g = [k \in 0..N |-> round(g, k)]
  <2>1. PICK g : rounds(g, N)
    BY <1>3
  <2> DEFINE h == [k \in 0..N |-> g[k]]
  <2>2. ASSUME NEW k \in 0..N
        PROVE  g[k] = round(h, k)
    <3>1. CASE k = 0
      BY <2>1, <3>1
    <3>2. CASE k # 0
      <4>1. k - 1 \in 0..N
        BY <3>2
      <4> QED
        BY <2>1, <3>2, <4>1
    <3> QED
      BY <3>1, <3>2
  <2>3. h = [k \in 0..N |-> round(h, k)]
    BY <2>2
  <2> HIDE DEF h
  <2> QED
    BY <2>3, Zenon
<1>5. handled(mm, base, candidates, order) = [k \in 0..N |-> round(handled(mm, base, candidates, order), k)]
  BY <1>4 DEF handled
<1> HIDE DEF round
<1>6. \A k \in 0..N : handled(mm, base, candidates, order)[k] = round(handled(mm, base, candidates, order), k)
  BY <1>5
<1> QED
  BY <1>6 DEF round

-----------------------------------------------------------------------------
(***************************************************************************)
(* What the parts of the mapping return.                                   *)
(***************************************************************************)
Machine == [index : Nat, fd : Int, created : Nat, deleted : BOOLEAN]

(***************************************************************************)
(* The Machines that are kept are Machines, one for each index listed.     *)
(***************************************************************************)
LEMMA KeepsEveryIndex ==
    ASSUME NEW list \in Seq(Machine)
    PROVE  DOMAIN mapIndexesToFailureDomainsForMachines(list) =
               {list[k].index : k \in 1..Len(list)}
<1> DEFINE kept == keptMachines(list)
           N    == Len(list)
           S    == {n \in 0..N : DOMAIN kept[n] = {list[k].index : k \in 1..n}}
<1>1. N \in Nat /\ N \in 0..N
  OBVIOUS
<1>2. /\ kept[0] = << >>
      /\ \A n \in 1..N : kept[n] = keepMachine(kept[n - 1], list[n])
  BY <1>1, KeptRound
<1> HIDE DEF kept
<1>3. 0 \in S
  <2>1. DOMAIN kept[0] = {}
    BY <1>2
  <2>2. {list[k].index : k \in 1..0} = {}
    OBVIOUS
  <2> QED
    BY <1>1, <2>1, <2>2
<1>4. ASSUME NEW n \in 1..N, n - 1 \in S
      PROVE  n \in S
  <2>1. DOMAIN kept[n - 1] = {list[k].index : k \in 1..(n - 1)}
    BY <1>4
  <2>2. DOMAIN kept[n] = DOMAIN kept[n - 1] \cup {list[n].index}
    <3>1. ASSUME NEW old, NEW m
          PROVE  DOMAIN keepMachine(old, m) = DOMAIN old \cup {m.index}
      BY DEF keepMachine
    <3> QED
      BY <1>2, <3>1
  <2>3. 1..n = (1..(n - 1)) \cup {n} /\ n \in 0..N
    BY <1>1
  <2> QED
    BY <2>1, <2>2, <2>3
<1>5. N \in S
  <2> HIDE DEF S, N
  <2> QED
    BY <1>1, <1>3, <1>4, CountUp
<1> QED
  BY <1>5 DEF mapIndexesToFailureDomainsForMachines, kept

(***************************************************************************)
(* The base has an index for every replica and every Machine's index, and  *)
(* only failure domains of the template.                                   *)
(***************************************************************************)
LEMMA BaseIsComplete ==
    ASSUME NEW fds, IsFiniteSet(fds), fds \subseteq Int, fds # {},
           NEW mm, IsFiniteSet(DOMAIN mm)
    PROVE  LET base == createBaseFailureDomainMapping(fds, mm)
           IN  /\ IsFiniteSet(DOMAIN base) /\ DOMAIN base \subseteq Nat
               /\ Cardinality(DOMAIN base) = Max({Replicas, Cardinality(DOMAIN mm)})
               /\ Cardinality(DOMAIN mm) <= Cardinality(DOMAIN base)
               /\ DOMAIN base = 0..(Max({Replicas, Cardinality(DOMAIN mm)}) - 1)
               /\ \A i \in DOMAIN base : base[i] \in fds
               /\ \A i \in DOMAIN mm : mm[i] \in fds => contains(base, mm[i])
<1> DEFINE used   == {mm[i] : i \in DOMAIN mm}
           first  == ascending(fds \cap used)
           second == ascending(fds \ used)
           sorted == first \o second
           count  == Max({Replicas, Cardinality(DOMAIN mm)})
           base   == createBaseFailureDomainMapping(fds, mm)
<1>1. base = [i \in 0..(count - 1) |-> sorted[(i % Len(sorted)) + 1]]
  BY DEF createBaseFailureDomainMapping
<1>2. Cardinality(DOMAIN mm) \in Nat /\ Replicas \in Nat /\ Replicas # 0
  BY FS_CardinalityType, ReplicasAssumption
<1>3. count \in Nat /\ count # 0 /\ Cardinality(DOMAIN mm) <= count
  <2>1. \A a, b \in Nat : Max({a, b}) \in {a, b} /\ a <= Max({a, b}) /\ b <= Max({a, b})
    BY DEF Max
  <2> QED
    BY <1>2, <2>1
<1>4. IsFiniteSet(used) /\ Cardinality(used) <= Cardinality(DOMAIN mm)
  <2> DEFINE f == [i \in DOMAIN mm |-> mm[i]]
  <2>1. f \in Surjection(DOMAIN mm, used)
    BY DEF Surjection
  <2> HIDE DEF f, used
  <2> QED
    BY <2>1, FS_Surjection
<1> HIDE DEF used
<1>5. /\ IsFiniteSet(fds \cap used) /\ IsFiniteSet(fds \ used)
      /\ Cardinality(fds \cap used) \in Nat /\ Cardinality(fds \cap used) <= Cardinality(used)
      /\ Cardinality(used) \in Nat
  <2>1. fds \cap used \in SUBSET used
    OBVIOUS
  <2> QED
    BY <1>4, <2>1, FS_Intersection, FS_Difference, FS_Subset, FS_CardinalityType
<1>6. isListing(first, fds \cap used) /\ isListing(second, fds \ used)
  BY <1>5, AscendingIsListing
<1> HIDE DEF first, second
<1>7. /\ first \in Seq(fds) /\ second \in Seq(fds)
      /\ Len(first) = Cardinality(fds \cap used) /\ Len(second) = Cardinality(fds \ used)
  BY <1>6 DEF isListing
<1>8. /\ sorted \in Seq(fds) /\ Len(sorted) \in Nat /\ Len(sorted) # 0
      /\ Len(first) <= Len(sorted) /\ \A k \in 1..Len(first) : sorted[k] = first[k]
  <2>1. Len(first) # 0 \/ Len(second) # 0
    BY <1>5, <1>7, FS_EmptySet
  <2>2. sorted \in Seq(fds) /\ Len(sorted) = Len(first) + Len(second)
    BY <1>7
  <2>3. Len(first) \in Nat /\ Len(second) \in Nat
    BY <1>7
  <2>4. \A k \in 1..Len(first) : sorted[k] = first[k]
    BY <1>7
  <2> HIDE DEF sorted
  <2> QED
    BY <2>1, <2>2, <2>3, <2>4
<1> HIDE DEF sorted, count, base
<1>9. \A i \in Nat : sorted[(i % Len(sorted)) + 1] \in fds
  <2>1. \A i \in Nat : (i % Len(sorted)) + 1 \in 1..Len(sorted)
    BY <1>8
  <2>2. \A k \in 1..Len(sorted) : sorted[k] \in fds
    BY <1>8
  <2> QED
    BY <2>1, <2>2
<1>10. DOMAIN base = 0..(count - 1) /\ 0..(count - 1) \subseteq Nat
  BY <1>1, <1>3
<1>11. IsFiniteSet(0..(count - 1)) /\ Cardinality(0..(count - 1)) = count
  BY <1>3, FS_Interval
<1>12. \A i \in DOMAIN base : base[i] \in fds
  BY <1>1, <1>9, <1>10
<1>13. ASSUME NEW i \in DOMAIN mm, mm[i] \in fds
       PROVE  contains(base, mm[i])
  <2>1. mm[i] \in fds \cap used
    BY <1>13 DEF used
  <2>2. PICK k \in 1..Len(first) : first[k] = mm[i]
    BY <1>6, <2>1 DEF isListing
  <2>3. /\ k \in Nat /\ 1 <= k /\ k <= Len(sorted) /\ k <= Cardinality(DOMAIN mm)
        /\ Len(first) \in Nat
    BY <1>2, <1>4, <1>5, <1>7, <1>8
  <2>4. k - 1 \in 0..(count - 1) /\ (k - 1) % Len(sorted) = k - 1
    BY <1>2, <1>3, <1>8, <2>3
  <2>5. base[k - 1] = sorted[k]
    BY <1>1, <2>3, <2>4
  <2>6. base[k - 1] = mm[i]
    BY <1>8, <2>2, <2>5
  <2> QED
    BY <1>10, <2>4, <2>6 DEF contains
<1> QED
  BY <1>3, <1>10, <1>11, <1>12, <1>13 DEF base, count

(***************************************************************************)
(* A mapping has no more indexes of a failure domain than another to whose *)
(* indexes of that domain its own can be sent, no two to the same.         *)
(***************************************************************************)
LEMMA CountsWithin ==
    ASSUME NEW f, NEW g, IsFiniteSet(DOMAIN g), NEW fd, NEW h,
           \A i \in DOMAIN f : f[i] = fd => h[i] \in DOMAIN g /\ g[h[i]] = fd,
           \A i, j \in DOMAIN f : f[i] = fd /\ f[j] = fd /\ h[i] = h[j] => i = j
    PROVE  /\ countForFailureDomain(f, fd) \in Nat /\ countForFailureDomain(g, fd) \in Nat
           /\ countForFailureDomain(f, fd) <= countForFailureDomain(g, fd)
<1> DEFINE S == {i \in DOMAIN f : f[i] = fd}
           T == {i \in DOMAIN g : g[i] = fd}
           e == [i \in S |-> h[i]]
<1>1. e \in Injection(S, T)
  BY DEF Injection, IsInjective
<1>2. T \in SUBSET DOMAIN g
  OBVIOUS
<1> HIDE DEF S, T, e
<1>3. IsFiniteSet(S) /\ IsFiniteSet(T) /\ Cardinality(S) <= Cardinality(T)
  BY <1>1, <1>2, FS_Subset, FS_Injection
<1> QED
  BY <1>3, FS_CardinalityType DEF countForFailureDomain, S, T

LEMMA CountsFewer ==
    ASSUME NEW f, NEW g, IsFiniteSet(DOMAIN g), NEW fd,
           \A i \in DOMAIN f : f[i] = fd => i \in DOMAIN g /\ g[i] = fd
    PROVE  /\ countForFailureDomain(f, fd) \in Nat /\ countForFailureDomain(g, fd) \in Nat
           /\ countForFailureDomain(f, fd) <= countForFailureDomain(g, fd)
<1> DEFINE h == [i \in DOMAIN f |-> i]
<1>1. /\ \A i \in DOMAIN f : f[i] = fd => h[i] \in DOMAIN g /\ g[h[i]] = fd
      /\ \A i, j \in DOMAIN f : f[i] = fd /\ f[j] = fd /\ h[i] = h[j] => i = j
  OBVIOUS
<1> HIDE DEF h
<1> QED
  BY <1>1, CountsWithin

(***************************************************************************)
(* Renaming indexes makes room for the preferred ones, loses none and      *)
(* gives no failure domain more of them than it had.                       *)
(***************************************************************************)
LEMMA RenamesIndexes ==
    ASSUME NEW base, IsFiniteSet(DOMAIN base), DOMAIN base \subseteq Nat,
           NEW P, IsFiniteSet(P), P \subseteq Nat,
           Cardinality(P) <= Cardinality(DOMAIN base),
           NEW r, r = reconcileIndexes(base, P)
    PROVE  /\ P \subseteq DOMAIN r /\ DOMAIN r \subseteq Nat /\ IsFiniteSet(DOMAIN r)
           /\ Cardinality(DOMAIN r) = Cardinality(DOMAIN base)
           /\ P \subseteq DOMAIN base => DOMAIN r = DOMAIN base
           /\ \A i \in DOMAIN r : \E j \in DOMAIN base : r[i] = base[j]
           /\ \A fd : countForFailureDomain(r, fd) <= countForFailureDomain(base, fd)
<1> DEFINE B       == DOMAIN base
           extra   == ascending(B \ P)
           missing == ascending(P \ B)
           renamed == {k \in DOMAIN extra : k <= Len(missing)}
           oldName(i) == IF \E k \in renamed : missing[k] = i
                         THEN extra[CHOOSE k \in renamed : missing[k] = i] ELSE i
           R == {extra[k] : k \in renamed}
<1>1. r = [i \in (B \ R) \cup P |-> base[oldName(i)]]
  BY DEF reconcileIndexes
<1>2. /\ IsFiniteSet(B \ P) /\ Cardinality(B \ P) = Cardinality(B) - Cardinality(B \cap P)
      /\ IsFiniteSet(P \ B) /\ Cardinality(P \ B) = Cardinality(P) - Cardinality(P \cap B)
  BY FS_Difference
<1>3. isListing(extra, B \ P) /\ isListing(missing, P \ B)
  <2>1. B \subseteq Int /\ P \subseteq Int
    BY Nat \subseteq Int
  <2> HIDE DEF B
  <2> QED
    BY <1>2, <2>1, B \ P \subseteq Int, P \ B \subseteq Int, AscendingIsListing
<1>4. Cardinality(P \ B) \in Nat /\ Cardinality(B) \in Nat /\ Cardinality(P) \in Nat
      /\ Cardinality(B \ P) \in Nat /\ Cardinality(B \cap P) \in Nat /\ B \cap P = P \cap B
  BY <1>2, FS_CardinalityType, FS_Intersection
<1> HIDE DEF extra, missing
<1>5. /\ extra \in Seq(B \ P) /\ Len(extra) = Cardinality(B \ P)
      /\ missing \in Seq(P \ B) /\ Len(missing) = Cardinality(P \ B)
      /\ Len(missing) <= Len(extra) /\ Len(missing) \in Nat /\ Len(extra) \in Nat
  <2>1. /\ extra \in Seq(B \ P) /\ Len(extra) = Cardinality(B \ P)
        /\ missing \in Seq(P \ B) /\ Len(missing) = Cardinality(P \ B)
    BY <1>3 DEF isListing
  <2>2. Cardinality(P \ B) <= Cardinality(B \ P)
    BY <1>2, <1>4
  <2> QED
    BY <1>4, <2>1, <2>2
<1>6. renamed = 1..Len(missing)
  <2>1. DOMAIN extra = 1..Len(extra)
    BY <1>5
  <2> QED
    BY <1>5, <2>1
<1>7. R \subseteq B \ P /\ IsFiniteSet(R) /\ Cardinality(R) = Len(missing)
  <2> DEFINE g == [k \in 1..Len(missing) |-> extra[k]]
  <2>1. g \in [1..Len(missing) -> R] /\ R \subseteq B \ P
    <3>1. \A k \in 1..Len(missing) : k \in 1..Len(extra)
      BY <1>5
    <3>2. \A k \in 1..Len(extra) : extra[k] \in B \ P
      BY <1>5
    <3> QED
      BY <1>6, <3>1, <3>2
  <2>2. \A t \in R : \E k \in 1..Len(missing) : g[k] = t
    BY <1>6
  <2>3. \A j, k \in 1..Len(missing) : g[j] = g[k] => j = k
    <3>1. \A j, k \in 1..Len(extra) : extra[j] = extra[k] => j = k
      BY <1>3 DEF isListing
    <3>2. \A k \in 1..Len(missing) : k \in 1..Len(extra)
      BY <1>5
    <3> QED
      BY <3>1, <3>2
  <2>4. g \in Bijection(1..Len(missing), R)
    <3> HIDE DEF g, R
    <3> QED
      BY <2>1, <2>2, <2>3 DEF Bijection, Injection, Surjection, IsInjective
  <2>5. IsFiniteSet(1..Len(missing)) /\ Cardinality(1..Len(missing)) = Len(missing)
    BY <1>5, FS_Interval
  <2> HIDE DEF g, R
  <2>6. ExistsBijection(1..Len(missing), R)
    BY <2>4 DEF ExistsBijection
  <2> QED
    BY <2>1, <2>5, <2>6, FS_Bijection
<1>8. IsFiniteSet(DOMAIN r) /\ Cardinality(DOMAIN r) = Cardinality(B)
  <2> HIDE DEF R, renamed
  <2>1. DOMAIN r = (B \ R) \cup (P \ B)
    BY <1>1, <1>7
  <2>2. (B \ R) \cap (P \ B) = {} /\ B \cap R = R
    BY <1>7
  <2>3. IsFiniteSet(B \ R) /\ Cardinality(B \ R) = Cardinality(B) - Cardinality(R)
    BY <2>2, FS_Difference
  <2>4. /\ IsFiniteSet((B \ R) \cup (P \ B))
        /\ Cardinality((B \ R) \cup (P \ B)) = Cardinality(B \ R) + Cardinality(P \ B) - 0
    BY <1>2, <2>2, <2>3, FS_Union, FS_EmptySet
  <2> QED
    BY <1>4, <1>5, <1>7, <2>1, <2>3, <2>4
<1>9. ASSUME NEW i \in (B \ R) \cup P
      PROVE  oldName(i) \in B
  <2>1. CASE \E k \in renamed : missing[k] = i
    <3>1. (CHOOSE k \in renamed : missing[k] = i) \in renamed
      BY <2>1
    <3>2. oldName(i) \in R
      BY <2>1, <3>1
    <3> QED
      BY <1>7, <3>2
  <2>2. CASE ~\E k \in renamed : missing[k] = i
    <3>1. i \notin P \ B
      BY <1>3, <1>6, <2>2 DEF isListing
    <3> QED
      BY <1>9, <2>2, <3>1
  <2> QED
    BY <2>1, <2>2
<1>12. ASSUME P \subseteq B
       PROVE  DOMAIN r = B
  <2>1. P \ B = {}
    BY <1>12
  <2>2. Len(missing) = 0
    BY <1>5, <2>1, FS_EmptySet
  <2>3. renamed = {}
    BY <1>6, <2>2
  <2> QED
    BY <1>1, <1>12, <2>3
<1>13. ASSUME NEW i \in (B \ R) \cup P
       PROVE  \/ \E k \in renamed : missing[k] = i /\ oldName(i) = extra[k]
              \/ oldName(i) = i /\ i \notin R
  <2>1. CASE \E k \in renamed : missing[k] = i
    <3>1. /\ (CHOOSE k \in renamed : missing[k] = i) \in renamed
          /\ missing[CHOOSE k \in renamed : missing[k] = i] = i
      BY <2>1
    <3> QED
      BY <2>1, <3>1
  <2>2. CASE ~\E k \in renamed : missing[k] = i
    BY <1>7, <1>13, <2>2
  <2> QED
    BY <2>1, <2>2
<1>14. ASSUME NEW i \in (B \ R) \cup P, NEW j \in (B \ R) \cup P, oldName(i) = oldName(j)
       PROVE  i = j
  <2>1. \A k, l \in renamed : extra[k] = extra[l] => k = l
    <3>1. \A k, l \in 1..Len(extra) : extra[k] = extra[l] => k = l
      BY <1>3 DEF isListing
    <3>2. \A k \in 1..Len(missing) : k \in 1..Len(extra)
      BY <1>5
    <3> QED
      BY <1>6, <3>1, <3>2
  <2>2. \A k \in renamed : extra[k] \in R
    OBVIOUS
  <2> HIDE DEF oldName, R, renamed
  <2> QED
    BY <1>13, <1>14, <2>1, <2>2
<1> HIDE DEF oldName, R
<1>15. ASSUME NEW fd
       PROVE  countForFailureDomain(r, fd) <= countForFailureDomain(base, fd)
  <2> DEFINE h == [i \in DOMAIN r |-> oldName(i)]
  <2>1. \A i \in DOMAIN r : r[i] = base[h[i]] /\ h[i] \in DOMAIN base
    BY <1>1, <1>9
  <2>2. \A i, j \in DOMAIN r : h[i] = h[j] => i = j
    BY <1>1, <1>14
  <2> HIDE DEF h
  <2> QED
    BY <2>1, <2>2, CountsWithin
<1>10. P \subseteq DOMAIN r /\ DOMAIN r \subseteq Nat
  BY <1>1
<1>11. \A i \in DOMAIN r : \E j \in B : r[i] = base[j]
  BY <1>1, <1>9
<1> QED
  BY <1>8, <1>10, <1>11, <1>12, <1>15

(***************************************************************************)
(* Matching.  An index that takes a candidate gives up its own, so only    *)
(* indexes that keep a failure domain of the candidates have none left.    *)
(***************************************************************************)
isFree(cs, out, candidates, fds) ==
    /\ DOMAIN cs \subseteq DOMAIN candidates
    /\ \A x \in DOMAIN cs : cs[x] \in fds
    /\ \A x \in DOMAIN candidates \ DOMAIN cs : x \in DOMAIN out /\ out[x] \in fds

LEMMA TakesOne ==
    ASSUME NEW out, NEW candidates, NEW fds, DOMAIN candidates \subseteq Nat,
           NEW cs, isFree(cs, out, candidates, fds),
           NEW y \in DOMAIN cs, y \in DOMAIN out
    PROVE  /\ isFree(takeCandidate(out, cs, y), out, candidates, fds)
           /\ DOMAIN cs \ {y} \subseteq DOMAIN takeCandidate(out, cs, y)
<1> DEFINE equal == {x \in DOMAIN cs : cs[x] = out[y]}
           new   == [cs EXCEPT ![Min(equal)] = cs[y]]
<1>1. CASE equal = {}
  <2>1. takeCandidate(out, cs, y) = cs
    BY <1>1 DEF takeCandidate
  <2> QED
    BY <2>1
<1>2. CASE equal # {}
  <2>1. takeCandidate(out, cs, y) = [x \in DOMAIN cs \ {y} |-> new[x]]
    BY <1>2 DEF takeCandidate, useCandidate, Restrict
  <2>2. Min(equal) \in equal
    <3>1. equal \subseteq Nat
      BY DEF isFree
    <3> HIDE DEF equal
    <3> QED
      BY <1>2, <3>1, MinIsElement
  <2>3. out[y] \in fds
    BY <2>2 DEF isFree
  <2>4. \A x \in DOMAIN cs : new[x] \in {cs[x], cs[y]}
    OBVIOUS
  <2> HIDE DEF new, equal
  <2> QED
    BY <2>1, <2>3, <2>4 DEF isFree
<1> QED
  BY <1>1, <1>2

LEMMA MatchingLeavesFree ==
    ASSUME NEW out, NEW candidates, NEW fds, NEW deleting,
           DOMAIN candidates \subseteq Nat, IsFiniteSet(DOMAIN out),
           DOMAIN out \subseteq DOMAIN candidates,
           \A i \in DOMAIN candidates : candidates[i] \in fds
    PROVE  isFree(matchMachinesToCandidates(out, candidates, deleting), out, candidates, fds)
<1> DEFINE T     == DOMAIN out \ deleting
           order == ascending(T)
           N     == Len(order)
           left  == unmatched(out, candidates, order)
           S     == {n \in 0..N : /\ isFree(left[n], out, candidates, fds)
                                  /\ \A k \in (n + 1)..N : order[k] \in DOMAIN left[n]}
<1>1. isListing(order, T)
  <2>1. IsFiniteSet(T)
    BY FS_Difference
  <2>2. T \subseteq Int
    BY Nat \subseteq Int
  <2> HIDE DEF T
  <2> QED
    BY <2>1, <2>2, AscendingIsListing
<1> HIDE DEF order
<1>2. /\ N \in Nat /\ N \in 0..N
      /\ \A k \in 1..N : order[k] \in T
      /\ \A j, k \in 1..N : order[j] = order[k] => j = k
  <2>1. order \in Seq(T) /\ \A j, k \in 1..Len(order) : order[j] = order[k] => j = k
    BY <1>1 DEF isListing
  <2> HIDE DEF T
  <2> QED
    BY <2>1
<1>3. left[0] = candidates /\ \A n \in 1..N : left[n] = takeCandidate(out, left[n - 1], order[n])
  BY <1>2, UnmatchedRound
<1> HIDE DEF left, N
<1>4. 0 \in S
  <2>1. isFree(candidates, out, candidates, fds)
    BY DEF isFree
  <2>2. \A k \in (0 + 1)..N : order[k] \in DOMAIN candidates
    BY <1>2
  <2> QED
    BY <1>2, <1>3, <2>1, <2>2
<1>5. ASSUME NEW n \in 1..N, n - 1 \in S
      PROVE  n \in S
  <2> DEFINE cs == left[n - 1]
             y  == order[n]
  <2>1. /\ isFree(cs, out, candidates, fds)
        /\ \A k \in n..N : order[k] \in DOMAIN cs
    BY <1>2, <1>5
  <2>2. y \in DOMAIN cs /\ y \in DOMAIN out /\ n \in 0..N
    BY <1>2, <2>1
  <2>3. left[n] = takeCandidate(out, cs, y)
    BY <1>3
  <2>4. isFree(left[n], out, candidates, fds) /\ DOMAIN cs \ {y} \subseteq DOMAIN left[n]
    <3> HIDE DEF cs, y
    <3> QED
      BY <2>1, <2>2, <2>3, TakesOne
  <2>5. ASSUME NEW k \in (n + 1)..N
        PROVE  order[k] \in DOMAIN left[n]
    <3>1. k \in n..N /\ k \in 1..N /\ n \in 1..N /\ k # n
      BY <1>2
    <3>2. order[k] \in DOMAIN cs /\ order[k] # y
      BY <1>2, <2>1, <3>1
    <3> QED
      BY <2>4, <3>2
  <2> QED
    BY <2>2, <2>4, <2>5
<1>6. N \in S
  <2> HIDE DEF S
  <2> QED
    BY <1>2, <1>4, <1>5, CountUp
<1> QED
  BY <1>6 DEF matchMachinesToCandidates, left, N, order

(***************************************************************************)
(* Handling the rest.  An index with a candidate has a failure domain of   *)
(* the base afterwards, and the others keep theirs.                        *)
(***************************************************************************)
isFunction(f) == f = [x \in DOMAIN f |-> f[x]]

fills(new, old, T, fds) ==
    /\ isFunction(old) => isFunction(new)
    /\ DOMAIN new = DOMAIN old \cup T
    /\ \A i \in T : new[i] \in fds
    /\ \A i \in DOMAIN old \ T : new[i] = old[i]

LEMMA HandlesOne ==
    ASSUME NEW out, NEW i, NEW base, NEW candidates, NEW fds,
           candidates[i] \in fds, \A j \in DOMAIN base : base[j] \in fds
    PROVE  fills(handleUnmatchedIndex(out, i, base, candidates), out, {i}, fds)
<1>1. CASE \/ i \notin DOMAIN out
           \/ ~contains(base, out[i])
           \/ countForFailureDomain(out, out[i]) > maxIndexesPerFailureDomain(base)
  <2> DEFINE new == [k \in DOMAIN out \cup {i} |-> IF k = i THEN candidates[i] ELSE out[k]]
  <2>1. handleUnmatchedIndex(out, i, base, candidates) = new
    BY <1>1 DEF handleUnmatchedIndex
  <2>2. isFunction(new)
    BY DEF isFunction
  <2> QED
    BY <2>1, <2>2 DEF fills
<1>2. CASE /\ i \in DOMAIN out
           /\ contains(base, out[i])
           /\ ~(countForFailureDomain(out, out[i]) > maxIndexesPerFailureDomain(base))
  <2>1. handleUnmatchedIndex(out, i, base, candidates) = out
    BY <1>2 DEF handleUnmatchedIndex
  <2> QED
    BY <1>2, <2>1 DEF contains, fills
<1> QED
  BY <1>1, <1>2

LEMMA HandlingFillsIn ==
    ASSUME NEW mm, NEW base, NEW candidates, NEW fds, NEW order \in Seq(DOMAIN candidates),
           \A j \in DOMAIN base : base[j] \in fds,
           \A i \in DOMAIN candidates : candidates[i] \in fds
    PROVE  fills(handled(mm, base, candidates, order)[Len(order)], mm,
                 {order[k] : k \in 1..Len(order)}, fds)
<1> DEFINE N   == Len(order)
           out == handled(mm, base, candidates, order)
           upTo(n) == {order[k] : k \in 1..n}
           S   == {n \in 0..N : fills(out[n], mm, upTo(n), fds)}
<1>1. N \in Nat /\ N \in 0..N /\ \A k \in 1..N : order[k] \in DOMAIN candidates
  OBVIOUS
<1>2. /\ out[0] = mm
      /\ \A n \in 1..N : out[n] = handleUnmatchedIndex(out[n - 1], order[n], base, candidates)
  BY <1>1, HandledRound
<1> HIDE DEF out, N
<1>3. 0 \in S
  <2>1. upTo(0) = {} /\ 0 \in 0..N
    BY <1>1
  <2> HIDE DEF upTo
  <2> QED
    BY <1>2, <2>1 DEF fills
<1>4. ASSUME NEW n \in 1..N, n - 1 \in S
      PROVE  n \in S
  <2>1. fills(out[n - 1], mm, upTo(n - 1), fds)
    BY <1>4
  <2>2. upTo(n) = upTo(n - 1) \cup {order[n]} /\ n \in 0..N
    <3>1. 1..n = (1..(n - 1)) \cup {n} /\ n \in 0..N
      BY <1>1
    <3> QED
      BY <3>1
  <2>3. fills(out[n], out[n - 1], {order[n]}, fds)
    <3>1. candidates[order[n]] \in fds
      BY <1>1
    <3>2. out[n] = handleUnmatchedIndex(out[n - 1], order[n], base, candidates)
      BY <1>2
    <3> QED
      BY <3>1, <3>2, HandlesOne
  <2> HIDE DEF upTo
  <2>4. fills(out[n], mm, upTo(n), fds)
    BY <2>1, <2>2, <2>3 DEF fills
  <2> QED
    BY <2>2, <2>4
<1>5. N \in S
  <2> HIDE DEF S
  <2> QED
    BY <1>1, <1>3, <1>4, CountUp
<1> QED
  BY <1>5 DEF N, out

(***************************************************************************)
(* The whole mapping.                                                      *)
(***************************************************************************)
isComplete(f, indexes, fds) ==
    /\ isFunction(f) /\ IsFiniteSet(DOMAIN f)
    /\ indexes \subseteq DOMAIN f /\ DOMAIN f \subseteq Nat
    /\ Cardinality(DOMAIN f) = Max({Replicas, Cardinality(indexes)})
    /\ indexes \subseteq 0..(Replicas - 1) => DOMAIN f = 0..(Replicas - 1)
    /\ \A i \in DOMAIN f : f[i] \in fds

LEMMA MappingIsComplete ==
    ASSUME NEW list \in Seq(Machine), NEW indexes, IsFiniteSet(indexes),
           indexes = {list[k].index : k \in 1..Len(list)},
           NEW fds, IsFiniteSet(fds), fds \subseteq Int, fds # {}
    PROVE  isComplete(mapMachineIndexesToFailureDomains(list, fds), indexes, fds)
<1> DEFINE mm       == mapIndexesToFailureDomainsForMachines(list)
           base     == createBaseFailureDomainMapping(fds, mm)
           deleting == listDeletingIndexes(ToSet(list))
           r        == reconcileIndexes(base, DOMAIN mm)
           cs       == matchMachinesToCandidates(mm, r, deleting)
           order    == ascending(DOMAIN cs)
           out      == handled(mm, base, cs, order)[Len(order)]
<1>1. mapMachineIndexesToFailureDomains(list, fds) = out
  BY DEF mapMachineIndexesToFailureDomains, reconcileMappings
<1>2. DOMAIN mm = indexes /\ indexes \subseteq Nat
  <2>1. \A k \in 1..Len(list) : list[k] \in Machine
    OBVIOUS
  <2>2. indexes \subseteq Nat
    BY <2>1 DEF Machine
  <2> QED
    BY <2>2, KeepsEveryIndex
<1>14. isFunction(mm)
  BY DEF mapIndexesToFailureDomainsForMachines, isFunction
<1> HIDE DEF mm, deleting
<1>3. /\ IsFiniteSet(DOMAIN base) /\ DOMAIN base \subseteq Nat
      /\ Cardinality(DOMAIN base) = Max({Replicas, Cardinality(DOMAIN mm)})
      /\ Cardinality(DOMAIN mm) <= Cardinality(DOMAIN base)
      /\ DOMAIN base = 0..(Max({Replicas, Cardinality(DOMAIN mm)}) - 1)
      /\ \A i \in DOMAIN base : base[i] \in fds
  BY <1>2, BaseIsComplete
<1> HIDE DEF base
<1>4. /\ DOMAIN mm \subseteq DOMAIN r /\ DOMAIN r \subseteq Nat /\ IsFiniteSet(DOMAIN r)
      /\ Cardinality(DOMAIN r) = Cardinality(DOMAIN base)
      /\ DOMAIN mm \subseteq DOMAIN base => DOMAIN r = DOMAIN base
      /\ \A i \in DOMAIN r : \E j \in DOMAIN base : r[i] = base[j]
  <2>1. r = reconcileIndexes(base, DOMAIN mm) /\ IsFiniteSet(DOMAIN mm) /\ DOMAIN mm \subseteq Nat
    BY <1>2
  <2>2. /\ IsFiniteSet(DOMAIN base) /\ DOMAIN base \subseteq Nat
        /\ Cardinality(DOMAIN mm) <= Cardinality(DOMAIN base)
    BY <1>3
  <2> HIDE DEF r
  <2> QED
    BY <2>1, <2>2, RenamesIndexes
<1>5. \A i \in DOMAIN r : r[i] \in fds
  BY <1>3, <1>4
<1> HIDE DEF r
<1>6. isFree(cs, mm, r, fds)
  BY <1>2, <1>4, <1>5, MatchingLeavesFree
<1> HIDE DEF cs
<1>7. isListing(order, DOMAIN cs)
  <2>1. DOMAIN cs \in SUBSET DOMAIN r
    BY <1>6 DEF isFree
  <2>2. IsFiniteSet(DOMAIN cs)
    BY <1>4, <2>1, FS_Subset
  <2>3. DOMAIN cs \subseteq Int
    BY <1>4, <2>1, Nat \subseteq Int
  <2> QED
    BY <2>2, <2>3, AscendingIsListing
<1> HIDE DEF order
<1>8. order \in Seq(DOMAIN cs) /\ {order[k] : k \in 1..Len(order)} = DOMAIN cs
  <2>1. /\ order \in Seq(DOMAIN cs)
        /\ \A x \in DOMAIN cs : \E k \in 1..Len(order) : order[k] = x
    BY <1>7 DEF isListing
  <2>2. \A k \in 1..Len(order) : order[k] \in DOMAIN cs
    BY <2>1
  <2> QED
    BY <2>1, <2>2
<1>9. fills(out, mm, DOMAIN cs, fds)
  <2>1. out = handled(mm, base, cs, order)[Len(order)]
    OBVIOUS
  <2>2. \A i \in DOMAIN cs : cs[i] \in fds
    BY <1>6 DEF isFree
  <2> HIDE DEF out
  <2> QED
    BY <1>3, <1>8, <2>1, <2>2, HandlingFillsIn
<1> HIDE DEF out
<1>10. DOMAIN out = DOMAIN r /\ isFunction(out)
  BY <1>4, <1>6, <1>9, <1>14 DEF isFree, fills
<1>11. \A i \in DOMAIN out : out[i] \in fds
  BY <1>6, <1>9, <1>10 DEF isFree, fills
<1>12. ASSUME indexes \subseteq 0..(Replicas - 1)
       PROVE  DOMAIN out = 0..(Replicas - 1)
  <2>1. Replicas \in Nat /\ Cardinality(indexes) \in Nat /\ Cardinality(indexes) <= Replicas
    <3>1. Replicas \in Nat /\ Replicas # 0
      BY ReplicasAssumption
    <3> DEFINE last == Replicas - 1
    <3>2. last \in Int /\ 0 <= last /\ last + 1 = Replicas
      BY <3>1
    <3>3. indexes \in SUBSET (0..last)
      BY <1>12
    <3> HIDE DEF last
    <3>4. IsFiniteSet(0..last) /\ Cardinality(0..last) = last - 0 + 1
      BY <3>2, FS_Interval
    <3>5. Cardinality(indexes) <= Cardinality(0..last) /\ Cardinality(indexes) \in Nat
      BY <3>3, <3>4, FS_Subset, FS_CardinalityType
    <3> QED
      BY <3>1, <3>2, <3>4, <3>5
  <2>2. Max({Replicas, Cardinality(indexes)}) = Replicas
    <3>1. \A a, b \in Nat : b <= a => Max({a, b}) = a
      BY DEF Max
    <3> QED
      BY <2>1, <3>1
  <2> QED
    BY <1>2, <1>3, <1>4, <1>10, <1>12, <2>2
<1>13. isComplete(out, indexes, fds)
  BY <1>2, <1>3, <1>4, <1>10, <1>11, <1>12 DEF isComplete
<1> QED
  BY <1>1, <1>13

-----------------------------------------------------------------------------
(***************************************************************************)
(* When nothing moves.  A Machine that is the only one of its index stays  *)
(* in its failure domain when that is one of the template and has no more  *)
(* Machines than its share, which is rounded up.                           *)
(***************************************************************************)
LEMMA TimesGrows ==
    ASSUME NEW a \in Nat, NEW b \in Nat, NEW c \in Nat, b <= c
    PROVE  a * b <= a * c
<1>1. PICK d \in Nat : c = b + d
  <2>1. c - b \in Nat /\ c = b + (c - b)
    OBVIOUS
  <2> QED
    BY <2>1
<1>2. a * c = a * b + a * d /\ a * d \in Nat /\ a * b \in Nat
  BY <1>1
<1> QED
  BY <1>2

LEMMA RoundedUp ==
    ASSUME NEW n \in Nat, NEW u \in Nat, n # 0, u # 0
    PROVE  LET q == (n + u - 1) \div u
           IN  q \in Nat /\ 1 <= q /\ n <= q * u
  OBVIOUS

LEMMA BaseShare ==
    ASSUME NEW fds, IsFiniteSet(fds), fds \subseteq Int, fds # {},
           NEW mm, IsFiniteSet(DOMAIN mm)
    PROVE  LET base  == createBaseFailureDomainMapping(fds, mm)
               share == maxIndexesPerFailureDomain(base)
           IN  /\ share \in Nat /\ 1 <= share
               /\ Cardinality(DOMAIN base) <= share * Cardinality(fds)
<1> DEFINE base   == createBaseFailureDomainMapping(fds, mm)
           listed == {base[i] : i \in DOMAIN base}
           unique == Cardinality(listed)
           count  == Cardinality(DOMAIN base)
           share  == maxIndexesPerFailureDomain(base)
<1>1. /\ IsFiniteSet(DOMAIN base)
      /\ count = Max({Replicas, Cardinality(DOMAIN mm)})
      /\ \A i \in DOMAIN base : base[i] \in fds
  BY BaseIsComplete
<1>2. count \in Nat /\ count # 0
  <2>1. \A a, b \in Nat : a # 0 => Max({a, b}) \in Nat /\ Max({a, b}) # 0
    BY DEF Max
  <2>2. Replicas \in Nat /\ Replicas # 0 /\ Cardinality(DOMAIN mm) \in Nat
    BY ReplicasAssumption, FS_CardinalityType
  <2> QED
    BY <1>1, <2>1, <2>2
<1> HIDE DEF base
<1>3. DOMAIN base # {}
  BY <1>2, FS_EmptySet
<1>4. listed \in SUBSET fds /\ listed # {}
  BY <1>1, <1>3
<1>5. share = (count + unique - 1) \div unique
  BY DEF maxIndexesPerFailureDomain
<1> HIDE DEF listed, share, count
<1>6. /\ unique \in Nat /\ unique # 0
      /\ Cardinality(fds) \in Nat /\ unique <= Cardinality(fds)
  BY <1>4, FS_Subset, FS_CardinalityType, FS_EmptySet
<1> HIDE DEF unique
<1>7. share \in Nat /\ 1 <= share /\ count <= share * unique
  BY <1>2, <1>5, <1>6, RoundedUp
<1>8. share * unique <= share * Cardinality(fds)
  BY <1>6, <1>7, TimesGrows
<1>9. share * unique \in Nat /\ share * Cardinality(fds) \in Nat
  BY <1>6, <1>7
<1>10. count <= share * Cardinality(fds)
  <2> DEFINE x == share * unique
             y == share * Cardinality(fds)
  <2>1. count <= x /\ x <= y /\ x \in Nat /\ y \in Nat
    BY <1>7, <1>8, <1>9
  <2> HIDE DEF x, y
  <2>2. count <= y
    BY <1>2, <2>1
  <2> QED
    BY <2>2 DEF y
<1> QED
  BY <1>7, <1>10 DEF share, count, base

LEMMA KeepsSingleMachines ==
    ASSUME NEW list \in Seq(Machine),
           \A j, k \in 1..Len(list) : list[j].index = list[k].index => j = k
    PROVE  \A k \in 1..Len(list) :
               mapIndexesToFailureDomainsForMachines(list)[list[k].index] = list[k].fd
<1> DEFINE kept == keptMachines(list)
           N    == Len(list)
           indexes(n) == {list[k].index : k \in 1..n}
           S    == {n \in 0..N : /\ DOMAIN kept[n] = indexes(n)
                                 /\ \A k \in 1..n : kept[n][list[k].index] = list[k]}
<1>1. N \in Nat /\ N \in 0..N
  OBVIOUS
<1>2. /\ kept[0] = << >>
      /\ \A n \in 1..N : kept[n] = keepMachine(kept[n - 1], list[n])
  BY <1>1, KeptRound
<1> HIDE DEF kept
<1>3. 0 \in S
  <2>1. DOMAIN kept[0] = {} /\ indexes(0) = {}
    BY <1>2
  <2> QED
    BY <1>1, <2>1
<1>4. ASSUME NEW n \in 1..N, n - 1 \in S
      PROVE  n \in S
  <2>1. /\ DOMAIN kept[n - 1] = indexes(n - 1)
        /\ \A k \in 1..(n - 1) : kept[n - 1][list[k].index] = list[k]
    BY <1>4
  <2>2. /\ \A k \in 1..(n - 1) : k \in 1..N /\ k # n /\ list[k].index # list[n].index
        /\ 1..n = (1..(n - 1)) \cup {n} /\ n \in 0..N
    BY <1>1
  <2>3. list[n].index \notin DOMAIN kept[n - 1]
    BY <2>1, <2>2
  <2>4. kept[n] = [i \in DOMAIN kept[n - 1] \cup {list[n].index} |->
                      IF i = list[n].index THEN list[n] ELSE kept[n - 1][i]]
    BY <1>2, <2>3 DEF keepMachine
  <2>5. DOMAIN kept[n] = indexes(n)
    BY <2>1, <2>2, <2>4
  <2>6. ASSUME NEW k \in 1..n
        PROVE  kept[n][list[k].index] = list[k]
    <3>1. CASE k = n
      BY <2>4, <3>1
    <3>2. CASE k \in 1..(n - 1)
      <4>1. list[k].index \in DOMAIN kept[n - 1] /\ list[k].index # list[n].index
        BY <2>1, <2>2, <3>2
      <4> QED
        BY <2>1, <2>4, <3>2, <4>1
    <3> QED
      BY <2>2, <3>1, <3>2
  <2> QED
    BY <2>2, <2>5, <2>6
<1>5. N \in S
  <2> HIDE DEF S, N
  <2> QED
    BY <1>1, <1>3, <1>4, CountUp
<1> QED
  BY <1>5 DEF mapIndexesToFailureDomainsForMachines, kept

(***************************************************************************)
(* Indexes without Machines come after those that have one, so no failure  *)
(* domain has got another index when a Machine's is looked at.             *)
(***************************************************************************)
keepsAll(new, old) ==
    /\ DOMAIN old \subseteq DOMAIN new
    /\ \A i \in DOMAIN old : new[i] = old[i]

LEMMA HandlingKeeps ==
    ASSUME NEW mm, NEW base, NEW candidates, NEW order \in Seq(Nat), DOMAIN mm \subseteq Nat,
           \A j, k \in 1..Len(order) : j < k => order[j] < order[k],
           \A k \in 1..Len(order) : order[k] \in DOMAIN mm \/ \A i \in DOMAIN mm : i < order[k],
           \A i \in DOMAIN mm :
               /\ contains(base, mm[i])
               /\ ~(countForFailureDomain(mm, mm[i]) > maxIndexesPerFailureDomain(base))
    PROVE  keepsAll(handled(mm, base, candidates, order)[Len(order)], mm)
<1> DEFINE N   == Len(order)
           out == handled(mm, base, candidates, order)
           S   == {n \in 0..N : /\ keepsAll(out[n], mm)
                                /\ (\A k \in 1..n : order[k] \in DOMAIN mm) => out[n] = mm}
<1>1. N \in Nat /\ N \in 0..N /\ \A k \in 1..N : order[k] \in Nat
  OBVIOUS
<1>2. /\ out[0] = mm
      /\ \A n \in 1..N : out[n] = handleUnmatchedIndex(out[n - 1], order[n], base, candidates)
  BY <1>1, HandledRound
<1> HIDE DEF out, N
<1>3. 0 \in S
  BY <1>1, <1>2 DEF keepsAll
<1>4. ASSUME NEW n \in 1..N, n - 1 \in S
      PROVE  n \in S
  <2> DEFINE old == out[n - 1]
             y   == order[n]
  <2>1. /\ keepsAll(old, mm)
        /\ (\A k \in 1..(n - 1) : order[k] \in DOMAIN mm) => old = mm
    BY <1>4
  <2>2. n \in 0..N /\ n \in 1..n /\ \A k \in 1..(n - 1) : k \in 1..N /\ k < n
    BY <1>1
  <2>3. out[n] = handleUnmatchedIndex(old, y, base, candidates)
    BY <1>2
  <2>4. CASE y \in DOMAIN mm
    <3>1. ASSUME NEW k \in 1..(n - 1)
          PROVE  order[k] \in DOMAIN mm
      <4>1. order[k] < y /\ order[k] \in Nat /\ y \in Nat
        BY <1>1, <2>2 DEF N
      <4>2. ~(y < order[k])
        BY <4>1
      <4> QED
        BY <2>2, <2>4, <4>2 DEF N
    <3>2. old = mm
      BY <2>1, <3>1
    <3>3. out[n] = mm
      BY <2>3, <2>4, <3>2 DEF handleUnmatchedIndex
    <3> QED
      BY <2>2, <3>3 DEF keepsAll
  <2>5. CASE y \notin DOMAIN mm
    <3>1. ~\A k \in 1..n : order[k] \in DOMAIN mm
      BY <2>2, <2>5
    <3>2. keepsAll(out[n], mm)
      <4>1. CASE out[n] = old
        BY <2>1, <4>1
      <4>2. CASE out[n] = [k \in DOMAIN old \cup {y} |-> IF k = y THEN candidates[y] ELSE old[k]]
        <5> HIDE DEF old, y
        <5> QED
          BY <2>1, <2>5, <4>2 DEF keepsAll
      <4> QED
        BY <2>3, <4>1, <4>2 DEF handleUnmatchedIndex
    <3> QED
      BY <2>2, <3>1, <3>2
  <2> QED
    BY <2>4, <2>5
<1>5. N \in S
  <2> HIDE DEF S
  <2> QED
    BY <1>1, <1>3, <1>4, CountUp
<1> QED
  BY <1>5 DEF N, out

(***************************************************************************)
(* The Machines are as many as the replicas, or have the first indexes.    *)
(***************************************************************************)
LEMMA MappingStays ==
    ASSUME NEW list \in Seq(Machine), NEW indexes, IsFiniteSet(indexes),
           indexes = {list[k].index : k \in 1..Len(list)},
           \A j, k \in 1..Len(list) : list[j].index = list[k].index => j = k,
           \/ Cardinality(indexes) = Replicas
           \/ \E n \in 0..Replicas : indexes = 0..(n - 1),
           NEW fds, IsFiniteSet(fds), fds \subseteq Int, fds # {},
           \A k \in 1..Len(list) : list[k].fd \in fds,
           NEW mm, mm = mapIndexesToFailureDomainsForMachines(list),
           \A i \in DOMAIN mm :
               ~(countForFailureDomain(mm, mm[i]) >
                     maxIndexesPerFailureDomain(createBaseFailureDomainMapping(fds, mm)))
    PROVE  /\ keepsAll(mapMachineIndexesToFailureDomains(list, fds), mm)
           /\ DOMAIN mm = indexes
           /\ \A k \in 1..Len(list) : mm[list[k].index] = list[k].fd
<1> DEFINE base     == createBaseFailureDomainMapping(fds, mm)
           deleting == listDeletingIndexes(ToSet(list))
           r        == reconcileIndexes(base, DOMAIN mm)
           cs       == matchMachinesToCandidates(mm, r, deleting)
           order    == ascending(DOMAIN cs)
           out      == handled(mm, base, cs, order)[Len(order)]
<1>1. mapMachineIndexesToFailureDomains(list, fds) = out
  BY DEF mapMachineIndexesToFailureDomains, reconcileMappings
<1>2. /\ DOMAIN mm = indexes /\ indexes \subseteq Nat
      /\ \A k \in 1..Len(list) : mm[list[k].index] = list[k].fd
  <2>1. \A k \in 1..Len(list) : list[k] \in Machine
    OBVIOUS
  <2>2. indexes \subseteq Nat
    BY <2>1 DEF Machine
  <2> QED
    BY <2>2, KeepsEveryIndex, KeepsSingleMachines
<1>3. \A i \in DOMAIN mm : mm[i] \in fds
  BY <1>2
<1> HIDE DEF deleting
<1>4. /\ IsFiniteSet(DOMAIN base) /\ DOMAIN base \subseteq Nat
      /\ Cardinality(DOMAIN base) = Max({Replicas, Cardinality(DOMAIN mm)})
      /\ Cardinality(DOMAIN mm) <= Cardinality(DOMAIN base)
      /\ DOMAIN base = 0..(Max({Replicas, Cardinality(DOMAIN mm)}) - 1)
      /\ \A i \in DOMAIN base : base[i] \in fds
      /\ \A i \in DOMAIN mm : contains(base, mm[i])
  BY <1>2, <1>3, BaseIsComplete
<1>5. \A i \in DOMAIN mm :
          ~(countForFailureDomain(mm, mm[i]) > maxIndexesPerFailureDomain(base))
  OBVIOUS
<1> HIDE DEF base
<1>6. /\ DOMAIN mm \subseteq DOMAIN r /\ DOMAIN r \subseteq Nat /\ IsFiniteSet(DOMAIN r)
      /\ Cardinality(DOMAIN r) = Cardinality(DOMAIN base)
      /\ DOMAIN mm \subseteq DOMAIN base => DOMAIN r = DOMAIN base
      /\ \A i \in DOMAIN r : \E j \in DOMAIN base : r[i] = base[j]
  <2>1. r = reconcileIndexes(base, DOMAIN mm) /\ IsFiniteSet(DOMAIN mm) /\ DOMAIN mm \subseteq Nat
    BY <1>2
  <2>2. /\ IsFiniteSet(DOMAIN base) /\ DOMAIN base \subseteq Nat
        /\ Cardinality(DOMAIN mm) <= Cardinality(DOMAIN base)
    BY <1>4
  <2> HIDE DEF r
  <2> QED
    BY <2>1, <2>2, RenamesIndexes
<1>7. \A i \in DOMAIN r : r[i] \in fds
  BY <1>4, <1>6
<1> HIDE DEF r
<1>8. \A x \in DOMAIN r : x \in DOMAIN mm \/ \A i \in DOMAIN mm : i < x
  <2>1. \A a \in Nat : Max({a, a}) = a
    BY DEF Max
  <2>2. Replicas \in Nat
    BY ReplicasAssumption
  <2>3. CASE Cardinality(indexes) = Replicas
    <3>1. Cardinality(DOMAIN r) = Cardinality(indexes)
      BY <1>2, <1>4, <1>6, <2>1, <2>2, <2>3
    <3>2. indexes \in SUBSET DOMAIN r
      BY <1>2, <1>6
    <3>3. DOMAIN r = indexes
      BY <1>6, <3>1, <3>2, FS_Subset
    <3> QED
      BY <1>2, <3>3
  <2>4. ASSUME NEW n \in 0..Replicas, indexes = 0..(n - 1)
        PROVE  \A x \in DOMAIN r : x \in DOMAIN mm \/ \A i \in DOMAIN mm : i < x
    <3>1. n \in Nat
      BY <2>2
    <3>2. \A x \in Nat : x \in 0..(n - 1) \/ \A i \in 0..(n - 1) : i < x
      BY <3>1
    <3>3. DOMAIN r \subseteq Nat /\ DOMAIN mm = 0..(n - 1)
      BY <1>2, <1>6, <2>4
    <3> QED
      BY <3>2, <3>3
  <2> QED
    BY <2>3, <2>4
<1>9. isFree(cs, mm, r, fds)
  BY <1>2, <1>6, <1>7, MatchingLeavesFree
<1> HIDE DEF cs
<1>10. DOMAIN cs \subseteq DOMAIN r /\ IsFiniteSet(DOMAIN cs) /\ DOMAIN cs \subseteq Int
  <2>1. DOMAIN cs \in SUBSET DOMAIN r
    BY <1>9 DEF isFree
  <2> QED
    BY <1>6, <2>1, FS_Subset, Nat \subseteq Int
<1>11. /\ isListing(order, DOMAIN cs)
       /\ \A j, k \in 1..Cardinality(DOMAIN cs) : j < k => order[j] < order[k]
  BY <1>10, AscendingIsListing
<1> HIDE DEF order
<1>12. /\ order \in Seq(DOMAIN cs) /\ Len(order) = Cardinality(DOMAIN cs)
       /\ \A k \in 1..Len(order) : order[k] \in DOMAIN cs
  <2>1. order \in Seq(DOMAIN cs) /\ Len(order) = Cardinality(DOMAIN cs)
    BY <1>11 DEF isListing
  <2> QED
    BY <2>1
<1>13. /\ order \in Seq(Nat) /\ \A j, k \in 1..Len(order) : j < k => order[j] < order[k]
       /\ \A k \in 1..Len(order) : order[k] \in DOMAIN mm \/ \A i \in DOMAIN mm : i < order[k]
  <2>1. DOMAIN cs \subseteq Nat
    BY <1>6, <1>10
  <2>2. order \in Seq(Nat)
    BY <1>12, <2>1
  <2> QED
    BY <1>8, <1>10, <1>11, <1>12, <2>2
<1>14. keepsAll(out, mm)
  <2>1. out = handled(mm, base, cs, order)[Len(order)] /\ DOMAIN mm \subseteq Nat
    BY <1>2
  <2> HIDE DEF out
  <2> QED
    BY <1>4, <1>5, <1>13, <2>1, HandlingKeeps
<1> QED
  BY <1>1, <1>2, <1>14

(***************************************************************************)
(* Failure domains that all have q indexes, and one of them more, have     *)
(* more than q times their number together.                                *)
(***************************************************************************)
LEMMA MoreThanTheShare ==
    ASSUME NEW f, IsFiniteSet(DOMAIN f), DOMAIN f \subseteq Int,
           NEW fds, IsFiniteSet(fds), NEW q \in Nat,
           NEW a \in fds, q < countForFailureDomain(f, a),
           \A b \in fds : q <= countForFailureDomain(f, b)
    PROVE  Cardinality(fds) * q < Cardinality(DOMAIN f)
<1> DEFINE in(b) == {i \in DOMAIN f : f[i] = b}
           s(b)  == ascending(in(b))
           z     == s(a)[q + 1]
           T     == DOMAIN f \ {z}
           P     == fds \X (1..q)
           g     == [p \in P |-> s(p[1])[p[2]]]
<1>1. \A b : countForFailureDomain(f, b) = Cardinality(in(b))
  BY DEF countForFailureDomain
<1>2. ASSUME NEW b \in fds
      PROVE  /\ isListing(s(b), in(b)) /\ Cardinality(in(b)) \in Nat
             /\ q <= Cardinality(in(b))
  <2>1. in(b) \in SUBSET DOMAIN f
    OBVIOUS
  <2>2. q <= Cardinality(in(b))
    BY <1>1
  <2> HIDE DEF in
  <2>3. IsFiniteSet(in(b)) /\ in(b) \subseteq Int
    BY <2>1, FS_Subset
  <2> QED
    BY <2>2, <2>3, AscendingIsListing, FS_CardinalityType
<1> HIDE DEF s
<1>3. ASSUME NEW b \in fds, NEW j \in 1..Cardinality(in(b))
      PROVE  /\ s(b)[j] \in DOMAIN f /\ f[s(b)[j]] = b
             /\ \A k \in 1..Cardinality(in(b)) : s(b)[j] = s(b)[k] => j = k
  <2>1. /\ s(b) \in Seq(in(b)) /\ Len(s(b)) = Cardinality(in(b))
        /\ \A k, l \in 1..Len(s(b)) : s(b)[k] = s(b)[l] => k = l
    BY <1>2 DEF isListing
  <2>2. s(b)[j] \in in(b)
    <3> HIDE DEF in
    <3> QED
      BY <2>1
  <2> QED
    BY <2>1, <2>2
<1>4. \A b \in fds, j \in 1..q : j \in 1..Cardinality(in(b))
  BY <1>2
<1>5. q + 1 \in 1..Cardinality(in(a)) /\ z \in DOMAIN f
  <2>1. q + 1 \in 1..Cardinality(in(a))
    <3>1. q < Cardinality(in(a)) /\ Cardinality(in(a)) \in Nat
      BY <1>1, <1>2
    <3> HIDE DEF in
    <3> QED
      BY <3>1
  <2> QED
    BY <1>3, <2>1
<1> HIDE DEF in
<1>13. ASSUME NEW b \in fds, NEW j \in 1..q
       PROVE  s(b)[j] \in DOMAIN f /\ f[s(b)[j]] = b /\ j # q + 1 /\ j \in 1..Cardinality(in(b))
  <2>1. j \in 1..Cardinality(in(b)) /\ j # q + 1
    BY <1>4
  <2> QED
    BY <1>3, <2>1
<1>6. g \in [P -> T]
  <2> SUFFICES ASSUME NEW b \in fds, NEW j \in 1..q
               PROVE  s(b)[j] \in DOMAIN f /\ s(b)[j] # z
    OBVIOUS
  <2>1. s(b)[j] \in DOMAIN f /\ f[s(b)[j]] = b /\ j # q + 1
    BY <1>13
  <2>2. CASE b = a
    BY <1>3, <1>13, <1>5, <2>1, <2>2
  <2>3. CASE b # a
    BY <1>3, <1>5, <2>1, <2>3
  <2> QED
    BY <2>1, <2>2, <2>3
<1>7. ASSUME NEW b \in fds, NEW j \in 1..q, NEW c \in fds, NEW k \in 1..q, s(b)[j] = s(c)[k]
      PROVE  b = c /\ j = k
  <2>1. f[s(b)[j]] = b /\ f[s(c)[k]] = c
    BY <1>13
  <2>2. b = c
    BY <1>7, <2>1
  <2>3. j \in 1..Cardinality(in(b)) /\ k \in 1..Cardinality(in(b)) /\ s(b)[j] = s(b)[k]
    BY <1>7, <1>13, <2>2
  <2> QED
    BY <1>3, <2>2, <2>3
<1>8. \A p, o \in P : g[p] = g[o] => p = o
  BY <1>7
<1>9. IsFiniteSet(P) /\ Cardinality(P) = Cardinality(fds) * q
  <2>1. IsFiniteSet(1..q) /\ Cardinality(1..q) = q
    BY FS_Interval
  <2> QED
    BY <2>1, FS_Product
<1>10. IsFiniteSet(T) /\ Cardinality(T) = Cardinality(DOMAIN f) - 1
  BY <1>5, FS_RemoveElement
<1>11. Cardinality(P) <= Cardinality(T)
  <2> HIDE DEF P, T, g
  <2>1. g \in Injection(P, T)
    BY <1>6, <1>8 DEF Injection, IsInjective
  <2> QED
    BY <1>10, <2>1, FS_Injection
<1> HIDE DEF P, T
<1>12. Cardinality(P) \in Nat /\ Cardinality(DOMAIN f) \in Nat
  BY <1>9, FS_CardinalityType
<1> QED
  BY <1>9, <1>10, <1>11, <1>12

-----------------------------------------------------------------------------
(***************************************************************************)
(* Balance.  The base deals out the failure domains in turn: the indexes   *)
(* of one are in different rounds, and there are no more rounds than the   *)
(* share, which is rounded up.                                             *)
(***************************************************************************)
LEMMA DivisionFalls ==
    ASSUME NEW n \in Nat, NEW u \in Nat, NEW v \in Nat, u # 0, u <= v
    PROVE  n \div v <= n \div u
<1> DEFINE a == n \div v
           b == n \div u
<1>1. a \in Nat /\ b \in Nat /\ a * v <= n /\ n < (b + 1) * u
  OBVIOUS
<1> HIDE DEF a, b
<1>2. SUFFICES ASSUME b + 1 <= a PROVE FALSE
  BY <1>1 DEF a, b
<1>3. a * u <= a * v
  BY <1>1, TimesGrows
<1>4. u * (b + 1) <= u * a
  BY <1>1, <1>2, TimesGrows
<1>5. u * (b + 1) = (b + 1) * u /\ u * a = a * u
  BY <1>1
<1> DEFINE x == (b + 1) * u
           y == a * u
           z == a * v
<1>6. x \in Nat /\ y \in Nat /\ z \in Nat /\ x <= y /\ y <= z /\ z <= n /\ n < x
  BY <1>1, <1>3, <1>4, <1>5
<1> HIDE DEF x, y, z
<1> QED
  BY <1>6

LEMMA RoundedUpIs ==
    ASSUME NEW n \in Nat, NEW u \in Nat, n # 0, u # 0
    PROVE  (n + u - 1) \div u = (n - 1) \div u + 1
<1> DEFINE m == n - 1
<1>1. m \in Nat /\ n + u - 1 = m + u
  OBVIOUS
<1> HIDE DEF m
<1>2. (m + u) \div u = m \div u + 1
  BY <1>1
<1> QED
  BY <1>1, <1>2 DEF m


LEMMA SameQuotient ==
    ASSUME NEW i \in Nat, NEW j \in Nat, NEW n \in Nat, n # 0,
           i % n = j % n, i \div n = j \div n
    PROVE  i = j
  OBVIOUS

dealsEvenly(base, fds) ==
    /\ maxIndexesPerFailureDomain(base) \in Nat
    /\ \A fd : countForFailureDomain(base, fd) <= maxIndexesPerFailureDomain(base)
    /\ Min({Cardinality(fds), Cardinality(DOMAIN base)})
         <= Cardinality({base[i] : i \in DOMAIN base})

LEMMA BaseDealsInTurn ==
    ASSUME NEW fds, IsFiniteSet(fds), fds \subseteq Int, fds # {},
           NEW mm, IsFiniteSet(DOMAIN mm),
           NEW base, base = createBaseFailureDomainMapping(fds, mm)
    PROVE  dealsEvenly(base, fds)
<1> DEFINE used   == {mm[i] : i \in DOMAIN mm}
           first  == ascending(fds \cap used)
           second == ascending(fds \ used)
           sorted == first \o second
           count  == Max({Replicas, Cardinality(DOMAIN mm)})
           L      == Cardinality(fds)
           listed == {base[i] : i \in DOMAIN base}
           unique == Cardinality(listed)
<1>1. base = [i \in 0..(count - 1) |-> sorted[(i % Len(sorted)) + 1]]
  BY DEF createBaseFailureDomainMapping
<1>2. /\ IsFiniteSet(DOMAIN base) /\ Cardinality(DOMAIN base) = count
      /\ DOMAIN base = 0..(count - 1)
      /\ \A i \in DOMAIN base : base[i] \in fds
  BY BaseIsComplete
<1>3. count \in Nat /\ count # 0
  <2>1. \A a, b \in Nat : a # 0 => Max({a, b}) \in Nat /\ Max({a, b}) # 0
    BY DEF Max
  <2>2. Replicas \in Nat /\ Replicas # 0 /\ Cardinality(DOMAIN mm) \in Nat
    BY ReplicasAssumption, FS_CardinalityType
  <2> QED
    BY <2>1, <2>2
<1> HIDE DEF used, count
<1>4. /\ IsFiniteSet(fds \cap used) /\ IsFiniteSet(fds \ used)
      /\ Cardinality(fds \cap used) \in Nat /\ Cardinality(fds \ used) \in Nat /\ L \in Nat
      /\ Cardinality(fds \ used) = L - Cardinality(fds \cap used)
  BY FS_Intersection, FS_Difference, FS_CardinalityType
<1>5. isListing(first, fds \cap used) /\ isListing(second, fds \ used)
  BY <1>4, AscendingIsListing
<1> HIDE DEF first, second
<1>6. /\ first \in Seq(fds \cap used) /\ Len(first) = Cardinality(fds \cap used)
      /\ second \in Seq(fds \ used) /\ Len(second) = Cardinality(fds \ used)
      /\ \A j, k \in 1..Len(first) : first[j] = first[k] => j = k
      /\ \A j, k \in 1..Len(second) : second[j] = second[k] => j = k
  BY <1>5 DEF isListing
<1>7. Len(sorted) = L /\ L # 0
  <2>1. Len(sorted) = Len(first) + Len(second)
    <3>1. first \in Seq(fds) /\ second \in Seq(fds)
      BY <1>6
    <3> QED
      BY <3>1
  <2> QED
    BY <1>4, <1>6, <2>1, FS_EmptySet
<1>8. ASSUME NEW j \in 1..L, NEW k \in 1..L, sorted[j] = sorted[k]
      PROVE  j = k
  <2>1. \A n \in 1..L : \/ n \in 1..Len(first)
                        \/ n - Len(first) \in 1..Len(second) /\ ~(n <= Len(first))
    BY <1>4, <1>6
  <2>2. \A n \in 1..Len(first) : sorted[n] = first[n] /\ first[n] \in fds \cap used
    BY <1>6
  <2>3. \A n \in 1..L : n - Len(first) \in 1..Len(second) /\ ~(n <= Len(first)) =>
            sorted[n] = second[n - Len(first)] /\ second[n - Len(first)] \in fds \ used
    <3>1. \A n \in 1..Len(second) : second[n] \in fds \ used
      BY <1>6
    <3>2. \A n \in (Len(first) + 1)..(Len(first) + Len(second)) : sorted[n] = second[n - Len(first)]
      BY <1>6
    <3>3. Len(first) \in Nat /\ Len(second) \in Nat /\ L = Len(first) + Len(second)
      BY <1>4, <1>6
    <3> HIDE DEF sorted, L
    <3>4. ASSUME NEW n \in 1..L, n - Len(first) \in 1..Len(second), ~(n <= Len(first))
          PROVE  sorted[n] = second[n - Len(first)]
      <4>1. n \in (Len(first) + 1)..(Len(first) + Len(second))
        BY <3>3, <3>4
      <4> QED
        BY <3>2, <4>1
    <3> QED
      BY <3>1, <3>4
  <2> HIDE DEF sorted
  <2>4. CASE j \in 1..Len(first)
    <3>1. k \in 1..Len(first)
      BY <1>8, <2>1, <2>2, <2>3, <2>4
    <3> QED
      BY <1>6, <1>8, <2>2, <2>4, <3>1
  <2>5. CASE j - Len(first) \in 1..Len(second) /\ ~(j <= Len(first))
    <3>1. k - Len(first) \in 1..Len(second) /\ ~(k <= Len(first))
      BY <1>8, <2>1, <2>2, <2>3, <2>5
    <3>2. j - Len(first) = k - Len(first)
      BY <1>6, <1>8, <2>3, <2>5, <3>1
    <3>3. Len(first) \in Nat
      BY <1>4, <1>6
    <3> QED
      BY <3>2, <3>3
  <2> QED
    BY <2>1, <2>4, <2>5
<1> HIDE DEF sorted, L
<1>9. \A i \in 0..(count - 1) : i \in Nat /\ (i % L) + 1 \in 1..L /\ i % L \in Nat
                                /\ base[i] = sorted[(i % L) + 1]
  BY <1>1, <1>3, <1>4, <1>7
<1>10. \A i, j \in 0..(count - 1) : base[i] = base[j] => i % L = j % L
  BY <1>8, <1>9
<1>11. /\ IsFiniteSet(listed) /\ unique \in Nat /\ unique # 0 /\ unique <= L
  <2>1. listed \in SUBSET fds /\ listed # {}
    <3>1. 0 \in 0..(count - 1)
      BY <1>3
    <3> QED
      BY <1>2, <3>1
  <2> HIDE DEF listed
  <2> QED
    BY <2>1, FS_Subset, FS_CardinalityType, FS_EmptySet DEF L
<1>12. maxIndexesPerFailureDomain(base) = (count - 1) \div unique + 1
  <2>1. maxIndexesPerFailureDomain(base) = (count + unique - 1) \div unique
    BY <1>2 DEF maxIndexesPerFailureDomain
  <2> HIDE DEF unique
  <2> QED
    BY <1>3, <1>11, <2>1, RoundedUpIs
<1> HIDE DEF unique, listed
<1> DEFINE rows == (count - 1) \div L
<1>13. rows \in Nat /\ rows <= (count - 1) \div unique /\ (count - 1) \div unique \in Nat
  <2>1. count - 1 \in Nat
    BY <1>3
  <2>2. (count - 1) \div L <= (count - 1) \div unique
    BY <1>4, <1>11, <2>1, DivisionFalls
  <2>3. \A n \in Nat : n \div unique \in Nat /\ n \div L \in Nat
    BY <1>4, <1>7, <1>11
  <2> QED
    BY <2>1, <2>2, <2>3
<1>14. \A i \in 0..(count - 1) : i \div L \in 0..rows
  BY <1>3, <1>4, <1>7
<1> HIDE DEF rows
<1>15. ASSUME NEW fd
       PROVE  countForFailureDomain(base, fd) <= maxIndexesPerFailureDomain(base)
  <2> DEFINE S == {i \in DOMAIN base : base[i] = fd}
             h == [i \in S |-> i \div L]
  <2>1. h \in [S -> 0..rows]
    BY <1>2, <1>14
  <2>2. ASSUME NEW i \in S, NEW j \in S, h[i] = h[j] PROVE i = j
    <3>1. i \in Nat /\ j \in Nat /\ i % L = j % L /\ i \div L = j \div L
      BY <1>2, <1>9, <1>10, <2>2
    <3> QED
      BY <1>4, <1>7, <3>1, SameQuotient
  <2> HIDE DEF h, S
  <2>3. h \in Injection(S, 0..rows)
    BY <2>1, <2>2 DEF Injection, IsInjective
  <2>4. IsFiniteSet(0..rows) /\ Cardinality(0..rows) = rows + 1
    BY <1>13, FS_Interval
  <2>5. Cardinality(S) <= rows + 1 /\ Cardinality(S) \in Nat
    BY <2>3, <2>4, FS_Injection, FS_CardinalityType
  <2> QED
    BY <1>12, <1>13, <2>5 DEF countForFailureDomain, S
<1>16. Min({L, count}) <= unique
  <2> DEFINE u == Min({L, count})
             g == [i \in 0..(u - 1) |-> base[i]]
  <2>1. u \in Nat /\ u <= L /\ u <= count
    <3>1. \A a, b \in Nat : Min({a, b}) \in Nat /\ Min({a, b}) <= a /\ Min({a, b}) <= b
      BY DEF Min
    <3> QED
      BY <1>3, <1>4, <3>1
  <2> HIDE DEF u
  <2>2. \A i \in 0..(u - 1) : i \in 0..(count - 1) /\ i % L = i
    BY <1>3, <1>4, <1>7, <2>1
  <2>3. g \in [0..(u - 1) -> listed]
    BY <1>2, <2>2 DEF listed
  <2>4. \A i, j \in 0..(u - 1) : g[i] = g[j] => i = j
    BY <1>10, <2>2
  <2>5. g \in Injection(0..(u - 1), listed)
    <3> HIDE DEF g
    <3> QED
      BY <2>3, <2>4 DEF Injection, IsInjective
  <2>6. IsFiniteSet(0..(u - 1)) /\ Cardinality(0..(u - 1)) = u
    BY <2>1, FS_Interval
  <2>7. u <= unique
    BY <1>11, <2>5, <2>6, FS_Injection DEF unique
  <2> QED
    BY <2>7 DEF u
<1>17. maxIndexesPerFailureDomain(base) \in Nat
  BY <1>12, <1>13
<1>18. Min({Cardinality(fds), Cardinality(DOMAIN base)}) <= Cardinality(listed)
  BY <1>2, <1>16 DEF unique, L
<1> QED
  BY <1>15, <1>17, <1>18 DEF listed, dealsEvenly

(***************************************************************************)
(* Matched indexes count for the failure domain of their Machine, the      *)
(* others for that of their candidate.                                     *)
(***************************************************************************)
together(cs, out, D) == [x \in D |-> IF x \in DOMAIN cs THEN cs[x] ELSE out[x]]

noCandidate(cs, fd) == \A x \in DOMAIN cs : cs[x] # fd

(***************************************************************************)
(* A swap keeps these counts, and an index that finds no candidate of its  *)
(* failure domain leaves none.                                             *)
(***************************************************************************)
swapped(new, cs, y, out, D, fd) ==
    /\ countForFailureDomain(together(new, out, D), fd) \in Nat
    /\ countForFailureDomain(together(cs, out, D), fd) \in Nat
    /\ countForFailureDomain(together(new, out, D), fd)
         <= countForFailureDomain(together(cs, out, D), fd)
    /\ DOMAIN new \subseteq DOMAIN cs /\ DOMAIN cs \ {y} \subseteq DOMAIN new
    /\ \A x \in DOMAIN new : \E z \in DOMAIN cs : new[x] = cs[z]
    /\ y \in DOMAIN new => noCandidate(new, out[y])

LEMMA SwapKeepsCounts ==
    ASSUME NEW out, NEW D, IsFiniteSet(D), D \subseteq Nat, NEW fd,
           NEW cs, DOMAIN cs \subseteq D, NEW y \in DOMAIN cs,
           NEW new, new = takeCandidate(out, cs, y)
    PROVE  swapped(new, cs, y, out, D, fd)
<1> DEFINE equal == {x \in DOMAIN cs : cs[x] = out[y]}
           f     == together(new, out, D)
           g     == together(cs, out, D)
<1>0. DOMAIN f = D /\ DOMAIN g = D
  BY DEF together
<1>1. CASE equal = {}
  <2>1. new = cs /\ noCandidate(cs, out[y])
    BY <1>1 DEF takeCandidate, noCandidate
  <2>2. \A i \in DOMAIN f : f[i] = fd => i \in DOMAIN g /\ g[i] = fd
    BY <2>1
  <2> HIDE DEF f, g
  <2>3. /\ countForFailureDomain(f, fd) \in Nat /\ countForFailureDomain(g, fd) \in Nat
        /\ countForFailureDomain(f, fd) <= countForFailureDomain(g, fd)
    BY <1>0, <2>2, CountsFewer
  <2> QED
    BY <2>1, <2>3 DEF f, g, swapped
<1>2. CASE equal # {}
  <2> DEFINE m == Min(equal)
             h == [x \in D |-> IF x = y THEN m ELSE IF x = m THEN y ELSE x]
  <2>1. m \in DOMAIN cs /\ cs[m] = out[y]
    <3>1. equal \subseteq Nat
      OBVIOUS
    <3>2. Min(equal) \in equal
      <4> HIDE DEF equal
      <4> QED
        BY <1>2, <3>1, MinIsElement
    <3> QED
      BY <3>2
  <2>2. new = [x \in DOMAIN cs \ {y} |-> [cs EXCEPT ![m] = cs[y]][x]]
    BY <1>2 DEF takeCandidate, useCandidate, Restrict
  <2> HIDE DEF m, equal
  <2>3. DOMAIN new = DOMAIN cs \ {y} /\ \A x \in DOMAIN new : new[x] = IF x = m THEN cs[y] ELSE cs[x]
    BY <2>1, <2>2
  <2>4. \A x \in D : h[x] \in D /\ f[x] = g[h[x]]
    BY <2>1, <2>3 DEF together
  <2>5. \A x, z \in D : h[x] = h[z] => x = z
    OBVIOUS
  <2> HIDE DEF f, g, h
  <2>6. /\ countForFailureDomain(f, fd) \in Nat /\ countForFailureDomain(g, fd) \in Nat
        /\ countForFailureDomain(f, fd) <= countForFailureDomain(g, fd)
    <3>1. /\ \A i \in DOMAIN f : f[i] = fd => h[i] \in DOMAIN g /\ g[h[i]] = fd
          /\ \A i, j \in DOMAIN f : f[i] = fd /\ f[j] = fd /\ h[i] = h[j] => i = j
      BY <1>0, <2>4, <2>5
    <3>2. IsFiniteSet(DOMAIN g)
      BY <1>0
    <3> QED
      BY <3>1, <3>2, CountsWithin
  <2>7. \A x \in DOMAIN new : \E z \in DOMAIN cs : new[x] = cs[z]
    BY <2>3
  <2> QED
    BY <2>3, <2>6, <2>7 DEF f, g, swapped
<1> QED
  BY <1>1, <1>2

LEMMA MatchingKeepsCounts ==
    ASSUME NEW out, NEW candidates, DOMAIN candidates \subseteq Nat,
           IsFiniteSet(DOMAIN candidates), DOMAIN out \subseteq DOMAIN candidates, NEW fd,
           NEW cs, cs = matchMachinesToCandidates(out, candidates, {})
    PROVE  /\ DOMAIN cs \subseteq DOMAIN candidates
           /\ DOMAIN candidates \ DOMAIN cs \subseteq DOMAIN out
           /\ countForFailureDomain(together(cs, out, DOMAIN candidates), fd)
                <= countForFailureDomain(candidates, fd)
           /\ \A y \in DOMAIN out \cap DOMAIN cs : noCandidate(cs, out[y])
<1> DEFINE D     == DOMAIN candidates
           T     == DOMAIN out \ {}
           order == ascending(T)
           N     == Len(order)
           left  == unmatched(out, candidates, order)
           within(c) == /\ countForFailureDomain(together(c, out, D), fd) \in Nat
                        /\ countForFailureDomain(together(c, out, D), fd)
                             <= countForFailureDomain(candidates, fd)
           P(n)  == /\ DOMAIN left[n] \subseteq D
                    /\ D \ DOMAIN left[n] \subseteq DOMAIN out
                    /\ within(left[n])
                    /\ \A k \in 1..n : order[k] \in DOMAIN left[n] => noCandidate(left[n], out[order[k]])
                    /\ \A k \in (n + 1)..N : order[k] \in DOMAIN left[n]
           S     == {n \in 0..N : P(n)}
<1>0. cs = left[N]
  BY DEF matchMachinesToCandidates
<1>1. isListing(order, T) /\ T = DOMAIN out
  <2>1. T \in SUBSET D /\ T = DOMAIN out
    OBVIOUS
  <2>2. IsFiniteSet(T)
    BY <2>1, FS_Subset
  <2>3. T \subseteq Int
    BY <2>1, Nat \subseteq Int
  <2> HIDE DEF T
  <2> QED
    BY <2>1, <2>2, <2>3, AscendingIsListing
<1> HIDE DEF order
<1>2. /\ N \in Nat /\ N \in 0..N
      /\ \A k \in 1..N : order[k] \in DOMAIN out
      /\ \A j, k \in 1..N : order[j] = order[k] => j = k
      /\ \A y \in DOMAIN out : \E k \in 1..N : order[k] = y
  <2>1. /\ order \in Seq(DOMAIN out) /\ \A j, k \in 1..Len(order) : order[j] = order[k] => j = k
        /\ \A y \in DOMAIN out : \E k \in 1..Len(order) : order[k] = y
    BY <1>1 DEF isListing
  <2> HIDE DEF T
  <2> QED
    BY <2>1
<1>3. left[0] = candidates /\ \A n \in 1..N : left[n] = takeCandidate(out, left[n - 1], order[n])
  BY <1>2, UnmatchedRound
<1> HIDE DEF left, N, T
<1>4. 0 \in S
  <2>1. within(candidates)
    <3> DEFINE f == together(candidates, out, D)
    <3>1. \A i \in DOMAIN f : f[i] = fd => i \in DOMAIN candidates /\ candidates[i] = fd
      BY DEF together
    <3> HIDE DEF f
    <3>2. /\ countForFailureDomain(f, fd) \in Nat
          /\ countForFailureDomain(f, fd) <= countForFailureDomain(candidates, fd)
      BY <3>1, CountsFewer
    <3> QED
      BY <3>2 DEF f
  <2> HIDE DEF within
  <2>2. P(0)
    BY <1>2, <1>3, <2>1
  <2> HIDE DEF P
  <2> QED
    BY <1>2, <2>2
<1>5. ASSUME NEW n \in 1..N, n - 1 \in S
      PROVE  n \in S
  <2> DEFINE c == left[n - 1]
             d == left[n]
             y == order[n]
  <2>1. P(n - 1) /\ n \in 0..N /\ (n - 1) + 1 = n /\ 1..n = (1..(n - 1)) \cup {n}
    BY <1>2, <1>5
  <2>2. /\ DOMAIN c \subseteq D /\ D \ DOMAIN c \subseteq DOMAIN out /\ within(c)
        /\ \A k \in 1..(n - 1) : order[k] \in DOMAIN c => noCandidate(c, out[order[k]])
        /\ \A k \in n..N : order[k] \in DOMAIN c
    BY <2>1
  <2>3. y \in DOMAIN c /\ y \in DOMAIN out /\ d = takeCandidate(out, c, y)
    BY <1>2, <1>3, <2>2
  <2> HIDE DEF P, within, c, d, y, D
  <2>4. /\ countForFailureDomain(together(d, out, D), fd) \in Nat
        /\ countForFailureDomain(together(c, out, D), fd) \in Nat
        /\ countForFailureDomain(together(d, out, D), fd)
             <= countForFailureDomain(together(c, out, D), fd)
        /\ DOMAIN d \subseteq DOMAIN c /\ DOMAIN c \ {y} \subseteq DOMAIN d
        /\ \A x \in DOMAIN d : \E z \in DOMAIN c : d[x] = c[z]
        /\ y \in DOMAIN d => noCandidate(d, out[y])
    <3>1. IsFiniteSet(D) /\ D \subseteq Nat
      BY DEF D
    <3>2. DOMAIN c \subseteq D /\ y \in DOMAIN c /\ d = takeCandidate(out, c, y)
      BY <2>2, <2>3
    <3>3. swapped(d, c, y, out, D, fd)
      BY <3>1, <3>2, SwapKeepsCounts
    <3> QED
      BY <3>3 DEF swapped
  <2>5. within(d)
    <3>1. countForFailureDomain(candidates, fd) \in Nat
      <4>1. {i \in DOMAIN candidates : candidates[i] = fd} \in SUBSET DOMAIN candidates
        OBVIOUS
      <4> QED
        BY <4>1, FS_Subset, FS_CardinalityType DEF countForFailureDomain
    <3> QED
      BY <2>2, <2>4, <3>1 DEF within
  <2>6. ASSUME NEW k \in 1..n, order[k] \in DOMAIN d
        PROVE  noCandidate(d, out[order[k]])
    <3>1. CASE k = n
      BY <2>4, <2>6, <3>1 DEF y
    <3>2. CASE k \in 1..(n - 1)
      <4>1. noCandidate(c, out[order[k]])
        BY <2>2, <2>4, <2>6, <3>2
      <4> QED
        BY <2>4, <4>1 DEF noCandidate
    <3> QED
      BY <2>1, <3>1, <3>2
  <2>7. ASSUME NEW k \in (n + 1)..N
        PROVE  order[k] \in DOMAIN d
    <3>1. k \in n..N /\ k \in 1..N /\ n \in 1..N /\ k # n
      BY <1>2
    <3>2. order[k] \in DOMAIN c /\ order[k] # y
      BY <1>2, <2>2, <3>1 DEF y
    <3> QED
      BY <2>4, <3>2
  <2>8. DOMAIN d \subseteq D /\ D \ DOMAIN d \subseteq DOMAIN out
    BY <2>2, <2>3, <2>4
  <2>9. P(n)
    BY <2>5, <2>6, <2>7, <2>8 DEF P, d
  <2> QED
    BY <2>1, <2>9
<1>6. P(N)
  <2> HIDE DEF P
  <2>1. N \in S
    <3> HIDE DEF S
    <3> QED
      BY <1>2, <1>4, <1>5, CountUp
  <2> QED
    BY <2>1
<1>7. \A y \in DOMAIN out \cap DOMAIN cs : noCandidate(cs, out[y])
  BY <1>0, <1>2, <1>6
<1> QED
  BY <1>0, <1>6, <1>7

(***************************************************************************)
(* Handling the rest, as far as failure domain fd is concerned: an index   *)
(* that was handled has it as its candidate, or else no index gets it any  *)
(* more and it is within its share.                                        *)
(***************************************************************************)
settled(out, mm, cs, done, fd, q) ==
    /\ DOMAIN out = DOMAIN mm \cup done
    /\ \A i \in DOMAIN mm \ done : out[i] = mm[i]
    /\ \/ countForFailureDomain(out, fd) <= q /\ noCandidate(cs, fd)
       \/ \A i \in done : out[i] = fd => cs[i] = fd

LEMMA SettlesOne ==
    ASSUME NEW mm, NEW base, NEW cs, NEW done, NEW fd, NEW q, q \in Nat,
           q = maxIndexesPerFailureDomain(base),
           NEW out, IsFiniteSet(DOMAIN out), settled(out, mm, cs, done, fd, q),
           NEW i \in DOMAIN cs, i \notin done,
           i \in DOMAIN mm => noCandidate(cs, mm[i])
    PROVE  settled(handleUnmatchedIndex(out, i, base, cs), mm, cs, done \cup {i}, fd, q)
<1>1. CASE \/ i \notin DOMAIN out
           \/ ~contains(base, out[i])
           \/ countForFailureDomain(out, out[i]) > maxIndexesPerFailureDomain(base)
  <2> DEFINE new == [k \in DOMAIN out \cup {i} |-> IF k = i THEN cs[i] ELSE out[k]]
  <2>1. handleUnmatchedIndex(out, i, base, cs) = new
    BY <1>1 DEF handleUnmatchedIndex
  <2>2. /\ DOMAIN new = DOMAIN mm \cup done \cup {i}
        /\ \A k \in DOMAIN mm \ (done \cup {i}) : new[k] = mm[k]
    BY DEF settled
  <2>3. CASE countForFailureDomain(out, fd) <= q /\ noCandidate(cs, fd)
    <3>1. \A k \in DOMAIN new : new[k] = fd => k \in DOMAIN out /\ out[k] = fd
      BY <2>3 DEF noCandidate
    <3> HIDE DEF new
    <3>2. /\ countForFailureDomain(new, fd) \in Nat /\ countForFailureDomain(out, fd) \in Nat
          /\ countForFailureDomain(new, fd) <= countForFailureDomain(out, fd)
      BY <3>1, CountsFewer
    <3>3. countForFailureDomain(new, fd) <= q
      BY <2>3, <3>2
    <3> QED
      BY <2>1, <2>2, <2>3, <3>3 DEF settled
  <2>4. CASE \A k \in done : out[k] = fd => cs[k] = fd
    <3>1. \A k \in done \cup {i} : new[k] = fd => cs[k] = fd
      BY <2>4 DEF settled
    <3> HIDE DEF new
    <3> QED
      BY <2>1, <2>2, <3>1 DEF settled
  <2> QED
    BY <2>3, <2>4 DEF settled
<1>2. CASE /\ i \in DOMAIN out
           /\ contains(base, out[i])
           /\ ~(countForFailureDomain(out, out[i]) > maxIndexesPerFailureDomain(base))
  <2>1. handleUnmatchedIndex(out, i, base, cs) = out
    BY <1>2 DEF handleUnmatchedIndex
  <2>2. i \in DOMAIN mm /\ out[i] = mm[i] /\ noCandidate(cs, out[i])
    BY <1>2 DEF settled
  <2>3. CASE out[i] = fd
    <3>1. countForFailureDomain(out, fd) \in Nat
      BY CountsFewer
    <3>2. countForFailureDomain(out, fd) <= q
      BY <1>2, <2>3, <3>1
    <3> QED
      BY <2>1, <2>2, <2>3, <3>2 DEF settled
  <2>4. CASE out[i] # fd
    BY <2>1, <2>2, <2>4 DEF settled
  <2> QED
    BY <2>3, <2>4
<1> QED
  BY <1>1, <1>2

LEMMA HandlingBalances ==
    ASSUME NEW mm, IsFiniteSet(DOMAIN mm), NEW base, NEW cs, IsFiniteSet(DOMAIN cs),
           \A y \in DOMAIN mm \cap DOMAIN cs : noCandidate(cs, mm[y]),
           NEW order, isListing(order, DOMAIN cs),
           NEW fd, NEW q \in Nat, q = maxIndexesPerFailureDomain(base),
           NEW D, D = DOMAIN mm \cup DOMAIN cs,
           countForFailureDomain(together(cs, mm, D), fd) <= q
    PROVE  countForFailureDomain(handled(mm, base, cs, order)[Len(order)], fd) <= q
<1> DEFINE N   == Len(order)
           out == handled(mm, base, cs, order)
           upTo(n) == {order[k] : k \in 1..n}
           S   == {n \in 0..N : settled(out[n], mm, cs, upTo(n), fd, q)}
<1>1. /\ N \in Nat /\ N \in 0..N /\ \A k \in 1..N : order[k] \in DOMAIN cs
      /\ \A j, k \in 1..N : order[j] = order[k] => j = k
      /\ \A x \in DOMAIN cs : \E k \in 1..N : order[k] = x
  <2>1. /\ order \in Seq(DOMAIN cs)
        /\ \A j, k \in 1..N : order[j] = order[k] => j = k
        /\ \A x \in DOMAIN cs : \E k \in 1..N : order[k] = x
    BY DEF isListing
  <2>2. N \in Nat /\ \A k \in 1..N : order[k] \in DOMAIN cs
    BY <2>1
  <2> HIDE DEF N
  <2> QED
    BY <2>1, <2>2
<1>2. /\ out[0] = mm
      /\ \A n \in 1..N : out[n] = handleUnmatchedIndex(out[n - 1], order[n], base, cs)
  BY <1>1, HandledRound
<1> HIDE DEF out, N
<1>3. 0 \in S
  <2>1. upTo(0) = {} /\ 0 \in 0..N
    BY <1>1
  <2> HIDE DEF upTo
  <2> QED
    BY <1>2, <2>1 DEF settled
<1>4. ASSUME NEW n \in 1..N, n - 1 \in S
      PROVE  n \in S
  <2>1. settled(out[n - 1], mm, cs, upTo(n - 1), fd, q)
    BY <1>4
  <2>2. upTo(n) = upTo(n - 1) \cup {order[n]} /\ n \in 0..N
    <3>1. 1..n = (1..(n - 1)) \cup {n} /\ n \in 0..N
      BY <1>1
    <3> QED
      BY <3>1
  <2>3. order[n] \notin upTo(n - 1)
    <3>1. \A k \in 1..(n - 1) : k \in 1..N /\ k # n
      BY <1>1
    <3> QED
      BY <1>1, <3>1
  <2>4. upTo(n - 1) \subseteq DOMAIN cs
    <3>1. \A k \in 1..(n - 1) : k \in 1..N
      BY <1>1
    <3> QED
      BY <1>1, <3>1
  <2> HIDE DEF upTo
  <2>5. IsFiniteSet(DOMAIN out[n - 1])
    <3>1. DOMAIN out[n - 1] \in SUBSET (DOMAIN mm \cup DOMAIN cs)
      BY <2>1, <2>4 DEF settled
    <3>2. IsFiniteSet(DOMAIN mm \cup DOMAIN cs)
      BY FS_Union
    <3> QED
      BY <3>1, <3>2, FS_Subset
  <2>6. settled(out[n], mm, cs, upTo(n - 1) \cup {order[n]}, fd, q)
    <3>1. out[n] = handleUnmatchedIndex(out[n - 1], order[n], base, cs)
      BY <1>2
    <3>2. order[n] \in DOMAIN cs
      BY <1>1
    <3>3. order[n] \in DOMAIN mm => noCandidate(cs, mm[order[n]])
      BY <3>2
    <3> QED
      BY <2>1, <2>3, <2>5, <3>1, <3>2, <3>3, SettlesOne
  <2> QED
    BY <2>2, <2>6
<1>5. N \in S
  <2> HIDE DEF S
  <2> QED
    BY <1>1, <1>3, <1>4, CountUp
<1>6. upTo(N) = DOMAIN cs
  BY <1>1
<1> DEFINE f == out[N]
<1>7. settled(f, mm, cs, DOMAIN cs, fd, q)
  BY <1>5, <1>6
<1>8. CASE \A i \in DOMAIN cs : f[i] = fd => cs[i] = fd
  <2> DEFINE g == together(cs, mm, D)
  <2>1. DOMAIN g = D /\ DOMAIN f = D
    BY <1>7 DEF together, settled
  <2>2. \A i \in DOMAIN f : f[i] = fd => i \in DOMAIN g /\ g[i] = fd
    BY <1>7, <1>8, <2>1 DEF together, settled
  <2>3. countForFailureDomain(g, fd) <= q
    OBVIOUS
  <2>4. IsFiniteSet(DOMAIN g)
    BY <2>1, FS_Union
  <2> HIDE DEF f, g
  <2>5. /\ countForFailureDomain(f, fd) \in Nat /\ countForFailureDomain(g, fd) \in Nat
        /\ countForFailureDomain(f, fd) <= countForFailureDomain(g, fd)
    BY <2>2, <2>4, CountsFewer
  <2>6. countForFailureDomain(f, fd) <= q
    BY <2>3, <2>5
  <2> QED
    BY <2>6 DEF f, N, out
<1>9. CASE countForFailureDomain(f, fd) <= q
  BY <1>9 DEF N, out
<1> QED
  BY <1>7, <1>8, <1>9 DEF settled

LEMMA MaxAndMin ==
    ASSUME NEW a \in Nat, NEW b \in Nat
    PROVE  /\ Max({a, b}) \in Nat /\ (a # 0 => Max({a, b}) # 0)
           /\ Min({a, b}) \in Nat
  BY DEF Max, Min

LEMMA WithinTheShare ==
    ASSUME NEW n \in Nat, NEW u \in Nat, n # 0, u # 0, NEW c \in Nat, NEW m \in Nat,
           m <= u, c <= (n + u - 1) \div u
    PROVE  (c - 1) * m < n
<1>1. CASE c = 0
  <2>1. (c - 1) * m = 0 - m
    BY <1>1
  <2> QED
    BY <2>1
<1>2. CASE c # 0
  <2> DEFINE k == c - 1
             b == (n - 1) \div u
  <2>1. k \in Nat /\ b \in Nat /\ k <= b /\ b * u <= n - 1
    <3>1. (n + u - 1) \div u = b + 1
      BY RoundedUpIs
    <3>2. n - 1 \in Nat
      OBVIOUS
    <3>3. \A x \in Nat : x \div u \in Nat /\ (x \div u) * u <= x
      OBVIOUS
    <3>4. b \in Nat /\ b * u <= n - 1
      BY <3>2, <3>3
    <3> HIDE DEF b
    <3> QED
      BY <1>2, <3>1, <3>4
  <2> HIDE DEF k, b
  <2>2. k * m <= k * u /\ u * k <= u * b
    BY <2>1, TimesGrows
  <2> DEFINE x == k * m
             y == k * u
             z == b * u
  <2>3. x \in Nat /\ y \in Nat /\ z \in Nat /\ x <= y /\ y <= z /\ z <= n - 1
    <3>1. u * k = y /\ u * b = z
      BY <2>1
    <3>2. x \in Nat /\ y \in Nat /\ z \in Nat
      BY <2>1
    <3> QED
      BY <2>1, <2>2, <3>1, <3>2
  <2>4. x < n
    <3> HIDE DEF x, y, z
    <3> QED
      BY <2>3
  <2> QED
    BY <2>4 DEF x, k
<1> QED
  BY <1>1, <1>2

(***************************************************************************)
(* The whole mapping, when every index with Machines has one that is not   *)
(* being deleted: no failure domain has more than its share.               *)
(***************************************************************************)
isBalanced(f, fds) ==
    LET n == Cardinality(DOMAIN f)
    IN  \A fd \in fds : (countForFailureDomain(f, fd) - 1) * Min({Cardinality(fds), n}) < n

LEMMA MappingIsBalanced ==
    ASSUME NEW list \in Seq(Machine), NEW indexes, IsFiniteSet(indexes),
           indexes = {list[k].index : k \in 1..Len(list)},
           listDeletingIndexes(ToSet(list)) = {},
           NEW fds, IsFiniteSet(fds), fds \subseteq Int, fds # {}
    PROVE  isBalanced(mapMachineIndexesToFailureDomains(list, fds), fds)
<1> DEFINE mm       == mapIndexesToFailureDomainsForMachines(list)
           base     == createBaseFailureDomainMapping(fds, mm)
           r        == reconcileIndexes(base, DOMAIN mm)
           cs       == matchMachinesToCandidates(mm, r, {})
           order    == ascending(DOMAIN cs)
           out      == handled(mm, base, cs, order)[Len(order)]
           q        == maxIndexesPerFailureDomain(base)
           count    == Cardinality(DOMAIN base)
           unique   == Cardinality({base[i] : i \in DOMAIN base})
<1>1. mapMachineIndexesToFailureDomains(list, fds) = out
  BY DEF mapMachineIndexesToFailureDomains, reconcileMappings
<1>2. DOMAIN mm = indexes /\ indexes \subseteq Nat
  <2>1. \A k \in 1..Len(list) : list[k] \in Machine
    OBVIOUS
  <2>2. indexes \subseteq Nat
    BY <2>1 DEF Machine
  <2> QED
    BY <2>2, KeepsEveryIndex
<1>3. isComplete(out, indexes, fds)
  BY <1>1, MappingIsComplete
<1> HIDE DEF mm
<1>4. /\ IsFiniteSet(DOMAIN base) /\ DOMAIN base \subseteq Nat
      /\ count = Max({Replicas, Cardinality(DOMAIN mm)})
      /\ Cardinality(DOMAIN mm) <= Cardinality(DOMAIN base)
      /\ \A i \in DOMAIN base : base[i] \in fds
  BY <1>2, BaseIsComplete
<1>5. /\ q \in Nat /\ \A fd : countForFailureDomain(base, fd) <= q
      /\ Min({Cardinality(fds), count}) <= unique
  <2>1. base = createBaseFailureDomainMapping(fds, mm) /\ IsFiniteSet(DOMAIN mm)
    BY <1>2
  <2> HIDE DEF base
  <2>2. dealsEvenly(base, fds)
    BY <2>1, BaseDealsInTurn
  <2> QED
    BY <2>2 DEF dealsEvenly
<1>6. q = (count + unique - 1) \div unique
  BY DEF maxIndexesPerFailureDomain
<1> HIDE DEF base
<1>7. /\ DOMAIN mm \subseteq DOMAIN r /\ DOMAIN r \subseteq Nat /\ IsFiniteSet(DOMAIN r)
      /\ \A fd : countForFailureDomain(r, fd) <= countForFailureDomain(base, fd)
  <2>1. r = reconcileIndexes(base, DOMAIN mm) /\ IsFiniteSet(DOMAIN mm) /\ DOMAIN mm \subseteq Nat
    BY <1>2
  <2>2. /\ IsFiniteSet(DOMAIN base) /\ DOMAIN base \subseteq Nat
        /\ Cardinality(DOMAIN mm) <= Cardinality(DOMAIN base)
    BY <1>4
  <2> HIDE DEF r
  <2> QED
    BY <2>1, <2>2, RenamesIndexes
<1> HIDE DEF r
<1>8. ASSUME NEW fd
      PROVE  countForFailureDomain(out, fd) <= q /\ countForFailureDomain(out, fd) \in Nat
  <2>1. /\ DOMAIN cs \subseteq DOMAIN r /\ DOMAIN r \ DOMAIN cs \subseteq DOMAIN mm
        /\ countForFailureDomain(together(cs, mm, DOMAIN r), fd) <= countForFailureDomain(r, fd)
        /\ \A y \in DOMAIN mm \cap DOMAIN cs : noCandidate(cs, mm[y])
    BY <1>7, MatchingKeepsCounts
  <2> HIDE DEF cs
  <2>2. DOMAIN cs \in SUBSET DOMAIN r /\ DOMAIN r = DOMAIN mm \cup DOMAIN cs
    BY <1>7, <2>1
  <2>3. IsFiniteSet(DOMAIN cs) /\ DOMAIN cs \subseteq Int /\ IsFiniteSet(DOMAIN mm)
    BY <1>2, <1>7, <2>2, FS_Subset, Nat \subseteq Int
  <2>4. isListing(order, DOMAIN cs)
    BY <2>3, AscendingIsListing
  <2>5. countForFailureDomain(together(cs, mm, DOMAIN r), fd) <= q
    <3>1. /\ countForFailureDomain(base, fd) \in Nat /\ countForFailureDomain(r, fd) \in Nat
      BY <1>4, <1>7, CountsFewer
    <3>2. countForFailureDomain(together(cs, mm, DOMAIN r), fd) \in Nat
      <4> DEFINE f == together(cs, mm, DOMAIN r)
      <4>1. IsFiniteSet(DOMAIN f)
        BY <1>7 DEF together
      <4> HIDE DEF f
      <4> QED
        BY <4>1, CountsFewer DEF f
    <3> QED
      BY <1>5, <1>7, <2>1, <3>1, <3>2
  <2> HIDE DEF order, q
  <2>6. q = maxIndexesPerFailureDomain(base)
    BY DEF q
  <2>7. countForFailureDomain(out, fd) <= q
    BY <1>5, <2>1, <2>2, <2>3, <2>4, <2>5, <2>6, HandlingBalances
  <2>8. IsFiniteSet(DOMAIN out)
    BY <1>3 DEF isComplete
  <2> HIDE DEF out
  <2>9. countForFailureDomain(out, fd) \in Nat
    BY <2>8, CountsFewer
  <2> QED
    BY <2>7, <2>9
<1>9. Cardinality(DOMAIN out) = count
  BY <1>2, <1>3, <1>4 DEF isComplete
<1>10. count \in Nat /\ count # 0
  <2>1. Replicas \in Nat /\ Replicas # 0 /\ Cardinality(DOMAIN mm) \in Nat
    BY <1>2, ReplicasAssumption, FS_CardinalityType
  <2> QED
    BY <1>4, <2>1, MaxAndMin
<1>11. unique \in Nat /\ unique # 0
  <2> DEFINE listed == {base[i] : i \in DOMAIN base}
  <2>1. listed \in SUBSET fds /\ listed # {}
    <3>1. DOMAIN base # {}
      BY <1>10, FS_EmptySet
    <3> QED
      BY <1>4, <3>1
  <2> HIDE DEF listed
  <2>2. Cardinality(listed) \in Nat /\ Cardinality(listed) # 0
    BY <2>1, FS_Subset, FS_CardinalityType, FS_EmptySet
  <2> QED
    BY <2>2 DEF listed
<1> HIDE DEF out, unique, count, q
<1>12. Min({Cardinality(fds), count}) \in Nat
  BY <1>10, FS_CardinalityType, MaxAndMin
<1>13. ASSUME NEW fd \in fds
       PROVE  (countForFailureDomain(out, fd) - 1) * Min({Cardinality(fds), count}) < count
  <2>1. countForFailureDomain(out, fd) <= (count + unique - 1) \div unique
    BY <1>6, <1>8
  <2> QED
    BY <1>5, <1>8, <1>10, <1>11, <1>12, <2>1, WithinTheShare
<1> QED
  BY <1>1, <1>9, <1>13 DEF isBalanced

=============================================================================
