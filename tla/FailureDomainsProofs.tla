------------------------ MODULE FailureDomainsProofs ------------------------
(***************************************************************************)
(* Proofs about FailureDomains, for every number of replicas and Machines  *)
(* and every length of a list of failure domains.                          *)
(***************************************************************************)
EXTENDS FailureDomains, IndexMappingProofs

-----------------------------------------------------------------------------
(***************************************************************************)
(* The fields of the platforms.                                            *)
(***************************************************************************)
LEMMA PlatformFields ==
    ASSUME platform \in Platform
    PROVE  /\ platform \in {"AWS", "Azure"} => fields = {"zone", "subnet"}
           /\ platform = "GCP" => fields = {"zone"}
           /\ platform = "OpenStack" => fields = {"zone", "rootZone", "rootType"}
           /\ platform \in {"VSphere", "Nutanix"} => fields = {"name"}
           /\ platform = "UnknownPlatform" => fields = {}
<1>1. ASSUME NEW a PROVE ToSet(<<a>>) = {a}
  BY DEF ToSet
<1>2. ASSUME NEW a, NEW b PROVE ToSet(<<a, b>>) = {a, b}
  BY DEF ToSet
<1>3. ASSUME NEW a, NEW b, NEW c PROVE ToSet(<<a, b, c>>) = {a, b, c}
  BY DEF ToSet
<1>4. ToSet(<< >>) = {}
  BY DEF ToSet
<1>5. CASE platform \in {"AWS", "Azure"}
  BY <1>2, <1>5 DEF fields, fieldsOf
<1>6. CASE platform = "GCP"
  BY <1>1, <1>6 DEF fields, fieldsOf
<1>7. CASE platform = "OpenStack"
  BY <1>3, <1>7 DEF fields, fieldsOf
<1>8. CASE platform \in {"VSphere", "Nutanix"}
  BY <1>1, <1>8 DEF fields, fieldsOf
<1>9. CASE platform = "UnknownPlatform"
  BY <1>4, <1>9 DEF fields, fieldsOf
<1> QED
  BY <1>5, <1>6, <1>7, <1>8, <1>9 DEF Platform

(***************************************************************************)
(* A failure domain put together out of two others and empty fields.       *)
(***************************************************************************)
LEMMA MixesDomains ==
    ASSUME NEW a \in FailureDomain, NEW b \in FailureDomain, NEW f, isFunction(f),
           DOMAIN f = fields, \A k \in fields : f[k] \in {"", a[k], b[k]}
    PROVE  f \in FailureDomain
  BY DEF FailureDomain, isFunction, Value

LEMMA UnsetIsDomain == unsetDomain \in FailureDomain
  BY DEF unsetDomain, FailureDomain, Value

LEMMA CompleteIsDomain ==
    ASSUME NEW fd \in FailureDomain, NEW t \in FailureDomain
    PROVE  Complete(fd, t) \in FailureDomain
<1>1. /\ isFunction(Complete(fd, t)) /\ DOMAIN Complete(fd, t) = fields
      /\ \A k \in fields : Complete(fd, t)[k] \in {"", fd[k], t[k]}
  BY DEF Complete, isFunction
<1> QED
  BY <1>1, MixesDomains

LEMMA ExtractIsDomain ==
    ASSUME NEW c \in Config
    PROVE  ExtractFailureDomain(c) \in FailureDomain
<1>1. /\ isFunction(ExtractFailureDomain(c)) /\ DOMAIN ExtractFailureDomain(c) = fields
      /\ \A k \in fields : ExtractFailureDomain(c)[k] \in {"", c.domain[k], c.domain[k]}
  BY DEF ExtractFailureDomain, isFunction
<1> QED
  BY <1>1, MixesDomains DEF Config

LEMMA NetworkIsTyped ==
    ASSUME NEW c \in Config, NEW fd \in FailureDomain
    PROVE  secondNetwork(c, fd) \in {"none"} \cup Value
<1>1. c.second \in {"none"} \cup Value
  BY DEF Config
<1>2. platform = "VSphere" => fd["name"] \in Value
  BY PlatformFields DEF Platform, FailureDomain
<1> QED
  BY <1>1, <1>2 DEF secondNetwork

LEMMA InjectIsConfig ==
    ASSUME NEW c \in Config, NEW fd \in FailureDomain
    PROVE  InjectFailureDomain(c, fd) \in Config
<1> DEFINE takes(k) == fd[k] # "" /\ (k \in rootFields => c.root)
           d == [k \in fields |-> IF takes(k) THEN fd[k] ELSE c.domain[k]]
<1>1. d \in FailureDomain
  <2>1. isFunction(d) /\ DOMAIN d = fields /\ \A k \in fields : d[k] \in {"", fd[k], c.domain[k]}
    BY DEF isFunction
  <2> HIDE DEF d
  <2> QED
    BY <2>1, MixesDomains DEF Config
<1> DEFINE n == secondNetwork(c, fd)
<1>2. InjectFailureDomain(c, fd) = [c EXCEPT !.domain = d, !.second = n]
  BY DEF InjectFailureDomain
<1>3. n \in {"none"} \cup Value
  BY NetworkIsTyped
<1> HIDE DEF d, n
<1> QED
  BY <1>1, <1>2, <1>3 DEF Config

LEMMA AfterInjectionIsConfig ==
    ASSUME NEW c \in Config, NEW i \in Config
    PROVE  afterInjection(c, i) \in Config
<1> DEFINE d == [k \in fields |-> IF k \in rootFields THEN i.domain[k] ELSE c.domain[k]]
<1>1. d \in FailureDomain
  <2>1. isFunction(d) /\ DOMAIN d = fields /\ \A k \in fields : d[k] \in {"", i.domain[k], c.domain[k]}
    BY DEF isFunction
  <2> HIDE DEF d
  <2> QED
    BY <2>1, MixesDomains DEF Config
<1> DEFINE n == IF c.pools > 0 /\ c.second # "none" THEN i.second ELSE c.second
<1>2. afterInjection(c, i) = [c EXCEPT !.domain = d, !.second = n]
  BY DEF afterInjection
<1>3. n \in {"none"} \cup Value
  BY DEF Config
<1> HIDE DEF d, n
<1> QED
  BY <1>1, <1>2, <1>3 DEF Config

LEMMA WithoutIsConfig ==
    ASSUME NEW c \in Config, NEW S
    PROVE  without(c, S) \in Config
<1> DEFINE d == clear(c.domain, S)
<1>1. d \in FailureDomain
  <2>1. isFunction(d) /\ DOMAIN d = fields /\ \A k \in fields : d[k] \in {"", c.domain[k], c.domain[k]}
    BY DEF isFunction, clear
  <2> HIDE DEF d
  <2> QED
    BY <2>1, MixesDomains DEF Config
<1> DEFINE n == IF "name" \in S THEN unnamed(c.pools) ELSE c.second
<1>2. without(c, S) = [c EXCEPT !.domain = d, !.second = n]
  BY DEF without
<1>3. n \in {"none"} \cup Value
  BY DEF Config, unnamed, Value
<1> HIDE DEF d, n
<1> QED
  BY <1>1, <1>2, <1>3 DEF Config

(***************************************************************************)
(* Failure domains have different numbers.                                 *)
(***************************************************************************)
LEMMA NumbersDiffer ==
    ASSUME platform \in Platform
    PROVE  /\ \A fd \in FailureDomain : number(fd) \in Int
           /\ \A x, y \in FailureDomain : number(x) = number(y) => x = y
<1>1. /\ \A v \in Value : digit(v) \in 0..2
      /\ \A v, w \in Value : digit(v) = digit(w) => v = w
  <2>1. digit("") = 0
    BY DEF digit
  <2>2. digit("a") = 1
    BY DEF digit
  <2>3. digit("b") = 2
    BY DEF digit
  <2>4. ASSUME NEW v \in Value, NEW w \in Value
        PROVE  digit(v) \in 0..2 /\ (digit(v) = digit(w) => v = w)
    <3>1. v = "" \/ v = "a" \/ v = "b"
      BY DEF Value
    <3>2. w = "" \/ w = "a" \/ w = "b"
      BY DEF Value
    <3>3. 0 # 1 /\ 0 # 2 /\ 1 # 2 /\ 0..2 = {0, 1, 2}
      OBVIOUS
    <3> QED
      BY <2>1, <2>2, <2>3, <3>1, <3>2, <3>3, Zenon
  <2> QED
    BY <2>4
<1>2. \A fd \in FailureDomain : fd = [k \in fields |-> fd[k]] /\ \A k \in fields : fd[k] \in Value
  BY DEF FailureDomain
<1>3. CASE platform \in {"AWS", "Azure"}
  <2>1. fieldsOf(platform) = <<"zone", "subnet">> /\ fields = {"zone", "subnet"}
    BY <1>3, PlatformFields DEF fieldsOf
  <2>2. \A fd : number(fd) = 9 * digit(fd["zone"]) + 3 * digit(fd["subnet"]) + 0
    BY <2>1 DEF number
  <2>3. ASSUME NEW x \in FailureDomain, NEW y \in FailureDomain, number(x) = number(y)
        PROVE  x = y
    <3>1. \A k \in {"zone", "subnet"} : digit(x[k]) = digit(y[k])
      BY <1>1, <1>2, <2>1, <2>2, <2>3
    <3> QED
      BY <1>1, <1>2, <2>1, <3>1
  <2> QED
    BY <1>1, <1>2, <2>1, <2>2, <2>3
<1>4. CASE platform = "GCP"
  <2>1. fieldsOf(platform) = <<"zone">> /\ fields = {"zone"}
    BY <1>4, PlatformFields DEF fieldsOf
  <2>2. \A fd : number(fd) = 9 * digit(fd["zone"]) + 3 * 0 + 0
    BY <2>1 DEF number
  <2>3. ASSUME NEW x \in FailureDomain, NEW y \in FailureDomain, number(x) = number(y)
        PROVE  x = y
    <3>1. digit(x["zone"]) = digit(y["zone"])
      BY <1>1, <1>2, <2>1, <2>2, <2>3
    <3> QED
      BY <1>1, <1>2, <2>1, <3>1
  <2> QED
    BY <1>1, <1>2, <2>1, <2>2, <2>3
<1>5. CASE platform = "OpenStack"
  <2>1. /\ fieldsOf(platform) = <<"zone", "rootZone", "rootType">>
        /\ fields = {"zone", "rootZone", "rootType"}
    BY <1>5, PlatformFields DEF fieldsOf
  <2>2. \A fd : number(fd) = 9 * digit(fd["zone"]) + 3 * digit(fd["rootZone"]) + digit(fd["rootType"])
    BY <2>1 DEF number
  <2>3. ASSUME NEW x \in FailureDomain, NEW y \in FailureDomain, number(x) = number(y)
        PROVE  x = y
    <3>1. \A k \in {"zone", "rootZone", "rootType"} : digit(x[k]) = digit(y[k])
      BY <1>1, <1>2, <2>1, <2>2, <2>3
    <3> QED
      BY <1>1, <1>2, <2>1, <3>1
  <2> QED
    BY <1>1, <1>2, <2>1, <2>2, <2>3
<1>6. CASE platform \in {"VSphere", "Nutanix"}
  <2>1. fieldsOf(platform) = <<"name">> /\ fields = {"name"}
    BY <1>6, PlatformFields DEF fieldsOf
  <2>2. \A fd : number(fd) = 9 * digit(fd["name"]) + 3 * 0 + 0
    BY <2>1 DEF number
  <2>3. ASSUME NEW x \in FailureDomain, NEW y \in FailureDomain, number(x) = number(y)
        PROVE  x = y
    <3>1. digit(x["name"]) = digit(y["name"])
      BY <1>1, <1>2, <2>1, <2>2, <2>3
    <3> QED
      BY <1>1, <1>2, <2>1, <3>1
  <2> QED
    BY <1>1, <1>2, <2>1, <2>2, <2>3
<1>7. CASE platform = "UnknownPlatform"
  <2>1. fieldsOf(platform) = << >> /\ fields = {}
    BY <1>7, PlatformFields DEF fieldsOf
  <2>2. \A fd : number(fd) = 9 * 0 + 3 * 0 + 0
    BY <2>1 DEF number
  <2> QED
    BY <1>2, <2>1, <2>2
<1> QED
  BY <1>3, <1>4, <1>5, <1>6, <1>7 DEF Platform

(***************************************************************************)
(* Lists of failure domains.                                               *)
(***************************************************************************)
LEMMA ToSetOfListing ==
    ASSUME NEW s, NEW S, isListing(s, S)
    PROVE  ToSet(s) = S /\ s \in Seq(S) /\ (s = << >> <=> S = {})
<1>1. /\ s \in Seq(S) /\ \A x \in S : \E k \in 1..Len(s) : s[k] = x
  BY DEF isListing
<1>2. DOMAIN s = 1..Len(s) /\ \A k \in 1..Len(s) : s[k] \in S
  BY <1>1
<1>3. ToSet(s) = S
  BY <1>1, <1>2 DEF ToSet
<1>4. ASSUME S = {}
      PROVE  s = << >>
  <2>1. Len(s) = 0
    BY <1>1, <1>2, <1>4
  <2> QED
    BY <1>1, <2>1
<1>5. ASSUME s = << >>
      PROVE  S = {}
  BY <1>1, <1>5
<1> QED
  BY <1>1, <1>3, <1>4, <1>5

LEMMA ListIsListing ==
    ASSUME platform \in Platform, NEW set, set \subseteq FailureDomain, IsFiniteSet(set)
    PROVE  ToSet(List(set)) = set /\ List(set) \in Seq(set) /\ (List(set) = << >> <=> set = {})
<1> DEFINE key == [fd \in set |-> number(fd)]
<1>1. key \in [set -> Int] /\ \A x, y \in set : key[x] = key[y] => x = y
  BY NumbersDiffer
<1>2. List(set) = sortedBy(set, key)
  BY DEF List
<1> HIDE DEF key
<1>3. isListing(List(set), set)
  BY <1>1, <1>2, SortedIsListing
<1> QED
  BY <1>3, ToSetOfListing

LEMMA ToSetIsFinite ==
    ASSUME NEW T, NEW s \in Seq(T)
    PROVE  /\ IsFiniteSet(ToSet(s)) /\ ToSet(s) \subseteq T
           /\ Cardinality(ToSet(s)) <= Len(s) /\ (ToSet(s) = {} <=> s = << >>)
<1>1. DOMAIN s = 1..Len(s) /\ \A k \in 1..Len(s) : s[k] \in T
  OBVIOUS
<1>2. s \in Surjection(1..Len(s), ToSet(s))
  <2>1. s = [k \in 1..Len(s) |-> s[k]] /\ ToSet(s) = {s[k] : k \in 1..Len(s)}
    BY <1>1 DEF ToSet
  <2> QED
    BY <2>1 DEF Surjection
<1>3. Len(s) \in Nat /\ IsFiniteSet(1..Len(s)) /\ Cardinality(1..Len(s)) = Len(s)
  <2> DEFINE n == Len(s)
  <2>1. n \in Nat
    OBVIOUS
  <2> HIDE DEF n
  <2>2. IsFiniteSet(1..n) /\ Cardinality(1..n) = n
    BY <2>1, FS_Interval
  <2> QED
    BY <2>1, <2>2 DEF n
<1>4. IsFiniteSet(ToSet(s)) /\ Cardinality(ToSet(s)) <= Len(s)
  BY <1>2, <1>3, FS_Surjection
<1>5. ToSet(s) \subseteq T
  BY <1>1 DEF ToSet
<1>6. ToSet(s) = {} <=> s = << >>
  <2>1. ToSet(s) = {} <=> Len(s) = 0
    <3>1. ToSet(s) = {s[k] : k \in 1..Len(s)}
      BY <1>1 DEF ToSet
    <3>2. 1..Len(s) = {} <=> Len(s) = 0
      BY <1>3
    <3> QED
      BY <3>1, <3>2
  <2>2. Len(s) = 0 <=> s = << >>
    OBVIOUS
  <2> QED
    BY <2>1, <2>2
<1> QED
  BY <1>4, <1>5, <1>6

-----------------------------------------------------------------------------
(***************************************************************************)
(* The mapping of the provider.                                            *)
(***************************************************************************)
placed ==
    /\ platform \in Platform
    /\ machines \in Seq(Config) /\ Len(machines) \in 1..Replicas

specified(t) == ToSet(CompleteFailureDomains(cpms.domains, ExtractFailureDomain(t)))

LEMMA SpecifiedDomains ==
    ASSUME cpms.domains \in Seq(FailureDomain), NEW t \in Config
    PROVE  /\ specified(t) = {Complete(d, ExtractFailureDomain(t)) : d \in ToSet(cpms.domains)}
           /\ specified(t) \subseteq FailureDomain /\ IsFiniteSet(specified(t))
           /\ specified(t) = {} <=> cpms.domains = << >>
<1> DEFINE ds == cpms.domains
           e  == ExtractFailureDomain(t)
           s  == CompleteFailureDomains(ds, e)
<1>1. e \in FailureDomain
  BY ExtractIsDomain
<1>2. /\ Len(ds) \in Nat /\ DOMAIN ds = 1..Len(ds)
      /\ \A n \in 1..Len(ds) : ds[n] \in FailureDomain
  OBVIOUS
<1>3. s = [n \in 1..Len(ds) |-> Complete(ds[n], e)]
  BY <1>2 DEF CompleteFailureDomains
<1> HIDE DEF ds, e
<1>4. \A n \in 1..Len(ds) : Complete(ds[n], e) \in FailureDomain
  BY <1>1, <1>2, CompleteIsDomain
<1>5. s \in Seq(FailureDomain) /\ Len(s) = Len(ds)
  BY <1>2, <1>3, <1>4
<1>6. ToSet(s) = {Complete(d, e) : d \in ToSet(ds)}
  BY <1>2, <1>3 DEF ToSet
<1>7. s = << >> <=> ds = << >>
  <2>1. s = << >> <=> Len(s) = 0
    BY <1>5
  <2>2. ds \in Seq(FailureDomain)
    BY DEF ds
  <2>3. ds = << >> <=> Len(ds) = 0
    BY <2>2
  <2> QED
    BY <1>5, <2>1, <2>3
<1> HIDE DEF s
<1>8. /\ IsFiniteSet(ToSet(s)) /\ ToSet(s) \subseteq FailureDomain
      /\ (ToSet(s) = {} <=> s = << >>)
  BY <1>5, ToSetIsFinite
<1> QED
  BY <1>6, <1>7, <1>8 DEF specified, ds, e, s

LEMMA MachineListIsList ==
    ASSUME placed
    PROVE  /\ machineList \in Seq(Machine) /\ Len(machineList) = Len(machines)
           /\ {machineList[k].index : k \in 1..Len(machineList)} = 0..(Len(machines) - 1)
           /\ \A j, k \in 1..Len(machineList) : machineList[j].index = machineList[k].index => j = k
           /\ \A k \in 1..Len(machineList) :
                 /\ machineList[k].index = k - 1
                 /\ machineList[k].fd = number(ExtractFailureDomain(machines[k]))
<1> DEFINE N == Len(machines)
           list == machineList
<1>1. /\ N \in Nat /\ DOMAIN machines = 1..N /\ platform \in Platform
      /\ \A k \in 1..N : machines[k] \in Config
  BY DEF placed
<1> HIDE DEF N
<1>2. list = [k \in 1..N |-> [index |-> k - 1, fd |-> number(ExtractFailureDomain(machines[k])),
                                     created |-> N - k, deleted |-> FALSE]]
  BY <1>1 DEF machineList, getMachineFailureDomains, N
<1> HIDE DEF list
<1>3. ASSUME NEW k \in 1..N
      PROVE  /\ list[k] \in Machine /\ list[k].index = k - 1
             /\ list[k].fd = number(ExtractFailureDomain(machines[k]))
  <2>1. number(ExtractFailureDomain(machines[k])) \in Int
    BY <1>1, ExtractIsDomain, NumbersDiffer
  <2>2. k - 1 \in Nat /\ N - k \in Nat
    BY <1>1
  <2> QED
    BY <1>2, <2>1, <2>2 DEF Machine
<1>4. list \in Seq(Machine) /\ Len(list) = N
  BY <1>1, <1>2, <1>3
<1>5. {list[k].index : k \in 1..N} = 0..(N - 1)
  <2>1. \A i \in 0..(N - 1) : i + 1 \in 1..N /\ (i + 1) - 1 = i
    BY <1>1
  <2>2. \A k \in 1..N : k - 1 \in 0..(N - 1)
    BY <1>1
  <2>3. ASSUME NEW i \in 0..(N - 1)
        PROVE  i \in {list[k].index : k \in 1..N}
    BY <1>3, <2>1
  <2> QED
    BY <1>3, <2>2, <2>3
<1>6. \A j, k \in 1..N : list[j].index = list[k].index => j = k
  BY <1>1, <1>3
<1> QED
  BY <1>3, <1>4, <1>5, <1>6 DEF N, list

LEMMA MapsToSpecified ==
    ASSUME placed, cpms.domains \in Seq(FailureDomain), NEW t \in Config,
           cpms.domains # << >>
    PROVE  /\ DOMAIN indexToFailureDomain(t) = 0..(Replicas - 1)
           /\ \A i \in 0..(Replicas - 1) :
                 /\ indexToFailureDomain(t)[i] \in specified(t)
                 /\ number(indexToFailureDomain(t)[i]) =
                      mapMachineIndexesToFailureDomains(machineList,
                          {number(fd) : fd \in specified(t)})[i]
<1> DEFINE T        == specified(t)
           fds      == {number(fd) : fd \in T}
           byNumber == mapMachineIndexesToFailureDomains(machineList, fds)
           indexes  == {machineList[k].index : k \in 1..Len(machineList)}
<1>1. T \subseteq FailureDomain /\ IsFiniteSet(T) /\ T # {}
  BY SpecifiedDomains
<1>2. indexToFailureDomain(t) =
          [i \in DOMAIN byNumber |-> CHOOSE fd \in T : number(fd) = byNumber[i]]
  BY DEF indexToFailureDomain, specified
<1> HIDE DEF T
<1>3. IsFiniteSet(fds) /\ fds \subseteq Int /\ fds # {}
  <2> DEFINE f == [fd \in T |-> number(fd)]
  <2>1. f \in Surjection(T, fds)
    BY DEF Surjection
  <2>2. fds \subseteq Int /\ fds # {}
    BY <1>1, NumbersDiffer DEF placed
  <2> HIDE DEF f, fds
  <2> QED
    BY <1>1, <2>1, <2>2, FS_Surjection
<1>4. /\ machineList \in Seq(Machine) /\ indexes = 0..(Len(machines) - 1)
      /\ Len(machines) \in Nat /\ Len(machines) <= Replicas /\ Replicas \in Nat
  BY MachineListIsList, ReplicasAssumption DEF placed
<1>5. IsFiniteSet(indexes) /\ indexes \subseteq 0..(Replicas - 1)
  <2>1. indexes \subseteq 0..(Replicas - 1)
    BY <1>4
  <2>2. Len(machines) - 1 \in Int
    BY <1>4
  <2>3. IsFiniteSet(0..(Len(machines) - 1))
    BY <2>2, FS_Interval
  <2> QED
    BY <1>4, <2>1, <2>3
<1>6. isComplete(byNumber, indexes, fds)
  <2> HIDE DEF fds
  <2> QED
    BY <1>3, <1>4, <1>5, MappingIsComplete
<1> HIDE DEF byNumber, indexes
<1>7. DOMAIN byNumber = 0..(Replicas - 1) /\ \A i \in DOMAIN byNumber : byNumber[i] \in fds
  BY <1>5, <1>6 DEF isComplete
<1>8. ASSUME NEW i \in 0..(Replicas - 1)
      PROVE  /\ indexToFailureDomain(t)[i] \in T
             /\ number(indexToFailureDomain(t)[i]) = byNumber[i]
  <2>1. \E fd \in T : number(fd) = byNumber[i]
    BY <1>7
  <2>2. indexToFailureDomain(t)[i] = CHOOSE fd \in T : number(fd) = byNumber[i]
    BY <1>2, <1>7
  <2> QED
    BY <2>1, <2>2
<1> QED
  BY <1>2, <1>7, <1>8 DEF byNumber, T

-----------------------------------------------------------------------------
(***************************************************************************)
(* What the generator writes.                                              *)
(***************************************************************************)
LEMMA MachineDomains ==
    ASSUME placed
    PROVE  /\ ExtractFailureDomainsFromMachines =
                  {ExtractFailureDomain(machines[k]) : k \in 1..Len(machines)}
           /\ ExtractFailureDomainsFromMachines \subseteq FailureDomain
           /\ IsFiniteSet(ExtractFailureDomainsFromMachines)
           /\ ExtractFailureDomainsFromMachines # {}
           /\ getMachineFailureDomains \in Seq(FailureDomain)
           /\ Len(getMachineFailureDomains) = Len(machines)
           /\ \A k \in 1..Len(machines) :
                 getMachineFailureDomains[k] = ExtractFailureDomain(machines[k])
           /\ 1 \in 1..Len(machines) /\ machines[1] \in Config
<1> DEFINE N == Len(machines)
           g == getMachineFailureDomains
<1>1. /\ N \in Nat /\ N # 0 /\ DOMAIN machines = 1..N
      /\ \A k \in 1..N : machines[k] \in Config
  BY DEF placed
<1> HIDE DEF N
<1>2. g = [k \in 1..N |-> ExtractFailureDomain(machines[k])]
  BY <1>1 DEF getMachineFailureDomains
<1> HIDE DEF g
<1>3. \A k \in 1..N : g[k] = ExtractFailureDomain(machines[k]) /\ g[k] \in FailureDomain
  BY <1>1, <1>2, ExtractIsDomain
<1>4. g \in Seq(FailureDomain) /\ Len(g) = N /\ DOMAIN g = 1..N
  BY <1>1, <1>2, <1>3
<1>5. ToSet(g) = {ExtractFailureDomain(machines[k]) : k \in 1..N}
  BY <1>3, <1>4 DEF ToSet
<1>6. 1 \in 1..N
  BY <1>1
<1>7. IsFiniteSet(ToSet(g)) /\ ToSet(g) \subseteq FailureDomain
  BY <1>4, ToSetIsFinite
<1> QED
  BY <1>1, <1>3, <1>4, <1>5, <1>6, <1>7 DEF ExtractFailureDomainsFromMachines, g, N

LEMMA ClearIsDomain ==
    ASSUME NEW fd \in FailureDomain, NEW S
    PROVE  clear(fd, S) \in FailureDomain
<1>1. /\ isFunction(clear(fd, S)) /\ DOMAIN clear(fd, S) = fields
      /\ \A k \in fields : clear(fd, S)[k] \in {"", fd[k], fd[k]}
  BY DEF clear, isFunction
<1> QED
  BY <1>1, MixesDomains

(***************************************************************************)
(* The failure domains the generator lists, as a set.                      *)
(***************************************************************************)
generated ==
    LET fds == ExtractFailureDomainsFromMachines
    IN  CASE platform \in {"AWS", "GCP"} -> fds
          [] platform = "Azure"          -> IF Cardinality(fds) <= 1 THEN {}
                                            ELSE {clear(fd, matching(fds)) : fd \in fds}
          [] platform = "OpenStack"      -> fds \ {unsetDomain}
          [] OTHER                       -> {fd \in fds : fd["name"] # ""}

LEMMA GeneratedDomains ==
    ASSUME placed, platform # "UnknownPlatform"
    PROVE  /\ generated \subseteq FailureDomain /\ IsFiniteSet(generated)
           /\ buildFailureDomains \in Seq(FailureDomain)
           /\ ToSet(buildFailureDomains) = generated
           /\ buildFailureDomains = << >> <=> generated = {}
<1> DEFINE D == ExtractFailureDomainsFromMachines
<1>1. D \subseteq FailureDomain /\ IsFiniteSet(D) /\ platform \in Platform
  BY MachineDomains DEF placed
<1> HIDE DEF D
<1>2. ASSUME NEW S, S \subseteq FailureDomain, IsFiniteSet(S), generated = S,
             buildFailureDomains = List(S)
      PROVE  /\ generated \subseteq FailureDomain /\ IsFiniteSet(generated)
             /\ buildFailureDomains \in Seq(FailureDomain)
             /\ ToSet(buildFailureDomains) = generated
             /\ buildFailureDomains = << >> <=> generated = {}
  <2>1. ToSet(List(S)) = S /\ List(S) \in Seq(S) /\ (List(S) = << >> <=> S = {})
    BY <1>1, <1>2, ListIsListing
  <2>2. List(S) \in Seq(FailureDomain)
    BY <1>2, <2>1
  <2> QED
    BY <1>2, <2>1, <2>2
<1>3. CASE platform = "AWS" \/ platform = "GCP"
  <2>1. generated = D /\ buildFailureDomains = List(D)
    BY <1>3 DEF generated, buildFailureDomains, buildAWSFailureDomains, buildGCPFailureDomains, D
  <2> QED
    BY <1>1, <1>2, <2>1
<1>4. CASE platform = "OpenStack"
  <2> DEFINE S == D \ {unsetDomain}
  <2>1. generated = S /\ buildFailureDomains = List(S)
    BY <1>4 DEF generated, buildFailureDomains, buildOpenStackFailureDomains, D
  <2>2. S \in SUBSET D
    OBVIOUS
  <2> HIDE DEF S
  <2> QED
    BY <1>1, <1>2, <2>1, <2>2, FS_Subset
<1>5. CASE platform = "VSphere" \/ platform = "Nutanix"
  <2> DEFINE S == {fd \in D : fd["name"] # ""}
  <2>1. generated = S /\ buildFailureDomains = List(S)
    BY <1>5 DEF generated, buildFailureDomains, buildVSphereFailureDomains,
                buildNutanixFailureDomains, D
  <2>2. S \in SUBSET D
    OBVIOUS
  <2> HIDE DEF S
  <2> QED
    BY <1>1, <1>2, <2>1, <2>2, FS_Subset
<1>6. CASE platform = "Azure" /\ Cardinality(D) <= 1
  <2>1. generated = {} /\ buildFailureDomains = << >>
    BY <1>6 DEF generated, buildFailureDomains, buildAzureFailureDomains, D
  <2>2. IsFiniteSet({}) /\ << >> \in Seq(FailureDomain) /\ ToSet(<< >>) = {}
    BY FS_EmptySet DEF ToSet
  <2> QED
    BY <2>1, <2>2
<1>7. CASE platform = "Azure" /\ ~(Cardinality(D) <= 1)
  <2> DEFINE S == {clear(fd, matching(D)) : fd \in D}
             f == [fd \in D |-> clear(fd, matching(D))]
  <2>1. generated = S /\ buildFailureDomains = List(S)
    BY <1>7 DEF generated, buildFailureDomains, buildAzureFailureDomains, D
  <2>2. S \subseteq FailureDomain
    BY <1>1, ClearIsDomain
  <2>3. f \in Surjection(D, S)
    BY DEF Surjection
  <2> HIDE DEF S, f
  <2>4. IsFiniteSet(S)
    BY <1>1, <2>3, FS_Surjection
  <2> QED
    BY <1>2, <2>1, <2>2, <2>4
<1> QED
  BY <1>1, <1>3, <1>4, <1>5, <1>6, <1>7 DEF Platform

(***************************************************************************)
(* The fields its template lacks.                                          *)
(***************************************************************************)
stripped ==
    CASE platform \in {"AWS", "GCP"}            -> fields
      [] platform = "Azure"                     ->
            fields \ matching({machines[k].domain : k \in DOMAIN machines})
      [] platform \in {"OpenStack", "Nutanix"}  -> IF buildFailureDomains = << >> THEN {} ELSE fields
      [] OTHER                                  -> IF infra.defined = {} THEN {} ELSE fields

LEMMA GeneratedTemplate ==
    ASSUME placed, platform # "UnknownPlatform"
    PROVE  generateControlPlaneMachineSet =
               [domains |-> buildFailureDomains, active |-> FALSE, author |-> "generator",
                template |-> without(machines[1], stripped)]
<1> DEFINE fds == buildFailureDomains
           c   == machines[1]
<1>1. platform \in Platform
  BY DEF placed
<1>2. machineSpec(c, fds) = without(c, stripped)
  <2>1. CASE platform \in {"AWS", "GCP"}
    BY <2>1 DEF machineSpec, stripped, buildControlPlaneMachineSetAWSMachineSpec,
                buildControlPlaneMachineSetGCPMachineSpec
  <2>2. CASE platform = "Azure"
    BY <2>2 DEF machineSpec, stripped, buildControlPlaneMachineSetAzureMachineSpec
  <2>3. CASE platform = "OpenStack"
    BY <2>3 DEF machineSpec, stripped, buildControlPlaneMachineSetOpenStackMachineSpec
  <2>4. CASE platform = "Nutanix"
    BY <2>4 DEF machineSpec, stripped, buildControlPlaneMachineSetNutanixMachineSpec
  <2>5. CASE platform = "VSphere"
    BY <2>5 DEF machineSpec, stripped, buildControlPlaneMachineSetVSphereMachineSpec
  <2> QED
    BY <1>1, <2>1, <2>2, <2>3, <2>4, <2>5 DEF Platform
<1> QED
  BY <1>2 DEF generateControlPlaneMachineSet

-----------------------------------------------------------------------------
(***************************************************************************)
(* Types.  A mapping is empty or has an index for every replica, so every  *)
(* index that is configured has a failure domain.                          *)
(***************************************************************************)
covers(m) == m = << >> \/ DOMAIN m = 0..(Replicas - 1)

TypeInv == TypeOK /\ placed /\ covers(mapping) /\ covers(uncached)

Info == [fd : FailureDomain, want : Config, needsUpdate : BOOLEAN]

LEMMA MappingHasType ==
    ASSUME placed, cpms.domains \in Seq(FailureDomain), NEW t \in Config
    PROVE  /\ indexToFailureDomain(t) \in [DOMAIN indexToFailureDomain(t) -> FailureDomain]
           /\ covers(indexToFailureDomain(t))
<1>2. CASE cpms.domains = << >>
  <2>1. indexToFailureDomain(t) = << >>
    BY <1>2 DEF indexToFailureDomain
  <2>2. << >> \in [DOMAIN << >> -> FailureDomain]
    <3>1. DOMAIN << >> = {} /\ << >> = [x \in {} |-> x]
      OBVIOUS
    <3> QED
      BY <3>1
  <2> QED
    BY <2>1, <2>2 DEF covers
<1>3. CASE cpms.domains # << >>
  <2>3. isFunction(indexToFailureDomain(t))
    <3> DEFINE T        == specified(t)
               byNumber == mapMachineIndexesToFailureDomains(machineList, {number(fd) : fd \in T})
    <3>1. indexToFailureDomain(t) =
              [i \in DOMAIN byNumber |-> CHOOSE fd \in T : number(fd) = byNumber[i]]
      BY <1>3 DEF indexToFailureDomain, specified
    <3> HIDE DEF byNumber, T
    <3> QED
      BY <3>1 DEF isFunction
  <2>1. /\ DOMAIN indexToFailureDomain(t) = 0..(Replicas - 1)
        /\ \A i \in 0..(Replicas - 1) : indexToFailureDomain(t)[i] \in specified(t)
    BY <1>3, MapsToSpecified
  <2>2. specified(t) \subseteq FailureDomain
    BY SpecifiedDomains
  <2> QED
    BY <2>1, <2>2, <2>3 DEF covers, isFunction
<1> QED
  BY <1>2, <1>3

LEMMA ConfiguresTypes ==
    ASSUME TypeInv, NEW m, m \in [DOMAIN m -> FailureDomain], covers(m),
           NEW i \in 0..(Replicas - 1), NEW compared, configures(m, i, compared)
    PROVE  raw' \in Config /\ config' \in Config /\ infos' \in [DOMAIN infos' -> Info]
<1> DEFINE fd   == failureDomainFor(m, i)
           want == getProviderConfigForIndex(m, i)
           info == [fd |-> fd, want |-> want, needsUpdate |-> \E c \in compared : Differs(want, c)]
<1>1. fd \in FailureDomain
  BY UnsetIsDomain DEF failureDomainFor, covers
<1>2. config \in Config /\ infos \in [DOMAIN infos -> Info]
  BY DEF TypeInv, TypeOK, Info
<1>3. want = InjectFailureDomain(config, fd)
  BY DEF getProviderConfigForIndex
<1> HIDE DEF fd, want
<1>4. want \in Config /\ afterInjection(config, want) \in Config
  BY <1>1, <1>2, <1>3, InjectIsConfig, AfterInjectionIsConfig
<1>5. info \in Info
  BY <1>1, <1>4 DEF Info
<1>6. /\ raw' = want /\ config' = afterInjection(config, want)
      /\ infos' = [n \in DOMAIN infos \cup {i} |-> IF n # i THEN infos[n] ELSE info]
  BY DEF configures, want, fd
<1> HIDE DEF info
<1>7. infos' \in [DOMAIN infos' -> Info]
  BY <1>2, <1>5, <1>6
<1> QED
  BY <1>4, <1>6, <1>7

(***************************************************************************)
(* Inputs never change, so the types of the next state are those of this.  *)
(***************************************************************************)
LEMMA SameTypes ==
    ASSUME UNCHANGED inputs
    PROVE  /\ fields' = fields /\ FailureDomain' = FailureDomain /\ Config' = Config
           /\ CPMS' = CPMS /\ Info' = Info /\ placed' = placed
<1>1. platform' = platform /\ machines' = machines
  BY DEF inputs
<1>2. fields' = fields
  BY <1>1 DEF fields
<1>3. FailureDomain' = FailureDomain
  BY <1>2 DEF FailureDomain
<1>4. Config' = Config
  BY <1>3 DEF Config
<1> QED
  BY <1>1, <1>2, <1>3, <1>4 DEF CPMS, Info, placed

LEMMA TypeInvInit == Init => TypeInv
<1> SUFFICES ASSUME Init PROVE TypeInv
  OBVIOUS
<1>1. platform \in Platform /\ infra \in Infra
  BY DEF Init
<1>2. PICK n \in 1..Replicas, root \in BOOLEAN, rest \in {"good", "bad"}, pools \in 0..2 :
        /\ rest = "bad" => platform \in {"Azure", "OpenStack"}
        /\ \E ds \in [1..n -> FailureDomain] :
            machines = [k \in 1..n |-> [domain |-> ds[k], root |-> root,
                                        image |-> "x", rest |-> rest,
                                        pools |-> pools, second |-> networkOf(ds[k], pools)]]
  BY Zenon DEF Init
<1>3. n \in Nat /\ n \in 1..Replicas
  BY ReplicasAssumption
<1>4. machines \in Seq(Config) /\ Len(machines) = n
  <2>1. PICK ds \in [1..n -> FailureDomain] :
            machines = [k \in 1..n |-> [domain |-> ds[k], root |-> root,
                                        image |-> "x", rest |-> rest,
                                        pools |-> pools, second |-> networkOf(ds[k], pools)]]
    BY <1>2
  <2>2. ASSUME NEW k \in 1..n
        PROVE  [domain |-> ds[k], root |-> root, image |-> "x", rest |-> rest,
                pools |-> pools, second |-> networkOf(ds[k], pools)] \in Config
    <3>1. platform = "VSphere" => ds[k]["name"] \in Value
      BY PlatformFields DEF Platform, FailureDomain
    <3>2. networkOf(ds[k], pools) \in {"none"} \cup Value
      BY <3>1 DEF networkOf, unnamed, Value
    <3> QED
      BY <3>2 DEF Config
  <2> QED
    BY <1>3, <2>1, <2>2
<1>5. noCPMS.template \in Config /\ noCPMS \in CPMS
  <2>1. [domain |-> unsetDomain, root |-> FALSE, image |-> "x", rest |-> "good",
         pools |-> 0, second |-> "none"] \in Config
    BY UnsetIsDomain DEF Config
  <2>2. << >> \in Seq(FailureDomain)
    OBVIOUS
  <2> QED
    BY <2>1, <2>2 DEF noCPMS, CPMS
<1>6. /\ << >> \in [DOMAIN << >> -> FailureDomain] /\ << >> \in [DOMAIN << >> -> Info]
  <2>1. DOMAIN << >> = {}
    OBVIOUS
  <2>2. << >> = [x \in {} |-> x]
    OBVIOUS
  <2> QED
    BY <2>1, <2>2
<1> QED
  BY <1>1, <1>3, <1>4, <1>5, <1>6 DEF Init, TypeInv, TypeOK, placed, covers, Info

LEMMA TypeInvStep == TypeInv /\ [Next]_vars => TypeInv'
<1> SUFFICES ASSUME TypeInv, [Next]_vars
             PROVE  TypeInv'
  OBVIOUS
<1> USE DEF TypeInv
<1>1. ASSUME UNCHANGED inputs, cpms' \in CPMS, raw' \in Config, config' \in Config,
             pc' \in {"write", "spec", "create", "rejected", "admitted", "infos", "uncached", "failed"},
             mapping' \in [DOMAIN mapping' -> FailureDomain], covers(mapping'),
             uncached' \in [DOMAIN uncached' -> FailureDomain], covers(uncached'),
             infos' \in [DOMAIN infos' -> Info]
      PROVE  TypeInv'
  <2>1. /\ FailureDomain' = FailureDomain /\ Config' = Config
        /\ CPMS' = CPMS /\ Info' = Info /\ placed' = placed
    BY <1>1, SameTypes
  <2>2. platform' = platform /\ infra' = infra /\ machines' = machines
    BY <1>1 DEF inputs
  <2> QED
    BY <1>1, <2>1, <2>2 DEF TypeOK, Info, covers
<1>2. /\ cpms \in CPMS /\ cpms.domains \in Seq(FailureDomain) /\ cpms.template \in Config
      /\ raw \in Config /\ config \in Config
      /\ mapping \in [DOMAIN mapping -> FailureDomain]
      /\ uncached \in [DOMAIN uncached -> FailureDomain]
      /\ infos \in [DOMAIN infos -> Info]
      /\ pc \in {"write", "spec", "create", "rejected", "admitted", "infos", "uncached", "failed"}
  BY DEF TypeOK, CPMS, Info
<1>3. CASE UNCHANGED vars
  BY <1>1, <1>2, <1>3 DEF vars
<1>4. CASE UserWrites
  <2>1. PICK fds \in validDomains, d \in FailureDomain, active \in {TRUE, Len(machines) = Replicas},
             second \in {machines[1].second, unnamed(machines[1].pools)} :
          /\ \A x, y \in ToSet(fds) : x # y => Complete(x, d) # Complete(y, d)
          /\ ~machines[1].root => setFields(d) \cap rootFields = {}
          /\ cpms' = [domains |-> fds, active |-> active, author |-> "user",
                      template |-> [machines[1] EXCEPT !.domain = d, !.second = second,
                                       !.image = IF ignoresImage THEN "y" ELSE "x"]]
    BY <1>4, Zenon DEF UserWrites
  <2>2. fds \in Seq(FailureDomain)
    BY DEF validDomains, BoundedSeq, SeqOf
  <2>3. machines[1] \in Config
    BY MachineDomains
  <2>4. [machines[1] EXCEPT !.domain = d, !.second = second,
                            !.image = IF ignoresImage THEN "y" ELSE "x"] \in Config
    <3>1. second \in {"none"} \cup Value
      BY <2>3 DEF Config, unnamed, Value
    <3> QED
      BY <2>3, <3>1 DEF Config
  <2>5. active \in BOOLEAN
    OBVIOUS
  <2>6. cpms' \in CPMS /\ cpms'.template \in Config
    BY <2>1, <2>2, <2>4, <2>5 DEF CPMS
  <2> QED
    BY <1>1, <1>2, <1>4, <2>6 DEF UserWrites
<1>5. CASE GeneratorWrites
  <2>1. platform # "UnknownPlatform" /\ cpms' = generateControlPlaneMachineSet
    BY <1>5 DEF GeneratorWrites, canGenerate
  <2>2. cpms' = [domains |-> buildFailureDomains, active |-> FALSE, author |-> "generator",
                 template |-> without(machines[1], stripped)]
    BY <2>1, GeneratedTemplate
  <2>3. buildFailureDomains \in Seq(FailureDomain) /\ without(machines[1], stripped) \in Config
    BY <2>1, GeneratedDomains, MachineDomains, WithoutIsConfig
  <2>4. cpms' \in CPMS /\ cpms'.template \in Config
    BY <2>2, <2>3 DEF CPMS
  <2> QED
    BY <1>1, <1>2, <1>5, <2>4 DEF GeneratorWrites
<1>6. CASE ValidateSpec
  <2>1. dryRunConfig(cpms) \in Config
    <3>1. CASE cpms.domains = << >>
      BY <1>2, <3>1 DEF dryRunConfig
    <3>2. CASE cpms.domains # << >>
      <4>1. cpms.domains[1] \in FailureDomain
        BY <1>2, <3>2
      <4> QED
        BY <1>2, <3>2, <4>1, InjectIsConfig DEF dryRunConfig
    <3> QED
      BY <3>1, <3>2
  <2>2. raw' \in Config /\ pc' \in {"create", "rejected"}
    BY <1>2, <1>6, <2>1 DEF ValidateSpec
  <2> QED
    BY <1>1, <1>2, <1>6, <2>2 DEF ValidateSpec
<1>7. CASE ValidateOnCreate
  <2>1. pc' \in {"admitted", "rejected"}
    BY <1>7 DEF ValidateOnCreate
  <2> QED
    BY <1>1, <1>2, <1>7, <2>1 DEF ValidateOnCreate
<1>8. CASE NewMachineProvider
  <2>1. mapping' \in [DOMAIN mapping' -> FailureDomain] /\ covers(mapping')
    BY <1>2, <1>8, MappingHasType DEF NewMachineProvider
  <2>2. infos' \in [DOMAIN infos' -> Info]
    <3>1. DOMAIN << >> = {} /\ << >> = [x \in {} |-> x]
      OBVIOUS
    <3> QED
      BY <1>8, <3>1 DEF NewMachineProvider
  <2> QED
    BY <1>1, <1>2, <1>8, <2>1, <2>2 DEF NewMachineProvider
<1>9. CASE WithClient
  <2>1. uncached' \in [DOMAIN uncached' -> FailureDomain] /\ covers(uncached')
    BY <1>2, <1>9, MappingHasType DEF WithClient
  <2>2. infos' \in [DOMAIN infos' -> Info]
    <3>1. DOMAIN << >> = {} /\ << >> = [x \in {} |-> x]
      OBVIOUS
    <3> QED
      BY <1>9, <3>1 DEF WithClient
  <2> QED
    BY <1>1, <1>2, <1>9, <2>1, <2>2 DEF WithClient
<1>10. ASSUME NEW k \in 1..Replicas, GenerateMachineInfo(k)
       PROVE  TypeInv'
  <2>1. k - 1 \in 0..(Replicas - 1)
    BY ReplicasAssumption
  <2>2. inForce \in [DOMAIN inForce -> FailureDomain] /\ covers(inForce)
    BY <1>2 DEF inForce
  <2>3. raw' \in Config /\ config' \in Config /\ infos' \in [DOMAIN infos' -> Info]
    <3>1. CASE canConfigure(inForce, k - 1)
      BY <1>10, <2>1, <2>2, <3>1, ConfiguresTypes DEF GenerateMachineInfo
    <3>2. CASE ~canConfigure(inForce, k - 1)
      BY <1>2, <1>10, <3>2 DEF GenerateMachineInfo
    <3> QED
      BY <3>1, <3>2
  <2>4. pc' \in {pc, "failed"}
    BY <1>10 DEF GenerateMachineInfo
  <2> QED
    BY <1>1, <1>2, <1>10, <2>3, <2>4 DEF GenerateMachineInfo
<1>11. ASSUME NEW k \in 1..Replicas, CreateMachine(k - 1)
       PROVE  TypeInv'
  <2>1. k - 1 \in 0..(Replicas - 1)
    BY ReplicasAssumption
  <2>2. raw' \in Config /\ config' \in Config /\ infos' \in [DOMAIN infos' -> Info]
    BY <1>2, <1>11, <2>1, ConfiguresTypes DEF CreateMachine
  <2> QED
    BY <1>1, <1>2, <1>11, <2>2 DEF CreateMachine
<1> QED
  BY <1>3, <1>4, <1>5, <1>6, <1>7, <1>8, <1>9, <1>10, <1>11 DEF Next

(***************************************************************************)
(* Every variable keeps its type: whatever generator and users write and   *)
(* however the template is overwritten, each index that is configured has  *)
(* a failure domain of the platform (failureDomainFor).                    *)
(***************************************************************************)
THEOREM TypeCorrect == Spec => []TypeOK
<1>1. TypeInv => TypeOK
  BY DEF TypeInv
<1> QED
  BY <1>1, TypeInvInit, TypeInvStep, PTL DEF Spec

-----------------------------------------------------------------------------
(***************************************************************************)
(* What the code shares.  Inputs and ControlPlaneMachineSet stay as they   *)
(* are once it is written, and so does all that is computed out of them.   *)
(***************************************************************************)
LEMMA SameInputs ==
    ASSUME UNCHANGED inputs
    PROVE  /\ platform' = platform /\ infra' = infra /\ machines' = machines
           /\ fields' = fields /\ recognised' = recognised /\ unsetDomain' = unsetDomain
           /\ ignoresImage' = ignoresImage /\ fieldsOf(platform)' = fieldsOf(platform)
           /\ getMachineFailureDomains' = getMachineFailureDomains
           /\ ExtractFailureDomainsFromMachines' = ExtractFailureDomainsFromMachines
           /\ machineList' = machineList
<1>1. platform' = platform /\ infra' = infra /\ machines' = machines
  BY DEF inputs
<1>2. fieldsOf(platform)' = fieldsOf(platform)
  BY <1>1 DEF fieldsOf
<1>3. fields' = fields
  BY <1>1 DEF fields
<1>4. unsetDomain' = unsetDomain
  BY <1>3 DEF unsetDomain
<1>5. recognised' = recognised
  BY <1>1 DEF recognised, recognisedByName, recognisedByWorkspace
<1>6. getMachineFailureDomains' = getMachineFailureDomains
  BY <1>1, <1>3, <1>5 DEF getMachineFailureDomains, ExtractFailureDomain
<1>7. ExtractFailureDomainsFromMachines' = ExtractFailureDomainsFromMachines
  BY <1>6 DEF ExtractFailureDomainsFromMachines
<1>9. machineList' = machineList
  BY <1>1, <1>2, <1>6 DEF machineList, number
<1> QED
  BY <1>1, <1>2, <1>3, <1>4, <1>5, <1>6, <1>7, <1>9 DEF ignoresImage

leftOpen == {k \in fields : \A d \in ToSet(cpms.domains) : d[k] = ""}

LEMMA SameCPMS ==
    ASSUME UNCHANGED inputs, UNCHANGED cpms
    PROVE  /\ ExtractFailureDomain(cpms.template)' = ExtractFailureDomain(cpms.template)
           /\ specified(cpms.template)' = specified(cpms.template)
           /\ leftOpen' = leftOpen
           /\ indexToFailureDomain(cpms.template)' = indexToFailureDomain(cpms.template)
<1>1. /\ cpms' = cpms /\ fields' = fields /\ recognised' = recognised /\ machineList' = machineList
      /\ fieldsOf(platform)' = fieldsOf(platform)
  BY SameInputs
<1>2. ExtractFailureDomain(cpms.template)' = ExtractFailureDomain(cpms.template)
  BY <1>1 DEF ExtractFailureDomain
<1>3. CompleteFailureDomains(cpms.domains, ExtractFailureDomain(cpms.template))'
          = CompleteFailureDomains(cpms.domains, ExtractFailureDomain(cpms.template))
  BY <1>1, <1>2 DEF CompleteFailureDomains, Complete
<1>4. specified(cpms.template)' = specified(cpms.template)
  BY <1>3 DEF specified
<1>5. leftOpen' = leftOpen
  BY <1>1 DEF leftOpen
<1>6. indexToFailureDomain(cpms.template)' = indexToFailureDomain(cpms.template)
  <2> DEFINE numbers == {number(fd) : fd \in specified(cpms.template)}
             byNumber == mapMachineIndexesToFailureDomains(machineList, numbers)
  <2>1. numbers' = numbers
    BY <1>1, <1>4 DEF number
  <2>2. byNumber' = byNumber
    BY <1>1, <2>1
  <2>3. indexToFailureDomain(cpms.template) =
            IF cpms.domains = << >> THEN << >>
            ELSE [i \in DOMAIN byNumber |-> CHOOSE fd \in specified(cpms.template) : number(fd) = byNumber[i]]
    BY DEF indexToFailureDomain, specified
  <2>4. indexToFailureDomain(cpms.template)' =
            IF cpms.domains' = << >> THEN << >>
            ELSE [i \in DOMAIN byNumber' |->
                    CHOOSE fd \in specified(cpms.template)' : number(fd)' = byNumber'[i]]
    BY DEF indexToFailureDomain, specified
  <2>5. ASSUME NEW S, NEW x
        PROVE  (CHOOSE fd \in S : number(fd)' = x) = (CHOOSE fd \in S : number(fd) = x)
    BY <1>1, Zenon DEF number, inputs
  <2> DEFINE S == specified(cpms.template)
  <2> HIDE DEF byNumber, numbers
  <2>6. indexToFailureDomain(cpms.template)' =
            IF cpms.domains = << >> THEN << >>
            ELSE [i \in DOMAIN byNumber |-> CHOOSE fd \in S : number(fd)' = byNumber[i]]
    BY <1>1, <1>4, <2>2, <2>4, Zenon
  <2> HIDE DEF S
  <2>7. [i \in DOMAIN byNumber |-> CHOOSE fd \in S : number(fd)' = byNumber[i]]
            = [i \in DOMAIN byNumber |-> CHOOSE fd \in S : number(fd) = byNumber[i]]
    <3> DEFINE next(x) == CHOOSE fd \in S : number(fd)' = x
               now(x)  == CHOOSE fd \in S : number(fd) = x
    <3>1. \A x : next(x) = now(x)
      BY <2>5, Zenon
    <3> HIDE DEF next, now
    <3>2. [i \in DOMAIN byNumber |-> next(byNumber[i])] = [i \in DOMAIN byNumber |-> now(byNumber[i])]
      BY <3>1
    <3> QED
      BY <3>2, Zenon DEF next, now
  <2> QED
    BY <2>3, <2>6, <2>7, Zenon DEF S
<1> QED
  BY <1>2, <1>4, <1>5, <1>6

(***************************************************************************)
(* The failure domains of the list set the same fields, so each field is   *)
(* set by all of them or left to the template by all.                      *)
(***************************************************************************)
sameFields == \A x, y \in ToSet(cpms.domains) : setFields(x) = setFields(y)

stored ==
    /\ cpms.domains \in Seq(FailureDomain) /\ cpms.template \in Config /\ sameFields

(***************************************************************************)
(* A completed failure domain leaves only open fields empty, and has the   *)
(* template's value in an open field, if any.                              *)
(***************************************************************************)
keepsTemplate(fd) ==
    /\ fd \in FailureDomain
    /\ \A k \in fields : /\ fd[k] = "" => k \in leftOpen
                         /\ k \in leftOpen /\ fd[k] # "" => fd[k] = cpms.template.domain[k]

LEMMA DomainValues ==
    ASSUME NEW fd \in FailureDomain
    PROVE  fd = [k \in fields |-> fd[k]] /\ \A k \in fields : fd[k] \in Value
  BY DEF FailureDomain

LEMMA ExtractValues ==
    ASSUME NEW c \in Config, NEW k \in fields
    PROVE  ExtractFailureDomain(c)[k] \in {"", c.domain[k]}
  BY DEF ExtractFailureDomain

LEMMA CompletedKeepsTemplate ==
    ASSUME stored, NEW fd \in specified(cpms.template)
    PROVE  keepsTemplate(fd)
<1> DEFINE T == cpms.template
           D == ToSet(cpms.domains)
<1>1. /\ specified(T) = {Complete(d, ExtractFailureDomain(T)) : d \in D}
      /\ specified(T) \subseteq FailureDomain
  BY SpecifiedDomains DEF stored
<1>2. D \subseteq FailureDomain
  BY ToSetIsFinite DEF stored
<1>3. PICK d \in D : fd = Complete(d, ExtractFailureDomain(T))
  BY <1>1
<1>4. ASSUME NEW k \in fields, fd[k] = "", NEW x \in D
      PROVE  x[k] = ""
  <2>1. d[k] = ""
    BY <1>3, <1>4 DEF Complete
  <2>2. setFields(x) = setFields(d)
    BY DEF stored, sameFields
  <2> QED
    BY <2>1, <2>2 DEF setFields
<1>5. ASSUME NEW k \in fields, k \in leftOpen, fd[k] # ""
      PROVE  fd[k] = T.domain[k]
  <2>1. d[k] = ""
    BY <1>5 DEF leftOpen
  <2>2. fd[k] = ExtractFailureDomain(T)[k]
    BY <1>3, <2>1 DEF Complete
  <2>3. T \in Config
    BY DEF stored
  <2> QED
    BY <1>5, <2>2, <2>3, ExtractValues
<1> QED
  BY <1>1, <1>4, <1>5 DEF keepsTemplate, leftOpen

LEMMA NothingKeepsTemplate ==
    ASSUME stored, cpms.domains = << >>
    PROVE  keepsTemplate(unsetDomain) /\ leftOpen = fields
<1>1. ToSet(cpms.domains) = {}
  BY ToSetIsFinite DEF stored
<1>2. leftOpen = fields
  BY <1>1 DEF leftOpen
<1> QED
  BY <1>2, UnsetIsDomain DEF keepsTemplate, unsetDomain

(***************************************************************************)
(* The mapping in force, and the failure domains it hands out.             *)
(***************************************************************************)
mapped(m) == m = indexToFailureDomain(cpms.template)

LEMMA MappedKeepsTemplate ==
    ASSUME placed, stored, NEW m, mapped(m), NEW i \in 0..(Replicas - 1)
    PROVE  keepsTemplate(failureDomainFor(m, i)) /\ (cpms.domains = << >> <=> m = << >>)
<1>1. CASE cpms.domains = << >>
  <2>1. m = << >>
    BY <1>1 DEF mapped, indexToFailureDomain
  <2> QED
    BY <1>1, <2>1, NothingKeepsTemplate DEF failureDomainFor
<1>2. CASE cpms.domains # << >>
  <2>1. DOMAIN m = 0..(Replicas - 1) /\ m[i] \in specified(cpms.template)
    BY <1>2, MapsToSpecified DEF mapped, stored
  <2>2. m # << >>
    <3>1. DOMAIN << >> = {}
      OBVIOUS
    <3> QED
      BY <2>1, <3>1
  <2> QED
    BY <1>2, <2>1, <2>2, CompletedKeepsTemplate DEF failureDomainFor
<1> QED
  BY <1>1, <1>2

(***************************************************************************)
(* The provider's config: only set fields of a root volume may differ from *)
(* the template's, and the second network when each failure domain has its *)
(* own.                                                                    *)
(***************************************************************************)
ofTemplate(c) ==
    LET T == cpms.template
    IN  /\ c \in Config /\ c.root = T.root /\ c.image = T.image /\ c.rest = T.rest
        /\ \A k \in fields : k \in leftOpen \/ k \notin rootFields \/ ~T.root
                              => c.domain[k] = T.domain[k]
        /\ c.pools = T.pools
        /\ \/ c.second = T.second
           \/ platform = "VSphere" /\ infra.wide = infra.defined /\ cpms.domains # << >>

(***************************************************************************)
(* The failure domains of a vSphere infrastructure have one network each,  *)
(* or a second one each.                                                   *)
(***************************************************************************)
networksAlike == infra \in Infra /\ infra.wide \in {{}, infra.defined}

(***************************************************************************)
(* What the mapping in force has for an index can be injected.             *)
(***************************************************************************)
injects(fd) ==
    platform = "VSphere" =>
        IF cpms.domains = << >> THEN fd["name"] = "" ELSE fd["name"] \in infra.defined

LEMMA InjectedFields ==
    ASSUME NEW c \in Config, NEW fd \in FailureDomain
    PROVE  LET w == InjectFailureDomain(c, fd)
           IN  /\ w \in Config /\ w.root = c.root /\ w.image = c.image /\ w.rest = c.rest
               /\ w.pools = c.pools /\ w.second = secondNetwork(c, fd)
               /\ \A k \in fields :
                     w.domain[k] = IF fd[k] # "" /\ (k \in rootFields => c.root) THEN fd[k]
                                   ELSE c.domain[k]
<1> DEFINE n == secondNetwork(c, fd)
<1>1. InjectFailureDomain(c, fd) \in Config
  BY InjectIsConfig
<1>2. InjectFailureDomain(c, fd) =
          [c EXCEPT !.domain = [k \in fields |-> IF fd[k] # "" /\ (k \in rootFields => c.root)
                                                 THEN fd[k] ELSE c.domain[k]],
                    !.second = n]
  BY DEF InjectFailureDomain
<1> HIDE DEF n
<1>3. InjectFailureDomain(c, fd).second = n /\ InjectFailureDomain(c, fd).pools = c.pools
  BY <1>2 DEF Config
<1> QED
  BY <1>1, <1>2, <1>3 DEF Config, n

LEMMA SameConfig ==
    ASSUME NEW c \in Config, NEW d \in Config, c.root = d.root, c.image = d.image, c.rest = d.rest,
           c.pools = d.pools, c.second = d.second, \A k \in fields : c.domain[k] = d.domain[k]
    PROVE  c = d
<1>1. c.domain \in FailureDomain /\ d.domain \in FailureDomain
  BY DEF Config
<1>2. c.domain = [k \in fields |-> c.domain[k]] /\ d.domain = [k \in fields |-> d.domain[k]]
  BY <1>1, DomainValues
<1>3. c.domain = d.domain
  BY <1>2
<1> QED
  BY <1>3 DEF Config

LEMMA InjectsTemplate ==
    ASSUME stored, networksAlike, NEW c, ofTemplate(c), NEW fd, keepsTemplate(fd), injects(fd)
    PROVE  /\ InjectFailureDomain(c, fd) = InjectFailureDomain(cpms.template, fd)
           /\ \A k \in leftOpen : InjectFailureDomain(c, fd).domain[k] = cpms.template.domain[k]
           /\ ofTemplate(afterInjection(c, InjectFailureDomain(c, fd)))
<1> DEFINE T == cpms.template
           w == InjectFailureDomain(c, fd)
           v == InjectFailureDomain(T, fd)
           a == afterInjection(c, w)
<1>1. c \in Config /\ T \in Config /\ fd \in FailureDomain
  BY DEF stored, ofTemplate, keepsTemplate
<1>2. /\ c.root = T.root /\ c.image = T.image /\ c.rest = T.rest
      /\ \A k \in fields : k \in leftOpen \/ k \notin rootFields \/ ~T.root
                              => c.domain[k] = T.domain[k]
      /\ c.pools = T.pools
      /\ c.second = T.second \/ (platform = "VSphere" /\ infra.wide = infra.defined /\ cpms.domains # << >>)
  BY DEF ofTemplate
<1>3. \A k \in fields : /\ fd[k] = "" => k \in leftOpen
                        /\ k \in leftOpen /\ fd[k] # "" => fd[k] = T.domain[k]
  BY DEF keepsTemplate
<1>4. /\ w \in Config /\ w.root = c.root /\ w.image = c.image /\ w.rest = c.rest
      /\ w.pools = c.pools /\ w.second = secondNetwork(c, fd)
      /\ \A k \in fields : w.domain[k] = IF fd[k] # "" /\ (k \in rootFields => c.root) THEN fd[k]
                                         ELSE c.domain[k]
  BY <1>1, InjectedFields
<1>5. /\ v \in Config /\ v.root = T.root /\ v.image = T.image /\ v.rest = T.rest
      /\ v.pools = T.pools /\ v.second = secondNetwork(T, fd)
      /\ \A k \in fields : v.domain[k] = IF fd[k] # "" /\ (k \in rootFields => T.root) THEN fd[k]
                                         ELSE T.domain[k]
  BY <1>1, InjectedFields
<1>6. a \in Config
  BY <1>1, <1>4, AfterInjectionIsConfig
<1>7. /\ a.root = c.root /\ a.image = c.image /\ a.rest = c.rest /\ a.pools = c.pools
      /\ a.second = IF c.pools > 0 /\ c.second # "none" THEN w.second ELSE c.second
      /\ \A k \in fields : a.domain[k] = IF k \in rootFields THEN w.domain[k] ELSE c.domain[k]
  BY <1>1 DEF afterInjection, Config
<1>8. leftOpen \subseteq fields
  BY DEF leftOpen
<1> HIDE DEF w, v, a, T
<1>9. \A k \in fields : w.domain[k] = v.domain[k]
  BY <1>2, <1>3, <1>4, <1>5
<1>14. /\ w.second = v.second
       /\ a.second = T.second \/ (platform = "VSphere" /\ infra.wide = infra.defined /\ cpms.domains # << >>)
  <2>1. CASE platform # "VSphere" \/ cpms.domains = << >>
    <3>1. c.second = T.second /\ w.second = c.second /\ v.second = T.second
      BY <1>2, <1>4, <1>5, <2>1 DEF secondNetwork, injects
    <3> QED
      BY <1>7, <3>1
  <2>2. CASE platform = "VSphere" /\ cpms.domains # << >>
    <3>1. fd["name"] \in infra.defined /\ fd["name"] # ""
      BY <2>2 DEF injects, networksAlike, Infra
    <3>2. CASE infra.wide = infra.defined
      BY <1>4, <1>5, <2>2, <3>1, <3>2 DEF secondNetwork
    <3>3. CASE infra.wide = {} /\ infra.wide # infra.defined
      <4>1. c.second = T.second /\ c.pools = T.pools
        BY <1>2, <3>3
      <4>2. /\ w.second = (IF c.pools > 0 THEN c.second ELSE "none")
            /\ v.second = (IF T.pools > 0 THEN T.second ELSE "none")
        BY <1>4, <1>5, <2>2, <3>1, <3>3 DEF secondNetwork
      <4> QED
        BY <1>7, <4>1, <4>2
    <3> QED
      BY <3>2, <3>3 DEF networksAlike
  <2> QED
    BY <2>1, <2>2
<1>10. w = v
  <2>1. /\ w \in Config /\ v \in Config /\ w.root = v.root /\ w.image = v.image /\ w.rest = v.rest
        /\ w.pools = v.pools /\ w.second = v.second
    BY <1>2, <1>4, <1>5, <1>14
  <2> QED
    BY <1>9, <2>1, SameConfig
<1>11. \A k \in leftOpen : w.domain[k] = T.domain[k]
  BY <1>2, <1>3, <1>4, <1>8
<1>12. \A k \in fields : k \in leftOpen \/ k \notin rootFields \/ ~T.root
                              => a.domain[k] = T.domain[k]
  BY <1>2, <1>4, <1>7, <1>11
<1>13. ofTemplate(a)
  BY <1>2, <1>6, <1>7, <1>12, <1>14 DEF ofTemplate, T
<1> QED
  BY <1>10, <1>11, <1>13 DEF w, v, a, T

(***************************************************************************)
(* A template overwritten in other than open fields completes the failure  *)
(* domains to the same ones, and the mapping is the same.                  *)
(***************************************************************************)
LEMMA OverwrittenTemplate ==
    ASSUME stored, NEW c \in Config, \A k \in leftOpen : c.domain[k] = cpms.template.domain[k]
    PROVE  specified(c) = specified(cpms.template) /\ mapped(indexToFailureDomain(c))
<1> DEFINE T == cpms.template
           D == ToSet(cpms.domains)
<1>1. specified(c) = {Complete(d, ExtractFailureDomain(c)) : d \in D}
  BY SpecifiedDomains DEF stored
<1>2. specified(T) = {Complete(d, ExtractFailureDomain(T)) : d \in D}
  BY SpecifiedDomains DEF stored
<1>3. ASSUME NEW d \in D
      PROVE  Complete(d, ExtractFailureDomain(c)) = Complete(d, ExtractFailureDomain(T))
  <2>1. ASSUME NEW k \in fields, d[k] = ""
        PROVE  ExtractFailureDomain(c)[k] = ExtractFailureDomain(T)[k]
    <3>1. \A x \in D : x[k] = ""
      BY <2>1 DEF stored, sameFields, setFields
    <3>2. k \in leftOpen
      BY <3>1 DEF leftOpen
    <3> QED
      BY <3>2 DEF ExtractFailureDomain
  <2> QED
    BY <2>1 DEF Complete
<1>4. specified(c) = specified(T)
  BY <1>1, <1>2, <1>3
<1> QED
  BY <1>4 DEF mapped, indexToFailureDomain, specified

(***************************************************************************)
(* The failure domains the generator lists set the same fields when those  *)
(* of the Machines do.                                                     *)
(***************************************************************************)
machinesAlike ==
    \A x, y \in ExtractFailureDomainsFromMachines : setFields(x) = setFields(y)

LEMMA GeneratedAlike ==
    ASSUME placed, platform # "UnknownPlatform", machinesAlike
    PROVE  \A x, y \in generated : setFields(x) = setFields(y)
<1> DEFINE D == ExtractFailureDomainsFromMachines
<1>1. CASE platform = "Azure"
  <2>1. ASSUME NEW fd, NEW S
        PROVE  setFields(clear(fd, S)) = setFields(fd) \ S
    BY DEF setFields, clear
  <2>2. generated \subseteq {clear(fd, matching(D)) : fd \in D}
    BY <1>1 DEF generated
  <2> QED
    BY <2>1, <2>2 DEF machinesAlike
<1>2. CASE platform # "Azure"
  <2>1. generated \subseteq D
    BY <1>2 DEF generated
  <2> QED
    BY <2>1 DEF machinesAlike
<1> QED
  BY <1>1, <1>2

(***************************************************************************)
(* What a reconcile may share without harm.                                *)
(***************************************************************************)
providing == pc \in {"infos", "uncached", "failed"}

kept(i, info) ==
    /\ i \in 0..(Replicas - 1)
    /\ info.fd = failureDomainFor(indexToFailureDomain(cpms.template), i)
    /\ info.want = InjectFailureDomain(cpms.template, info.fd)
    /\ info.needsUpdate => i + 1 \in DOMAIN machines /\ Differs(info.want, machines[i + 1])

rawKept == \A k \in leftOpen : raw.domain[k] = cpms.template.domain[k]

infosKept == \A i \in DOMAIN infos : \A info \in {infos[i]} : kept(i, info)

SharingInv ==
    /\ TypeInv /\ machinesAlike /\ networksAlike /\ sameFields
    /\ rawKept
    /\ providing => ofTemplate(config) /\ mapped(mapping)
    /\ pc = "uncached" => mapped(uncached)
    /\ ~providing => infos = << >>
    /\ infosKept

LEMMA SharedFacts ==
    ASSUME UNCHANGED inputs, UNCHANGED cpms
    PROVE  /\ machinesAlike' = machinesAlike /\ sameFields' = sameFields
           /\ networksAlike' = networksAlike
           /\ ofTemplate(config)' = ofTemplate(config')
           /\ mapped(mapping)' = mapped(mapping') /\ mapped(uncached)' = mapped(uncached')
           /\ infosKept' = \A i \in DOMAIN infos' : kept(i, infos'[i])
<1>1. /\ platform' = platform /\ infra' = infra /\ machines' = machines /\ cpms' = cpms
      /\ fields' = fields /\ recognised' = recognised /\ unsetDomain' = unsetDomain
      /\ ignoresImage' = ignoresImage
      /\ ExtractFailureDomainsFromMachines' = ExtractFailureDomainsFromMachines
  BY SameInputs
<1>2. /\ leftOpen' = leftOpen
      /\ indexToFailureDomain(cpms.template)' = indexToFailureDomain(cpms.template)
  BY SameCPMS
<1>3. Config' = Config
  BY SameTypes
<1>4. machinesAlike' = machinesAlike /\ networksAlike' = networksAlike
  BY <1>1 DEF machinesAlike, setFields, networksAlike
<1>5. sameFields' = sameFields
  BY <1>1 DEF sameFields, setFields
<1>6. ofTemplate(config)' = ofTemplate(config')
  BY <1>1, <1>2, <1>3 DEF ofTemplate
<1>7. mapped(mapping)' = mapped(mapping') /\ mapped(uncached)' = mapped(uncached')
  BY <1>2 DEF mapped
<1>8. infosKept' = \A i \in DOMAIN infos' : kept(i, infos'[i])
  <2>1. ASSUME NEW i, NEW info
        PROVE  kept(i, info)' = kept(i, info)
    <3>1. failureDomainFor(indexToFailureDomain(cpms.template), i)' =
              failureDomainFor(indexToFailureDomain(cpms.template), i)
      BY <1>1, <1>2 DEF failureDomainFor
    <3>2. InjectFailureDomain(cpms.template, info.fd)' = InjectFailureDomain(cpms.template, info.fd)
      BY <1>1 DEF InjectFailureDomain, secondNetwork
    <3>3. Differs(info.want, machines[i + 1])' = Differs(info.want, machines[i + 1])
      BY <1>1 DEF Differs
    <3> QED
      BY <1>1, <3>1, <3>2, <3>3 DEF kept
  <2> QED
    BY <2>1 DEF infosKept
<1> QED
  BY <1>4, <1>5, <1>6, <1>7, <1>8

LEMMA ConfiguresKept ==
    ASSUME SharingInv, providing, NEW m, mapped(m), NEW i \in 0..(Replicas - 1), NEW compared,
           compared \subseteq {machines[i + 1]}, compared # {} => i + 1 \in DOMAIN machines,
           canConfigure(m, i), configures(m, i, compared)
    PROVE  /\ \A k \in leftOpen : raw'.domain[k] = cpms.template.domain[k]
           /\ ofTemplate(config') /\ \A n \in DOMAIN infos' : kept(n, infos'[n])
<1> DEFINE fd   == failureDomainFor(m, i)
           want == InjectFailureDomain(config, fd)
           info == [fd |-> fd, want |-> want, needsUpdate |-> \E c \in compared : Differs(want, c)]
<1>1. stored /\ placed /\ ofTemplate(config) /\ networksAlike
  BY DEF SharingInv, TypeInv, TypeOK, CPMS, stored
<1>2. keepsTemplate(fd) /\ injects(fd)
  <2>1. keepsTemplate(fd) /\ (cpms.domains = << >> <=> m = << >>)
    BY <1>1, MappedKeepsTemplate
  <2>2. platform = "VSphere" => unsetDomain["name"] = ""
    BY PlatformFields DEF Platform, unsetDomain
  <2> QED
    BY <2>1, <2>2 DEF injects, failureDomainFor, canConfigure, canInject,
                      getFailureDomainFromInfrastructure
<1>3. fd = failureDomainFor(indexToFailureDomain(cpms.template), i)
  BY DEF mapped
<1>4. /\ raw' = want /\ config' = afterInjection(config, want)
      /\ infos' = [n \in DOMAIN infos \cup {i} |-> IF n # i THEN infos[n] ELSE info]
  BY DEF configures, getProviderConfigForIndex
<1> HIDE DEF fd
<1>5. /\ want = InjectFailureDomain(cpms.template, fd)
      /\ \A k \in leftOpen : want.domain[k] = cpms.template.domain[k]
      /\ ofTemplate(afterInjection(config, want))
  BY <1>1, <1>2, InjectsTemplate
<1> HIDE DEF want
<1>6. kept(i, info)
  <2>1. info.fd = fd /\ info.want = want
    OBVIOUS
  <2>2. ASSUME info.needsUpdate
        PROVE  i + 1 \in DOMAIN machines /\ Differs(want, machines[i + 1])
    <3>1. PICK c \in compared : Differs(want, c)
      BY <2>2
    <3> QED
      BY <3>1
  <2> HIDE DEF info
  <2> QED
    BY <1>3, <1>5, <2>1, <2>2 DEF kept
<1> HIDE DEF info
<1>7. \A n \in DOMAIN infos : kept(n, infos[n])
  BY DEF SharingInv, infosKept
<1>8. ASSUME NEW n \in DOMAIN infos'
      PROVE  kept(n, infos'[n])
  <2>1. CASE n = i
    BY <1>4, <1>6, <2>1
  <2>2. CASE n # i
    BY <1>4, <1>7, <2>2
  <2> QED
    BY <2>1, <2>2
<1> QED
  BY <1>4, <1>5, <1>8

(***************************************************************************)
(* Failure domains that set different fields are what Mixed stands for.    *)
(***************************************************************************)
LEMMA SharingInvInit == ASSUME ~Mixed PROVE Init => SharingInv
<1> SUFFICES ASSUME Init PROVE SharingInv
  OBVIOUS
<1>1. TypeInv
  BY TypeInvInit
<1>2. machinesAlike /\ networksAlike
  BY DEF Init, uniform, machinesAlike, networksAlike
<1>3. ToSet(cpms.domains) = {}
  BY DEF Init, noCPMS, ToSet
<1>4. sameFields
  BY <1>3 DEF sameFields
<1>5. rawKept
  BY DEF rawKept, Init
<1>6. infos = << >> /\ pc = "write"
  BY DEF Init
<1>7. infosKept
  <2>1. DOMAIN << >> = {}
    OBVIOUS
  <2> QED
    BY <1>6, <2>1 DEF infosKept
<1> QED
  BY <1>1, <1>2, <1>4, <1>5, <1>6, <1>7 DEF SharingInv, providing

LEMMA SharingInvStep == ASSUME ~Mixed PROVE SharingInv /\ [Next]_vars => SharingInv'
<1> SUFFICES ASSUME SharingInv, [Next]_vars
             PROVE  SharingInv'
  OBVIOUS
<1> DEFINE T == cpms.template
<1>1. TypeInv /\ TypeInv' /\ placed /\ stored
  BY TypeInvStep DEF SharingInv, TypeInv, TypeOK, CPMS, stored
<1>2. ASSUME UNCHANGED inputs, UNCHANGED cpms,
             \A k \in leftOpen : raw'.domain[k] = T.domain[k],
             providing' => ofTemplate(config') /\ mapped(mapping'),
             pc' = "uncached" => mapped(uncached'),
             ~providing' => infos' = << >>,
             \A i \in DOMAIN infos' : kept(i, infos'[i])
      PROVE  SharingInv'
  <2>1. /\ machinesAlike' = machinesAlike /\ sameFields' = sameFields /\ networksAlike' = networksAlike
        /\ ofTemplate(config)' = ofTemplate(config')
        /\ mapped(mapping)' = mapped(mapping') /\ mapped(uncached)' = mapped(uncached')
        /\ infosKept' = \A i \in DOMAIN infos' : kept(i, infos'[i])
    BY <1>2, SharedFacts
  <2>2. leftOpen' = leftOpen /\ cpms' = cpms
    BY <1>2, SameCPMS
  <2>3. rawKept'
    BY <1>2, <2>2 DEF rawKept
  <2> QED
    BY <1>1, <1>2, <2>1, <2>2, <2>3 DEF SharingInv
<1>3. /\ rawKept /\ infosKept /\ (providing => ofTemplate(config) /\ mapped(mapping))
      /\ (pc = "uncached" => mapped(uncached)) /\ (~providing => infos = << >>)
      /\ \A k \in leftOpen : raw.domain[k] = T.domain[k]
      /\ \A i \in DOMAIN infos : kept(i, infos[i])
  BY DEF SharingInv, rawKept, infosKept
<1>4. CASE UNCHANGED vars
  <2>1. /\ UNCHANGED inputs /\ UNCHANGED cpms /\ raw' = raw /\ config' = config /\ mapping' = mapping
        /\ uncached' = uncached /\ infos' = infos /\ pc' = pc
    BY <1>4 DEF vars
  <2> QED
    BY <1>2, <1>3, <2>1 DEF providing
<1>5. ASSUME pc' = "spec", UNCHANGED <<inputs, infos>>, pc = "write", raw' = cpms'.template, sameFields'
      PROVE  SharingInv'
  <2>1. machinesAlike' /\ networksAlike'
    <3>1. /\ fields' = fields /\ infra' = infra
          /\ ExtractFailureDomainsFromMachines' = ExtractFailureDomainsFromMachines
      BY <1>5, SameInputs
    <3> QED
      BY <3>1 DEF SharingInv, machinesAlike, networksAlike, setFields
  <2>2. rawKept'
    BY <1>5 DEF rawKept
  <2>3. infos' = << >> /\ ~providing'
    BY <1>3, <1>5 DEF providing
  <2>4. infosKept'
    <3>1. DOMAIN << >> = {}
      OBVIOUS
    <3> QED
      BY <2>3, <3>1 DEF infosKept
  <2> QED
    BY <1>1, <1>5, <2>1, <2>2, <2>3, <2>4 DEF SharingInv
<1>6. CASE UserWrites
  <2>1. PICK fds \in validDomains : cpms'.domains = fds
    BY <1>6 DEF UserWrites
  <2>2. \A x, y \in ToSet(fds) : setFields(x) = setFields(y)
    BY DEF validDomains, uniform
  <2>3. fields' = fields
    BY <1>6, SameInputs DEF UserWrites
  <2>4. sameFields'
    BY <2>1, <2>2, <2>3 DEF sameFields, setFields
  <2> QED
    BY <1>5, <1>6, <2>4 DEF UserWrites
<1>7. CASE GeneratorWrites
  <2>1. platform # "UnknownPlatform" /\ cpms' = generateControlPlaneMachineSet
    BY <1>7 DEF GeneratorWrites, canGenerate
  <2>2. ToSet(cpms'.domains) = generated
    BY <1>1, <2>1, GeneratedTemplate, GeneratedDomains
  <2>3. fields' = fields
    BY <1>7, SameInputs DEF GeneratorWrites
  <2>4. sameFields'
    <3>1. \A x, y \in generated : setFields(x) = setFields(y)
      BY <1>1, <2>1, GeneratedAlike DEF SharingInv
    <3> QED
      BY <2>2, <2>3, <3>1 DEF sameFields, setFields
  <2> QED
    BY <1>5, <1>7, <2>4 DEF GeneratorWrites
<1>8. CASE ValidateSpec
  <2>1. \A k \in leftOpen : dryRunConfig(cpms).domain[k] = T.domain[k]
    <3>1. CASE cpms.domains = << >>
      BY <3>1 DEF dryRunConfig
    <3>2. CASE cpms.domains # << >>
      <4> DEFINE d == cpms.domains[1]
      <4>1. d \in FailureDomain /\ d \in ToSet(cpms.domains) /\ T \in Config
        BY <1>1, <3>2 DEF ToSet, stored
      <4>2. \A k \in leftOpen : k \in fields /\ d[k] = ""
        BY <4>1 DEF leftOpen
      <4>3. dryRunConfig(cpms) = InjectFailureDomain(T, d)
        BY <3>2 DEF dryRunConfig
      <4> HIDE DEF d, T
      <4>4. \A k \in fields : InjectFailureDomain(T, d).domain[k] =
                IF d[k] # "" /\ (k \in rootFields => T.root) THEN d[k] ELSE T.domain[k]
        BY <4>1, InjectedFields
      <4> QED
        BY <4>2, <4>3, <4>4
    <3> QED
      BY <3>1, <3>2
  <2>2. /\ UNCHANGED inputs /\ UNCHANGED cpms /\ infos' = infos /\ raw' \in {raw, dryRunConfig(cpms)}
        /\ ~providing /\ ~providing' /\ pc' # "uncached"
    BY <1>8 DEF ValidateSpec, providing
  <2> QED
    BY <1>2, <1>3, <2>1, <2>2
<1>9. CASE ValidateOnCreate
  <2>1. /\ UNCHANGED inputs /\ UNCHANGED cpms /\ infos' = infos /\ raw' = raw
        /\ ~providing /\ ~providing' /\ pc' # "uncached"
    BY <1>9 DEF ValidateOnCreate, providing
  <2> QED
    BY <1>2, <1>3, <2>1
<1>10. CASE NewMachineProvider
  <2>1. /\ UNCHANGED inputs /\ UNCHANGED cpms /\ infos' = << >> /\ raw' = T /\ config' = T
        /\ pc' = "infos" /\ mapping' = indexToFailureDomain(T)
    BY <1>10 DEF NewMachineProvider
  <2>2. ofTemplate(T) /\ mapped(mapping')
    BY <1>1, <2>1 DEF ofTemplate, mapped, stored
  <2>3. DOMAIN << >> = {}
    OBVIOUS
  <2> QED
    BY <1>2, <2>1, <2>2, <2>3 DEF providing
<1>11. CASE WithClient
  <2>1. /\ UNCHANGED inputs /\ UNCHANGED cpms /\ infos' = << >> /\ raw' = raw /\ config' = config
        /\ pc' = "uncached" /\ mapping' = mapping /\ uncached' = indexToFailureDomain(raw) /\ providing
    BY <1>11 DEF WithClient, providing
  <2>2. raw \in Config
    BY <1>1 DEF TypeInv, TypeOK
  <2>3. mapped(uncached')
    BY <1>1, <1>3, <2>1, <2>2, OverwrittenTemplate
  <2>4. DOMAIN << >> = {}
    OBVIOUS
  <2> QED
    BY <1>2, <1>3, <2>1, <2>3, <2>4 DEF providing
<1>12. ASSUME NEW k \in 1..Replicas, GenerateMachineInfo(k)
       PROVE  SharingInv'
  <2>1. k - 1 \in 0..(Replicas - 1) /\ (k - 1) + 1 = k
    BY ReplicasAssumption
  <2>2. /\ UNCHANGED inputs /\ UNCHANGED cpms /\ mapping' = mapping /\ uncached' = uncached
        /\ providing /\ providing' /\ k \in DOMAIN machines /\ pc' \in {pc, "failed"}
    BY <1>12 DEF GenerateMachineInfo, providing
  <2>3. mapped(inForce)
    BY <1>3, <2>2 DEF inForce
  <2>4. CASE canConfigure(inForce, k - 1)
    <3>1. configures(inForce, k - 1, {machines[k]})
      BY <1>12, <2>4 DEF GenerateMachineInfo
    <3>2. /\ \A f \in leftOpen : raw'.domain[f] = T.domain[f]
          /\ ofTemplate(config') /\ \A n \in DOMAIN infos' : kept(n, infos'[n])
      BY <2>1, <2>2, <2>3, <2>4, <3>1, ConfiguresKept
    <3> QED
      BY <1>2, <1>3, <2>2, <3>2
  <2>5. CASE ~canConfigure(inForce, k - 1)
    <3>1. raw' = raw /\ config' = config /\ infos' = infos
      BY <1>12, <2>5 DEF GenerateMachineInfo
    <3> QED
      BY <1>2, <1>3, <2>2, <3>1
  <2> QED
    BY <2>4, <2>5
<1>13. ASSUME NEW k \in 1..Replicas, CreateMachine(k - 1)
       PROVE  SharingInv'
  <2>1. k - 1 \in 0..(Replicas - 1)
    BY ReplicasAssumption
  <2>2. /\ UNCHANGED inputs /\ UNCHANGED cpms /\ mapping' = mapping /\ uncached' = uncached
        /\ providing /\ providing' /\ pc' = "infos"
        /\ canConfigure(mapping, k - 1) /\ configures(mapping, k - 1, {})
    BY <1>13 DEF CreateMachine, providing
  <2>3. /\ \A f \in leftOpen : raw'.domain[f] = T.domain[f]
        /\ ofTemplate(config') /\ \A n \in DOMAIN infos' : kept(n, infos'[n])
    BY <1>3, <2>1, <2>2, ConfiguresKept
  <2> QED
    BY <1>2, <1>3, <2>2, <2>3
<1> QED
  BY <1>4, <1>6, <1>7, <1>8, <1>9, <1>10, <1>11, <1>12, <1>13 DEF Next

(***************************************************************************)
(* The config of an index is the template in that index's failure domain,  *)
(* in whatever order the configs are put together and though               *)
(* InjectFailureDomain copies neither an OpenStack root volume nor vSphere *)
(* devices with address pools, when the failure domains set the same       *)
(* fields and have the same number of networks: then every injection       *)
(* overwrites what an earlier one left behind.                             *)
(***************************************************************************)
THEOREM InjectionsDoNotMix == ASSUME ~Mixed PROVE Spec => []InjectsIntoACopy
<1>1. SharingInv => InjectsIntoACopy
  <2> SUFFICES ASSUME SharingInv, NEW i \in DOMAIN infos
               PROVE  LET takes(k) == infos[i].fd[k] # "" /\ (k \in rootFields => cpms.template.root)
                      IN  infos[i].want = [cpms.template EXCEPT
                              !.domain = [k \in fields |-> IF takes(k) THEN infos[i].fd[k] ELSE @[k]],
                              !.second = secondNetwork(cpms.template, infos[i].fd)]
    BY DEF InjectsIntoACopy
  <2>1. infos[i].want = InjectFailureDomain(cpms.template, infos[i].fd)
    BY DEF SharingInv, infosKept, kept
  <2> QED
    BY <2>1 DEF InjectFailureDomain
<1>2. Init => SharingInv
  BY SharingInvInit
<1>3. SharingInv /\ [Next]_vars => SharingInv'
  BY SharingInvStep
<1> QED
  BY <1>1, <1>2, <1>3, PTL DEF Spec

(***************************************************************************)
(* The mapping WithClient computes anew agrees with the one the Machines   *)
(* were compared with, though the template's provider spec was overwritten *)
(* by then: only fields that every failure domain sets were.               *)
(***************************************************************************)
THEOREM RefreshIsTheSame == ASSUME ~Mixed PROVE Spec => []RefreshAgrees
<1>1. SharingInv => RefreshAgrees
  BY DEF SharingInv, RefreshAgrees, mapped, providing
<1>2. Init => SharingInv
  BY SharingInvInit
<1>3. SharingInv /\ [Next]_vars => SharingInv'
  BY SharingInvStep
<1> QED
  BY <1>1, <1>2, <1>3, PTL DEF Spec

-----------------------------------------------------------------------------
(***************************************************************************)
(* Failure domains that differ in fields or networks.  A config agrees     *)
(* with another but for what an injection shares: the fields of a root     *)
(* volume, and the network of a second device that is kept.                *)
(***************************************************************************)
keepsDevice(c) == c.pools > 0 /\ c.second # "none"

agree(c, d) ==
    /\ c.root = d.root /\ c.image = d.image /\ c.rest = d.rest /\ c.pools = d.pools
    /\ \A k \in fields : k \notin rootFields \/ ~cpms.template.root => c.domain[k] = d.domain[k]
    /\ ~keepsDevice(cpms.template) => c.second = d.second

injectedApart(info) == agree(info.want, InjectFailureDomain(cpms.template, info.fd))

CopyInv ==
    /\ TypeInv
    /\ providing => agree(config, cpms.template)
    /\ ~providing => infos = << >>
    /\ \A i \in DOMAIN infos : \A info \in {infos[i]} : injectedApart(info)

LEMMA InjectsApart ==
    ASSUME NEW c \in Config, cpms.template \in Config, agree(c, cpms.template), NEW fd \in FailureDomain
    PROVE  LET w == InjectFailureDomain(c, fd)
           IN  /\ agree(w, InjectFailureDomain(cpms.template, fd))
               /\ agree(afterInjection(c, w), cpms.template)
<1> DEFINE T == cpms.template
           w == InjectFailureDomain(c, fd)
           v == InjectFailureDomain(T, fd)
           a == afterInjection(c, w)
<1>1. /\ c.root = T.root /\ c.image = T.image /\ c.rest = T.rest /\ c.pools = T.pools
      /\ \A k \in fields : k \notin rootFields \/ ~T.root => c.domain[k] = T.domain[k]
      /\ ~keepsDevice(T) => c.second = T.second
  BY DEF agree
<1>2. /\ w.root = c.root /\ w.image = c.image /\ w.rest = c.rest
      /\ w.pools = c.pools /\ w.second = secondNetwork(c, fd)
      /\ \A k \in fields : w.domain[k] = IF fd[k] # "" /\ (k \in rootFields => c.root) THEN fd[k]
                                         ELSE c.domain[k]
  BY InjectedFields
<1>3. /\ v.root = T.root /\ v.image = T.image /\ v.rest = T.rest
      /\ v.pools = T.pools /\ v.second = secondNetwork(T, fd)
      /\ \A k \in fields : v.domain[k] = IF fd[k] # "" /\ (k \in rootFields => T.root) THEN fd[k]
                                         ELSE T.domain[k]
  BY InjectedFields
<1>4. /\ a.root = c.root /\ a.image = c.image /\ a.rest = c.rest /\ a.pools = c.pools
      /\ a.second = IF c.pools > 0 /\ c.second # "none" THEN w.second ELSE c.second
      /\ \A k \in fields : a.domain[k] = IF k \in rootFields THEN w.domain[k] ELSE c.domain[k]
  BY DEF afterInjection, Config
<1> HIDE DEF w, v, a, T
<1>5. ASSUME ~keepsDevice(T)
      PROVE  w.second = v.second /\ a.second = T.second
  <2>1. c.second = T.second /\ c.pools = T.pools
    BY <1>1, <1>5
  <2>2. secondNetwork(c, fd) = secondNetwork(T, fd)
    BY <2>1 DEF secondNetwork
  <2> QED
    BY <1>2, <1>3, <1>4, <1>5, <2>1, <2>2 DEF keepsDevice
<1>6. ASSUME NEW k \in fields, k \notin rootFields \/ ~T.root
      PROVE  w.domain[k] = v.domain[k] /\ a.domain[k] = T.domain[k]
  BY <1>1, <1>2, <1>3, <1>4, <1>6
<1>7. agree(w, v) /\ agree(a, T)
  BY <1>1, <1>2, <1>3, <1>4, <1>5, <1>6 DEF agree, T
<1> QED
  BY <1>7 DEF w, v, a, T

LEMMA CopyInvStep == CopyInv /\ [Next]_vars => CopyInv'
<1> SUFFICES ASSUME CopyInv, [Next]_vars
             PROVE  CopyInv'
  OBVIOUS
<1>1. /\ TypeInv /\ TypeInv' /\ config \in Config /\ cpms.template \in Config
      /\ mapping \in [DOMAIN mapping -> FailureDomain] /\ covers(mapping)
      /\ inForce \in [DOMAIN inForce -> FailureDomain] /\ covers(inForce)
  BY TypeInvStep DEF CopyInv, TypeInv, TypeOK, CPMS, inForce
<1>2. UNCHANGED inputs
  BY DEF Next, UserWrites, GeneratorWrites, ValidateSpec, ValidateOnCreate, NewMachineProvider,
         WithClient, GenerateMachineInfo, CreateMachine, vars
<1>3. /\ providing => agree(config, cpms.template)
      /\ ~providing => infos = << >>
      /\ \A i \in DOMAIN infos : injectedApart(infos[i])
  BY DEF CopyInv
<1>4. DOMAIN << >> = {}
  OBVIOUS
<1>5. ASSUME ~providing', infos' = << >>
      PROVE  CopyInv'
  BY <1>1, <1>4, <1>5 DEF CopyInv
<1>6. ASSUME UNCHANGED cpms, providing', agree(config', cpms.template),
             \A i \in DOMAIN infos' : injectedApart(infos'[i])
      PROVE  CopyInv'
  <2>1. /\ fields' = fields /\ cpms' = cpms /\ platform' = platform /\ infra' = infra
    BY <1>2, <1>6, SameInputs
  <2>2. agree(config, cpms.template)' = agree(config', cpms.template)
    BY <2>1 DEF agree, keepsDevice
  <2>3. ASSUME NEW info
        PROVE  injectedApart(info)' = injectedApart(info)
    <3>1. InjectFailureDomain(cpms.template, info.fd)' = InjectFailureDomain(cpms.template, info.fd)
      BY <2>1 DEF InjectFailureDomain, secondNetwork
    <3> QED
      BY <2>1, <3>1 DEF injectedApart, agree, keepsDevice
  <2> QED
    BY <1>1, <1>6, <2>2, <2>3 DEF CopyInv
<1>7. ASSUME NEW m, m \in [DOMAIN m -> FailureDomain], covers(m), NEW i \in 0..(Replicas - 1),
             NEW compared, configures(m, i, compared), UNCHANGED cpms, providing, providing'
      PROVE  CopyInv'
  <2> DEFINE fd   == failureDomainFor(m, i)
             want == InjectFailureDomain(config, fd)
             info == [fd |-> fd, want |-> want, needsUpdate |-> \E c \in compared : Differs(want, c)]
  <2>1. /\ config' = afterInjection(config, want)
        /\ infos' = [n \in DOMAIN infos \cup {i} |-> IF n # i THEN infos[n] ELSE info]
    BY <1>7 DEF configures, getProviderConfigForIndex
  <2>2. fd \in FailureDomain
    BY <1>7, UnsetIsDomain DEF failureDomainFor, covers
  <2>3. agree(want, InjectFailureDomain(cpms.template, fd)) /\ agree(config', cpms.template)
    <3> HIDE DEF fd
    <3> QED
      BY <1>1, <1>3, <1>7, <2>1, <2>2, InjectsApart
  <2>4. info.fd = fd /\ info.want = want
    OBVIOUS
  <2> HIDE DEF info, want, fd
  <2>5. injectedApart(info)
    BY <2>3, <2>4 DEF injectedApart
  <2>6. \A n \in DOMAIN infos' : injectedApart(infos'[n])
    <3>1. \A n \in DOMAIN infos' : infos'[n] = info \/ (n \in DOMAIN infos /\ infos'[n] = infos[n])
      BY <2>1
    <3> QED
      BY <1>3, <2>5, <3>1
  <2> QED
    BY <1>6, <1>7, <2>3, <2>6
<1>8. CASE UNCHANGED vars
  <2>1. UNCHANGED cpms /\ config' = config /\ infos' = infos /\ providing' = providing
    BY <1>8 DEF vars, providing
  <2> QED
    BY <1>3, <1>5, <1>6, <2>1
<1>9. CASE UserWrites \/ GeneratorWrites \/ ValidateSpec \/ ValidateOnCreate
  <2>1. ~providing /\ ~providing' /\ infos' = infos
    BY <1>9 DEF UserWrites, GeneratorWrites, ValidateSpec, ValidateOnCreate, providing
  <2> QED
    BY <1>3, <1>5, <2>1
<1>10. CASE NewMachineProvider
  <2>1. UNCHANGED cpms /\ config' = cpms.template /\ infos' = << >> /\ providing'
    BY <1>10 DEF NewMachineProvider, providing
  <2>2. agree(config', cpms.template)
    BY <2>1 DEF agree
  <2> QED
    BY <1>4, <1>6, <2>1, <2>2
<1>11. CASE WithClient
  <2>1. UNCHANGED cpms /\ config' = config /\ infos' = << >> /\ providing /\ providing'
    BY <1>11 DEF WithClient, providing
  <2> QED
    BY <1>3, <1>4, <1>6, <2>1
<1>12. ASSUME NEW k \in 1..Replicas, GenerateMachineInfo(k)
       PROVE  CopyInv'
  <2>1. UNCHANGED cpms /\ providing /\ providing'
    BY <1>12 DEF GenerateMachineInfo, providing
  <2>2. k - 1 \in 0..(Replicas - 1)
    BY ReplicasAssumption
  <2>3. CASE canConfigure(inForce, k - 1)
    BY <1>1, <1>7, <1>12, <2>1, <2>2, <2>3 DEF GenerateMachineInfo
  <2>4. CASE ~canConfigure(inForce, k - 1)
    <3>1. config' = config /\ infos' = infos
      BY <1>12, <2>4 DEF GenerateMachineInfo
    <3> QED
      BY <1>3, <1>6, <2>1, <3>1
  <2> QED
    BY <2>3, <2>4
<1>13. ASSUME NEW k \in 1..Replicas, CreateMachine(k - 1)
       PROVE  CopyInv'
  <2>1. UNCHANGED cpms /\ providing /\ providing'
    BY <1>13 DEF CreateMachine, providing
  <2>2. k - 1 \in 0..(Replicas - 1)
    BY ReplicasAssumption
  <2> QED
    BY <1>1, <1>7, <1>13, <2>1, <2>2 DEF CreateMachine
<1> QED
  BY <1>8, <1>9, <1>10, <1>11, <1>12, <1>13 DEF Next

(***************************************************************************)
(* What one index's failure domain can leave behind in the config of       *)
(* another (openstack.go, vsphere.go), whatever fields the failure domains *)
(* set and however many networks they have: the zone and the type of a     *)
(* root volume, when the template has one, and the network of the second   *)
(* device, when the template has address pools and such a device.          *)
(* Everything else in the config of an index is the template in that       *)
(* index's own failure domain.                                             *)
(***************************************************************************)
THEOREM OnlyRootsAndDevicesLeak == Spec => [](\A i \in DOMAIN infos : injectedApart(infos[i]))
<1>1. CopyInv => \A i \in DOMAIN infos : injectedApart(infos[i])
  BY DEF CopyInv
<1>2. Init => CopyInv
  <2> SUFFICES ASSUME Init PROVE CopyInv
    OBVIOUS
  <2>1. infos = << >> /\ ~providing
    BY DEF Init, providing
  <2>2. DOMAIN << >> = {}
    OBVIOUS
  <2> QED
    BY <2>1, <2>2, TypeInvInit DEF CopyInv
<1> QED
  BY <1>1, <1>2, CopyInvStep, PTL DEF Spec

-----------------------------------------------------------------------------
(***************************************************************************)
(* Admission.  What the webhook has compared: the template without failure *)
(* domains is where the Machines are, and a list has all of theirs, and    *)
(* others only when no two Machines share one.                             *)
(***************************************************************************)
unshared ==
    \A j, k \in DOMAIN machines :
        ExtractFailureDomain(machines[j]) = ExtractFailureDomain(machines[k]) => j = k

matches ==
    LET used == ExtractFailureDomainsFromMachines
    IN  /\ cpms.domains = << >> => \A fd \in used : fd = ExtractFailureDomain(cpms.template)
        /\ cpms.domains # << >> => /\ used \subseteq specified(cpms.template)
                                   /\ specified(cpms.template) \subseteq used \/ unshared

LEMMA SmallerFactor ==
    ASSUME NEW a \in Nat, NEW b \in Nat, NEW u \in Nat, a * u < b * u
    PROVE  a < b
<1> SUFFICES ASSUME b <= a PROVE FALSE
  OBVIOUS
<1>1. u * b <= u * a
  BY TimesGrows
<1>2. u * b = b * u /\ u * a = a * u /\ a * u \in Nat /\ b * u \in Nat
  OBVIOUS
<1> QED
  BY <1>1, <1>2

LEMMA SameNumberOfNumbers ==
    ASSUME platform \in Platform, NEW S, S \subseteq FailureDomain, IsFiniteSet(S)
    PROVE  LET numbers == {number(fd) : fd \in S}
           IN  /\ IsFiniteSet(numbers) /\ numbers \subseteq Int
               /\ Cardinality(numbers) = Cardinality(S)
<1> DEFINE numbers == {number(fd) : fd \in S}
           f == [fd \in S |-> number(fd)]
<1>1. f \in Bijection(S, numbers)
  <2>1. f \in Injection(S, numbers)
    BY NumbersDiffer DEF Injection, IsInjective
  <2>2. f \in Surjection(S, numbers)
    BY DEF Surjection
  <2> QED
    BY <2>1, <2>2 DEF Bijection
<1>2. numbers \subseteq Int
  BY NumbersDiffer
<1> HIDE DEF numbers, f
<1> QED
  BY <1>1, <1>2, FS_Bijection DEF numbers, ExistsBijection

LEMMA EvenlyPlacedStays ==
    ASSUME placed, stored, cpms.domains # << >>, matches, evenlyPlaced
    PROVE  \A k \in 1..Len(machines) :
               indexToFailureDomain(cpms.template)[k - 1] = ExtractFailureDomain(machines[k])
<1> DEFINE S     == specified(cpms.template)
           used  == ExtractFailureDomainsFromMachines
           fds   == {number(fd) : fd \in S}
           list  == machineList
           N     == Len(machines)
           e(k)  == ExtractFailureDomain(machines[k])
           mm    == mapIndexesToFailureDomainsForMachines(list)
           base  == createBaseFailureDomainMapping(fds, mm)
           share == maxIndexesPerFailureDomain(base)
           in(k) == {j \in 1..N : e(j) = e(k)}
           out   == mapMachineIndexesToFailureDomains(list, fds)
<1>1. /\ platform \in Platform /\ N \in Nat /\ 1 <= N /\ N <= Replicas /\ Replicas \in Nat
      /\ DOMAIN machines = 1..N /\ cpms.template \in Config /\ cpms.domains \in Seq(FailureDomain)
  BY ReplicasAssumption DEF placed, stored
<1>2. S \subseteq FailureDomain /\ IsFiniteSet(S) /\ S # {}
  BY <1>1, SpecifiedDomains
<1>3. /\ used \subseteq FailureDomain /\ IsFiniteSet(used) /\ used = {e(k) : k \in 1..N}
      /\ \A k \in 1..N : e(k) \in used /\ getMachineFailureDomains[k] = e(k)
  BY MachineDomains
<1>4. used \subseteq S /\ (S \subseteq used \/ unshared)
  BY DEF matches
<1>5. /\ list \in Seq(Machine) /\ Len(list) = N
      /\ {list[k].index : k \in 1..Len(list)} = 0..(N - 1)
      /\ \A j, k \in 1..Len(list) : list[j].index = list[k].index => j = k
      /\ \A k \in 1..Len(list) : list[k].index = k - 1 /\ list[k].fd = number(e(k))
  BY MachineListIsList
<1>6. \A k \in 1..N : \A fd \in FailureDomain : number(fd) = number(e(k)) <=> fd = e(k)
  BY <1>1, <1>3, NumbersDiffer
<1>7. \A k \in 1..N : indexToFailureDomain(cpms.template)[k - 1] \in S
                      /\ number(indexToFailureDomain(cpms.template)[k - 1]) = out[k - 1]
  <2>1. \A k \in 1..N : k - 1 \in 0..(Replicas - 1)
    BY <1>1
  <2> QED
    BY <1>1, <2>1, MapsToSpecified
<1>8. \A fd \in used : (Cardinality({k \in 1..N : getMachineFailureDomains[k] = fd}) - 1)
                          * Cardinality(used) < Replicas
  BY <1>1 DEF evenlyPlaced
<1>9. \A k \in 1..N : in(k) = {j \in 1..N : getMachineFailureDomains[j] = e(k)}
  BY <1>3
<1>10. \A k \in 1..N : (Cardinality(in(k)) - 1) * Cardinality(used) < Replicas
  BY <1>3, <1>8, <1>9
<1>11. IsFiniteSet(fds) /\ fds \subseteq Int /\ Cardinality(fds) = Cardinality(S) /\ fds # {}
  BY <1>1, <1>2, SameNumberOfNumbers
<1>12. DOMAIN mm = 0..(N - 1) /\ \A k \in 1..N : mm[k - 1] = number(e(k))
  <2> HIDE DEF list, N, e
  <2>1. DOMAIN mm = 0..(N - 1)
    BY <1>5, KeepsEveryIndex
  <2>2. \A k \in 1..N : mm[list[k].index] = list[k].fd
    BY <1>5, KeepsSingleMachines
  <2> QED
    BY <1>5, <2>1, <2>2
<1>13. \A k \in 1..Len(list) : list[k].fd \in fds
  BY <1>3, <1>4, <1>5
<1>14. unshared => \A j, k \in 1..N : e(j) = e(k) => j = k
  BY <1>1 DEF unshared
<1> HIDE DEF S, used, list, N, e, mm
<1>15. N - 1 \in Int /\ IsFiniteSet(0..(N - 1)) /\ IsFiniteSet(1..N)
  <2>1. N - 1 \in Int /\ N \in Int
    BY <1>1
  <2> QED
    BY <2>1, FS_Interval
<1>16. /\ share \in Nat /\ 1 <= share /\ Cardinality(DOMAIN base) <= share * Cardinality(fds)
       /\ Cardinality(DOMAIN base) = Max({Replicas, Cardinality(DOMAIN mm)})
  <2>1. IsFiniteSet(DOMAIN mm)
    BY <1>12, <1>15
  <2> HIDE DEF fds
  <2>2. /\ share \in Nat /\ 1 <= share /\ Cardinality(DOMAIN base) <= share * Cardinality(fds)
    BY <1>11, <2>1, BaseShare
  <2>3. Cardinality(DOMAIN base) = Max({Replicas, Cardinality(DOMAIN mm)})
    BY <1>11, <2>1, BaseIsComplete
  <2> QED
    BY <2>2, <2>3
<1>17. Cardinality(DOMAIN base) \in Nat /\ Replicas <= Cardinality(DOMAIN base)
  <2>1. \A a, b \in Nat : Max({a, b}) \in Nat /\ a <= Max({a, b})
    BY DEF Max
  <2>2. Cardinality(DOMAIN mm) \in Nat
    BY <1>12, <1>15, FS_CardinalityType
  <2> QED
    BY <1>1, <1>16, <2>1, <2>2
<1> HIDE DEF fds, base, share
<1>18. ASSUME NEW k \in 1..N
       PROVE  Cardinality(in(k)) \in Nat /\ Cardinality(in(k)) <= share
  <2>1. in(k) \in SUBSET (1..N) /\ k \in in(k)
    OBVIOUS
  <2> DEFINE A == in(k)
             c == Cardinality(A)
  <2> HIDE DEF A
  <2>2. IsFiniteSet(A) /\ c \in Nat
    BY <1>15, <2>1, FS_Subset, FS_CardinalityType DEF A
  <2>3. c # 0
    BY <2>1, <2>2, FS_EmptySet DEF A
  <2>4. CASE S \subseteq used
    <3>1. Cardinality(fds) = Cardinality(used) /\ Cardinality(used) \in Nat
      BY <1>3, <1>4, <1>11, <2>4, FS_CardinalityType
    <3>2. (c - 1) * Cardinality(used) < Replicas
      BY <1>10 DEF A
    <3>3. Replicas <= share * Cardinality(used)
      <4>1. share * Cardinality(used) \in Nat
        BY <1>16, <3>1
      <4> QED
        BY <1>1, <1>16, <1>17, <3>1, <4>1
    <3>4. c - 1 \in Nat
      BY <2>2, <2>3
    <3>5. (c - 1) * Cardinality(used) < share * Cardinality(used)
      <4>1. (c - 1) * Cardinality(used) \in Nat /\ share * Cardinality(used) \in Nat
        BY <1>16, <3>1, <3>4
      <4> QED
        BY <1>1, <3>2, <3>3, <4>1
    <3>6. c - 1 < share
      BY <1>16, <3>1, <3>4, <3>5, SmallerFactor
    <3> QED
      BY <1>16, <2>2, <3>6 DEF A
  <2>5. CASE unshared
    <3>1. A = {k}
      BY <1>14, <2>5, <2>1 DEF A
    <3>2. c = 1
      BY <3>1, FS_Singleton
    <3> QED
      BY <1>16, <3>2 DEF A
  <2> QED
    BY <1>4, <2>4, <2>5
<1>19. ASSUME NEW k \in 1..N
       PROVE  countForFailureDomain(mm, mm[k - 1]) = Cardinality(in(k))
  <2> DEFINE B == {n \in DOMAIN mm : mm[n] = mm[k - 1]}
             f == [j \in in(k) |-> j - 1]
  <2>1. \A j \in 1..N : mm[j - 1] = mm[k - 1] <=> e(j) = e(k)
    BY <1>3, <1>6, <1>12
  <2>2. f \in Bijection(in(k), B)
    <3>1. \A j \in in(k) : j \in Int /\ j - 1 \in B
      BY <1>1, <1>12, <2>1
    <3>2. f \in Injection(in(k), B)
      BY <3>1 DEF Injection, IsInjective
    <3>3. ASSUME NEW n \in B
          PROVE  \E j \in in(k) : f[j] = n
      <4>0. n \in 0..(N - 1)
        BY <1>12
      <4>1. n + 1 \in 1..N /\ (n + 1) - 1 = n
        BY <1>1, <4>0
      <4>2. n + 1 \in in(k)
        BY <2>1, <4>1
      <4> QED
        BY <4>1, <4>2
    <3> QED
      BY <3>1, <3>2, <3>3 DEF Bijection, Surjection, Injection
  <2>3. IsFiniteSet(in(k))
    <3>1. in(k) \in SUBSET (1..N)
      OBVIOUS
    <3> HIDE DEF in
    <3> QED
      BY <1>15, <3>1, FS_Subset
  <2> HIDE DEF B, f, in
  <2> QED
    BY <2>2, <2>3, FS_Bijection DEF countForFailureDomain, B, ExistsBijection
<1>20. \A i \in DOMAIN mm : ~(countForFailureDomain(mm, mm[i]) > share)
  <2>1. ASSUME NEW i \in DOMAIN mm
        PROVE  ~(countForFailureDomain(mm, mm[i]) > share)
    <3>0. i \in 0..(N - 1)
      BY <1>12
    <3>1. i + 1 \in 1..N /\ (i + 1) - 1 = i
      BY <1>1, <3>0
    <3>2. countForFailureDomain(mm, mm[i]) = Cardinality(in(i + 1))
      BY <1>19, <3>1
    <3>3. Cardinality(in(i + 1)) \in Nat /\ Cardinality(in(i + 1)) <= share
      BY <1>18, <3>1
    <3> HIDE DEF in
    <3> QED
      BY <1>16, <3>2, <3>3
  <2> QED
    BY <2>1
<1>21. keepsAll(out, mm)
  <2> DEFINE indexes == {list[k].index : k \in 1..Len(list)}
  <2>1. indexes = 0..(N - 1)
    BY <1>5, Zenon
  <2>2. N \in 0..Replicas
    BY <1>1
  <2> HIDE DEF indexes
  <2>3. IsFiniteSet(indexes) /\ \E n \in 0..Replicas : indexes = 0..(n - 1)
    BY <1>15, <2>1, <2>2
  <2> QED
    BY <1>5, <1>11, <1>13, <1>20, <2>3, MappingStays DEF mm, base, share, indexes
<1>22. ASSUME NEW k \in 1..N
       PROVE  indexToFailureDomain(cpms.template)[k - 1] = e(k)
  <2>1. k - 1 \in DOMAIN mm
    BY <1>1, <1>12
  <2>2. out[k - 1] = number(e(k))
    BY <1>12, <1>21, <2>1 DEF keepsAll
  <2> QED
    BY <1>2, <1>6, <1>7, <2>2
<1> QED
  BY <1>22 DEF N, e

(***************************************************************************)
(* What the generator writes fits the Machines: completed from the         *)
(* template, its failure domains are theirs.                               *)
(***************************************************************************)
completed(c) == {Complete(d, ExtractFailureDomain(c.template)) : d \in ToSet(c.domains)}

fits(c) ==
    LET used == ExtractFailureDomainsFromMachines
    IN  /\ platform # "UnknownPlatform" /\ ~c.active /\ c.template.rest = machines[1].rest
        /\ c.domains = << >> => \A fd \in used : fd = ExtractFailureDomain(c.template)
        /\ c.domains # << >> => completed(c) = used
        /\ platform = "VSphere" /\ infra.defined # {} =>
              c.template.domain = unsetDomain /\ c.template.second \in {"none", ""}
        /\ platform \in {"VSphere", "Nutanix"} => \A d \in ToSet(c.domains) : d["name"] \in infra.defined

LEMMA UnsetExtracts ==
    ASSUME NEW c, c.domain = unsetDomain
    PROVE  ExtractFailureDomain(c) = unsetDomain
  BY DEF ExtractFailureDomain, unsetDomain

LEMMA CompleteFromUnset ==
    ASSUME NEW d \in FailureDomain
    PROVE  Complete(d, unsetDomain) = d
<1>1. d = [k \in fields |-> d[k]]
  BY DomainValues
<1>2. Complete(d, unsetDomain) = [k \in fields |-> d[k]]
  BY DEF Complete, unsetDomain
<1> QED
  BY <1>1, <1>2

LEMMA WithoutFields ==
    ASSUME NEW c \in Config, NEW S
    PROVE  /\ without(c, S).domain = clear(c.domain, S) /\ without(c, S).rest = c.rest
           /\ without(c, fields).domain = unsetDomain
           /\ platform = "VSphere" => without(c, fields).second \in {"none", ""}
           /\ without(c, {}) = c
<1>1. c.domain = [k \in fields |-> c.domain[k]]
  BY DomainValues DEF Config
<1>2. \A R : without(c, R).domain = clear(c.domain, R) /\ without(c, R).rest = c.rest
  BY DEF without, Config
<1>3. clear(c.domain, fields) = unsetDomain
  BY DEF clear, unsetDomain
<1>4. clear(c.domain, {}) = c.domain
  BY <1>1 DEF clear
<1>5. without(c, {}) = c
  BY <1>4 DEF without, Config
<1>6. ASSUME platform = "VSphere"
      PROVE  without(c, fields).second \in {"none", ""}
  <2>1. "name" \in fields
    BY <1>6, PlatformFields DEF Platform
  <2>2. without(c, fields).second = unnamed(c.pools)
    BY <2>1 DEF without, Config
  <2> QED
    BY <2>2 DEF unnamed
<1> QED
  BY <1>2, <1>3, <1>5, <1>6

LEMMA GeneratedFits ==
    ASSUME placed, machinesAlike, canGenerate
    PROVE  fits(generateControlPlaneMachineSet)
<1> DEFINE used == ExtractFailureDomainsFromMachines
           B  == buildFailureDomains
           m  == machines[1]
           T  == without(m, stripped)
           c  == generateControlPlaneMachineSet
<1>1. /\ platform \in Platform /\ platform # "UnknownPlatform"
      /\ (platform = "OpenStack" => used = {unsetDomain} \/ unsetDomain \notin used)
      /\ (platform = "VSphere" => used # {unsetDomain})
  BY DEF placed, canGenerate
<1>2. /\ used = {ExtractFailureDomain(machines[k]) : k \in 1..Len(machines)}
      /\ used \subseteq FailureDomain /\ used # {} /\ IsFiniteSet(used)
      /\ m \in Config /\ ExtractFailureDomain(m) \in used
      /\ DOMAIN machines = 1..Len(machines)
      /\ \A k \in 1..Len(machines) : machines[k] \in Config
  BY MachineDomains DEF placed
<1>3. c = [domains |-> B, active |-> FALSE, author |-> "generator", template |-> T]
  BY <1>1, GeneratedTemplate
<1>4. ToSet(B) = generated /\ (B = << >> <=> generated = {}) /\ generated \subseteq FailureDomain
  BY <1>1, GeneratedDomains
<1>5. T.rest = m.rest /\ T.domain = clear(m.domain, stripped)
  BY <1>2, WithoutFields
<1>6. stripped = fields => T.domain = unsetDomain /\ (platform = "VSphere" => T.second \in {"none", ""})
  BY <1>2, WithoutFields
<1>7. stripped = {} => T = m
  BY <1>2, WithoutFields
<1>16. ASSUME B = << >> => \A fd \in used : fd = ExtractFailureDomain(c.template),
              B # << >> => completed(c) = used,
              platform = "VSphere" => T.domain = unsetDomain /\ T.second \in {"none", ""},
              platform \in {"VSphere", "Nutanix"} => \A d \in ToSet(B) : d["name"] \in infra.defined
       PROVE  fits(generateControlPlaneMachineSet)
  <2>1. c.domains = B /\ c.active = FALSE /\ c.template = T
    BY <1>3
  <2> HIDE DEF c, B, T
  <2>2. fits(c)
    BY <1>1, <1>5, <1>16, <2>1 DEF fits
  <2> QED
    BY <2>2 DEF c
<1> HIDE DEF c, B, T, m, used
<1>8. ASSUME generated = used, stripped = fields
      PROVE  B # << >> /\ completed(c) = used /\ T.domain = unsetDomain
  <2>1. ExtractFailureDomain(c.template) = unsetDomain
    BY <1>3, <1>6, <1>8, UnsetExtracts
  <2>2. \A d \in used : Complete(d, unsetDomain) = d
    BY <1>2, CompleteFromUnset
  <2>3. completed(c) = {Complete(d, unsetDomain) : d \in used}
    BY <1>3, <1>4, <1>8, <2>1 DEF completed
  <2>4. completed(c) = used
    BY <2>2, <2>3
  <2>5. T.domain = unsetDomain
    BY <1>6, <1>8
  <2> QED
    BY <1>2, <1>4, <1>8, <2>4, <2>5
<1>9. ASSUME generated = {}, stripped = {}, \A x, y \in used : x = y
      PROVE  B = << >> /\ \A fd \in used : fd = ExtractFailureDomain(c.template)
  BY <1>2, <1>3, <1>4, <1>7, <1>9
<1>10. CASE platform \in {"AWS", "GCP"}
  <2>1. generated = used /\ stripped = fields
    BY <1>10 DEF generated, stripped, used
  <2> QED
    BY <1>4, <1>16, <1>8, <1>10, <2>1
<1>11. CASE platform = "OpenStack"
  <2>1. generated = used \ {unsetDomain} /\ stripped = IF B = << >> THEN {} ELSE fields
    BY <1>11 DEF generated, stripped, used, B
  <2>2. CASE used = {unsetDomain}
    <3>1. generated = {} /\ stripped = {} /\ \A x, y \in used : x = y
      BY <1>4, <2>1, <2>2
    <3> QED
      BY <1>4, <1>16, <1>9, <1>11, <3>1
  <2>3. CASE unsetDomain \notin used
    <3>1. generated = used /\ stripped = fields
      BY <1>2, <1>4, <2>1, <2>3
    <3> QED
      BY <1>4, <1>16, <1>8, <1>11, <3>1
  <2> QED
    BY <1>1, <1>11, <2>2, <2>3
<1>12. ASSUME platform \in {"VSphere", "Nutanix"}
       PROVE  /\ used = {unsetDomain} \/ \A fd \in used : fd["name"] # ""
              /\ \A fd \in used : fd["name"] # "" => fd["name"] \in infra.defined
              /\ \A fd \in used : fd = unsetDomain <=> fd["name"] = ""
              /\ generated = {fd \in used : fd["name"] # ""}
  <2>1. fields = {"name"}
    BY <1>1, <1>12, PlatformFields
  <2>2. \A fd \in used : fd = [k \in fields |-> fd[k]]
    BY <1>2, DomainValues
  <2>3. \A fd \in used : fd = unsetDomain <=> fd["name"] = ""
    BY <2>1, <2>2 DEF unsetDomain
  <2>4. \A x, y \in used : x["name"] = "" <=> y["name"] = ""
    <3>1. \A x : "name" \in setFields(x) <=> x["name"] # ""
      BY <2>1 DEF setFields
    <3> QED
      BY <3>1 DEF machinesAlike, used
  <2>5. recognised \subseteq infra.defined
    BY <1>12 DEF recognised, recognisedByName, recognisedByWorkspace
  <2>6. ASSUME NEW fd \in used, fd["name"] # ""
        PROVE  fd["name"] \in infra.defined
    BY <1>2, <2>1, <2>5, <2>6 DEF ExtractFailureDomain
  <2>7. generated = {fd \in used : fd["name"] # ""}
    BY <1>12 DEF generated, used
  <2> QED
    BY <1>2, <2>3, <2>4, <2>6, <2>7
<1>13. CASE platform = "VSphere"
  <2>1. used # {unsetDomain} /\ \A fd \in used : fd["name"] # "" /\ fd["name"] \in infra.defined
    BY <1>1, <1>12, <1>13
  <2>2. generated = used /\ stripped = fields
    <3>1. infra.defined # {}
      BY <1>2, <2>1
    <3>2. stripped = IF infra.defined = {} THEN {} ELSE fields
      BY <1>13 DEF stripped
    <3> QED
      BY <1>12, <1>13, <2>1, <3>1, <3>2
  <2> QED
    BY <1>4, <1>6, <1>16, <1>8, <1>13, <2>1, <2>2
<1>14. CASE platform = "Nutanix"
  <2>1. stripped = IF B = << >> THEN {} ELSE fields
    BY <1>14 DEF stripped, B
  <2>2. CASE used = {unsetDomain}
    <3>1. generated = {} /\ \A x, y \in used : x = y
      BY <1>12, <1>14, <2>2
    <3>2. stripped = {}
      BY <1>4, <2>1, <3>1
    <3> QED
      BY <1>4, <1>16, <1>9, <1>14, <3>1, <3>2
  <2>3. CASE \A fd \in used : fd["name"] # ""
    <3>1. generated = used
      BY <1>12, <1>14, <2>3
    <3>2. stripped = fields
      BY <1>2, <1>4, <2>1, <3>1
    <3>3. \A fd \in used : fd["name"] \in infra.defined
      BY <1>12, <1>14, <2>3
    <3> QED
      BY <1>4, <1>16, <1>8, <1>14, <3>1, <3>2, <3>3
  <2> QED
    BY <1>12, <1>14, <2>2, <2>3
<1>15. CASE platform = "Azure"
  <2>1. \A k \in 1..Len(machines) : ExtractFailureDomain(machines[k]) = machines[k].domain
    <3>1. recognised = Value
      BY <1>15 DEF recognised
    <3>2. \A k \in 1..Len(machines) : /\ machines[k].domain = [f \in fields |-> machines[k].domain[f]]
                                      /\ \A f \in fields : machines[k].domain[f] \in Value
      BY <1>2, DomainValues DEF Config
    <3> QED
      BY <3>1, <3>2 DEF ExtractFailureDomain
  <2>2. {machines[k].domain : k \in DOMAIN machines} = used
    BY <1>2, <2>1
  <2>3. stripped = fields \ matching(used)
    BY <1>15, <2>2 DEF stripped
  <2>4. generated = IF Cardinality(used) <= 1 THEN {}
                    ELSE {clear(fd, matching(used)) : fd \in used}
    BY <1>15 DEF generated, used
  <2>5. CASE Cardinality(used) <= 1
    <3>1. \A x, y \in used : x = y
      <4>1. Cardinality(used) = 0 \/ Cardinality(used) = 1
        BY <1>2, <2>5, FS_CardinalityType
      <4>2. Cardinality(used) # 0
        BY <1>2, FS_EmptySet
      <4>3. \E x : used = {x}
        BY <1>2, <4>1, <4>2, FS_Singleton
      <4> QED
        BY <4>3
    <3>2. stripped = {}
      BY <2>3, <3>1 DEF matching
    <3> QED
      BY <1>4, <1>16, <1>9, <1>15, <2>4, <2>5, <3>1, <3>2
  <2>6. CASE ~(Cardinality(used) <= 1)
    <3> DEFINE M == matching(used)
    <3>1. ToSet(B) = {clear(fd, M) : fd \in used} /\ B # << >>
      BY <1>2, <1>4, <2>4, <2>6
    <3>2. /\ T \in Config /\ T.domain = clear(m.domain, fields \ M)
          /\ ExtractFailureDomain(T) = T.domain
      <4>1. T \in Config
        BY <1>2, WithoutIsConfig DEF T
      <4>2. recognised = Value
        BY <1>15 DEF recognised
      <4>3. T.domain = [f \in fields |-> T.domain[f]] /\ \A f \in fields : T.domain[f] \in Value
        BY <4>1, DomainValues DEF Config
      <4> QED
        BY <1>5, <2>3, <4>1, <4>2, <4>3 DEF ExtractFailureDomain
    <3>3. m.domain \in used
      BY <1>2, <2>1, MachineDomains DEF m
    <3>4. \A fd \in used : \A k \in M : fd[k] = m.domain[k]
      BY <3>3 DEF matching
    <3>5. ASSUME NEW fd \in used
          PROVE  Complete(clear(fd, M), T.domain) = fd
      <4>1. fd = [k \in fields |-> fd[k]]
        BY <1>2, DomainValues
      <4>2. M \subseteq fields
        BY DEF matching
      <4> HIDE DEF M
      <4>3. \A k \in fields : /\ clear(fd, M)[k] = IF k \in M THEN "" ELSE fd[k]
                              /\ T.domain[k] = IF k \in M THEN m.domain[k] ELSE ""
        BY <3>2 DEF clear
      <4>4. \A k \in fields : Complete(clear(fd, M), T.domain)[k] = fd[k]
        BY <3>4, <4>3 DEF Complete
      <4>5. Complete(clear(fd, M), T.domain) =
                [k \in fields |-> Complete(clear(fd, M), T.domain)[k]]
        BY DEF Complete
      <4> QED
        BY <4>1, <4>4, <4>5
    <3>6. completed(c) = used
      <4>1. completed(c) = {Complete(d, T.domain) : d \in {clear(fd, M) : fd \in used}}
        BY <1>3, <3>1, <3>2 DEF completed
      <4> HIDE DEF M
      <4> QED
        BY <3>5, <4>1
    <3> QED
      BY <1>4, <1>16, <1>15, <3>1, <3>6
  <2> QED
    BY <2>5, <2>6
<1> QED
  BY <1>1, <1>10, <1>11, <1>13, <1>14, <1>15 DEF Platform, c

(***************************************************************************)
(* Only Machines with a root volume set its fields.                        *)
(***************************************************************************)
rootless ==
    \A k \in DOMAIN machines : ~machines[k].root =>
        \A f \in fields \cap rootFields : machines[k].domain[f] = ""

(***************************************************************************)
(* The second network of a Machine is that of its failure domain, and a    *)
(* template has that of the newest Machine or none.  Past the checks of    *)
(* the spec one with failure domains has none.                             *)
(***************************************************************************)
networked ==
    \A k \in DOMAIN machines :
        /\ machines[k].second = networkOf(machines[k].domain, machines[k].pools)
        /\ platform # "VSphere" => machines[k].pools = 0

networkGiven(t) ==
    /\ t.second \in {"a", "b", unnamed(t.pools)}
    /\ platform # "VSphere" => t.second = "none"

networkIgnored ==
    platform = "VSphere" /\ cpms.domains # << >> => cpms.template.second \in {"none", ""}

AdmissionInv ==
    /\ SharingInv /\ rootless /\ networked /\ networkGiven(cpms.template)
    /\ pc \notin {"write", "spec", "rejected"} => networkIgnored
    /\ cpms.author = "generator" => fits(cpms)
    /\ GeneratedIsAdmitted
    /\ pc = "admitted" \/ providing => matches

LEMMA FrozenFacts ==
    ASSUME UNCHANGED inputs
    PROVE  /\ fits(cpms)' = fits(cpms') /\ rootless' = rootless /\ networked' = networked
           /\ networkGiven(cpms.template)' = networkGiven(cpms'.template)
           /\ UNCHANGED cpms => matches' = matches /\ networkIgnored' = networkIgnored
<1>1. /\ platform' = platform /\ infra' = infra /\ machines' = machines
      /\ fields' = fields /\ recognised' = recognised /\ unsetDomain' = unsetDomain
      /\ ExtractFailureDomainsFromMachines' = ExtractFailureDomainsFromMachines
  BY SameInputs
<1>2. ExtractFailureDomain(cpms.template)' = ExtractFailureDomain(cpms'.template)
  BY <1>1 DEF ExtractFailureDomain
<1>3. completed(cpms)' = completed(cpms')
  BY <1>1, <1>2 DEF completed, Complete
<1>4. fits(cpms)' = fits(cpms')
  BY <1>1, <1>2, <1>3 DEF fits
<1>5. /\ rootless' = rootless /\ networked' = networked
      /\ networkGiven(cpms.template)' = networkGiven(cpms'.template)
      /\ UNCHANGED cpms => networkIgnored' = networkIgnored
  BY <1>1 DEF rootless, networked, networkOf, networkGiven, networkIgnored
<1>6. unshared' = unshared
  BY <1>1 DEF unshared, ExtractFailureDomain
<1>7. ASSUME UNCHANGED cpms
      PROVE  matches' = matches
  <2>1. /\ cpms' = cpms /\ specified(cpms.template)' = specified(cpms.template)
        /\ ExtractFailureDomain(cpms.template)' = ExtractFailureDomain(cpms.template)
    BY <1>7, SameCPMS
  <2> QED
    BY <1>1, <1>6, <2>1 DEF matches
<1> QED
  BY <1>4, <1>5, <1>7

(***************************************************************************)
(* The dry run overwrites nothing the create checks read: they see the     *)
(* failure domains the template itself completes.                          *)
(***************************************************************************)
LEMMA ChecksSeeTemplate ==
    ASSUME SharingInv
    PROVE  /\ cpms.domains = << >> => ExtractFailureDomain(raw) = ExtractFailureDomain(cpms.template)
           /\ specified(raw) = specified(cpms.template)
<1>1. stored /\ raw \in Config /\ \A k \in leftOpen : raw.domain[k] = cpms.template.domain[k]
  BY DEF SharingInv, TypeInv, TypeOK, CPMS, stored, rawKept
<1>2. specified(raw) = specified(cpms.template)
  BY <1>1, OverwrittenTemplate
<1>3. ASSUME cpms.domains = << >>
      PROVE  ExtractFailureDomain(raw) = ExtractFailureDomain(cpms.template)
  <2>1. leftOpen = fields
    BY <1>1, <1>3, NothingKeepsTemplate
  <2> QED
    BY <1>1, <2>1 DEF ExtractFailureDomain
<1> QED
  BY <1>2, <1>3

LEMMA NoDuplicates ==
    ASSUME NEW T, NEW list \in Seq(T), duplicatedFailureDomains(list) = {}
    PROVE  \A j, k \in 1..Len(list) : list[j] = list[k] => j = k
<1> SUFFICES ASSUME NEW j \in 1..Len(list), NEW k \in 1..Len(list), list[j] = list[k], j # k
             PROVE  FALSE
  OBVIOUS
<1> DEFINE N == Len(list)
           A == {n \in DOMAIN list : list[n] = list[j]}
<1>1. DOMAIN list = 1..N /\ N \in Nat
  OBVIOUS
<1>2. list[j] \in ToSet(list) /\ j \in A /\ k \in A /\ A \in SUBSET (1..N)
  BY <1>1 DEF ToSet
<1>3. ~(Cardinality(A) > 1)
  BY <1>2 DEF duplicatedFailureDomains
<1> HIDE DEF A, N
<1>4. IsFiniteSet(1..N)
  <2>1. N \in Int
    BY <1>1
  <2> QED
    BY <2>1, FS_Interval
<1>5. IsFiniteSet(A) /\ Cardinality(A) \in Nat
  BY <1>2, <1>4, FS_Subset, FS_CardinalityType
<1>6. {j} \cup {k} \in SUBSET A
  BY <1>2
<1>7. Cardinality({j} \cup {k}) = 2
  <2>1. IsFiniteSet({j}) /\ Cardinality({j}) = 1
    BY FS_Singleton
  <2>2. k \notin {j}
    OBVIOUS
  <2>3. Cardinality({j} \cup {k}) = Cardinality({j}) + 1
    BY <2>1, <2>2, FS_AddElement
  <2> DEFINE c == Cardinality({j} \cup {k})
  <2>4. c = 1 + 1
    BY <2>1, <2>3
  <2> HIDE DEF c
  <2>5. c = 2
    BY <2>4
  <2> QED
    BY <2>5 DEF c
<1>8. Cardinality({j} \cup {k}) <= Cardinality(A)
  BY <1>5, <1>6, FS_Subset
<1> DEFINE a == Cardinality(A)
           b == Cardinality({j} \cup {k})
<1>9. a \in Nat /\ ~(a > 1) /\ b = 2 /\ b <= a
  BY <1>3, <1>5, <1>7, <1>8
<1> HIDE DEF a, b
<1> QED
  BY <1>9

LEMMA AdmittedMatches ==
    ASSUME SharingInv, validateSpecOnCreate
    PROVE  matches
<1> DEFINE used == ExtractFailureDomainsFromMachines
           g    == getMachineFailureDomains
           T    == cpms.template
           s    == CompleteFailureDomains(cpms.domains, ExtractFailureDomain(raw))
<1>1. placed
  BY DEF SharingInv, TypeInv
<1>2. /\ g \in Seq(FailureDomain) /\ Len(g) = Len(machines) /\ DOMAIN machines = 1..Len(machines)
      /\ \A k \in 1..Len(machines) : g[k] = ExtractFailureDomain(machines[k])
  BY <1>1, MachineDomains DEF placed
<1>3. used = ToSet(g) /\ specified(raw) = ToSet(s)
  BY DEF ExtractFailureDomainsFromMachines, specified
<1>4. /\ cpms.domains = << >> => ExtractFailureDomain(raw) = ExtractFailureDomain(T)
      /\ specified(raw) = specified(T)
  BY ChecksSeeTemplate
<1>5. CASE cpms.domains = << >>
  <2>1. \A fd \in used : ExtractFailureDomain(raw) = fd
    BY <1>5 DEF validateSpecOnCreate, validateOpenShiftMachineV1BetaTemplateOnCreate,
                checkOpenShiftProviderSpecFailureDomainMatchesMachines
  <2> QED
    BY <1>4, <1>5, <2>1 DEF matches
<1>6. CASE cpms.domains # << >>
  <2>1. ToSet(g) \ ToSet(s) = {} /\ (ToSet(s) \ ToSet(g) # {} => duplicatedFailureDomains(g) = {})
    BY <1>6 DEF validateSpecOnCreate, validateOpenShiftMachineV1BetaTemplateOnCreate,
                checkOpenShiftFailureDomainsMatchMachines, missingFailureDomains
  <2>2. duplicatedFailureDomains(g) = {} => unshared
    <3> HIDE DEF g
    <3>1. duplicatedFailureDomains(g) = {} => \A j, k \in 1..Len(g) : g[j] = g[k] => j = k
      BY <1>2, NoDuplicates
    <3> QED
      BY <1>2, <3>1 DEF unshared
  <2>3. used \subseteq specified(T)
    BY <1>3, <1>4, <2>1
  <2>4. specified(T) \subseteq used \/ unshared
    BY <1>3, <1>4, <2>1, <2>2
  <2> QED
    BY <1>6, <2>3, <2>4 DEF matches
<1> QED
  BY <1>5, <1>6

LEMMA FittingIsAdmitted ==
    ASSUME SharingInv, fits(cpms)
    PROVE  validateSpecOnCreate
<1> DEFINE used == ExtractFailureDomainsFromMachines
           T    == cpms.template
<1>1. stored
  BY DEF SharingInv, TypeInv, TypeOK, CPMS, stored
<1>2. /\ cpms.domains = << >> => ExtractFailureDomain(raw) = ExtractFailureDomain(T)
      /\ specified(raw) = specified(T)
  BY ChecksSeeTemplate
<1>3. specified(T) = completed(cpms)
  BY <1>1, SpecifiedDomains DEF stored, completed
<1>4. /\ ~cpms.active
      /\ cpms.domains = << >> => \A fd \in used : fd = ExtractFailureDomain(T)
      /\ cpms.domains # << >> => completed(cpms) = used
  BY DEF fits
<1>5. CASE cpms.domains = << >>
  BY <1>2, <1>4, <1>5 DEF validateSpecOnCreate, validateOpenShiftMachineV1BetaTemplateOnCreate,
                checkOpenShiftProviderSpecFailureDomainMatchesMachines
<1>6. CASE cpms.domains # << >>
  <2>1. ToSet(CompleteFailureDomains(cpms.domains, ExtractFailureDomain(raw)))
            = ToSet(getMachineFailureDomains)
    BY <1>2, <1>3, <1>4, <1>6 DEF specified, ExtractFailureDomainsFromMachines
  <2> QED
    BY <1>4, <1>6, <2>1 DEF validateSpecOnCreate, validateOpenShiftMachineV1BetaTemplateOnCreate,
                checkOpenShiftFailureDomainsMatchMachines, missingFailureDomains
<1> QED
  BY <1>5, <1>6

LEMMA FittingIsValid ==
    ASSUME SharingInv, fits(cpms), ~(platform \in {"Azure", "OpenStack"} /\ machines[1].rest = "bad")
    PROVE  /\ validateOpenShiftProviderConfig(cpms)
           /\ cpms.domains # << >> => canInject(cpms.domains[1])
<1>1. platform \in Platform /\ platform # "UnknownPlatform" /\ cpms.domains \in Seq(FailureDomain)
  BY DEF SharingInv, TypeInv, TypeOK, CPMS, fits
<1>2. cpms.domains # << >> => cpms.domains[1] \in ToSet(cpms.domains)
  BY <1>1 DEF ToSet
<1>3. CASE platform \in {"AWS", "GCP"}
  BY <1>3 DEF validateOpenShiftProviderConfig, canInject
<1>4. CASE platform \in {"Azure", "OpenStack"}
  <2>1. cpms.template.rest # "bad"
    BY <1>4 DEF fits
  <2> QED
    BY <1>4, <2>1 DEF validateOpenShiftProviderConfig, canInject, validateOpenShiftAzureProviderConfig,
                      validateOpenShiftOpenStackProviderConfig
<1>5. CASE platform = "VSphere"
  <2>1. /\ infra.defined # {} =>
              cpms.template.domain = unsetDomain /\ cpms.template.second \in {"none", ""}
        /\ \A d \in ToSet(cpms.domains) : d["name"] \in infra.defined
    BY <1>5 DEF fits
  <2>2. validateOpenShiftProviderConfig(cpms)
    BY <1>5, <2>1 DEF validateOpenShiftProviderConfig, validateOpenShiftVSphereProviderConfig,
                      checkForFailureDomainIgnoredFields
  <2>3. cpms.domains # << >> => canInject(cpms.domains[1])
    BY <1>2, <1>5, <2>1 DEF canInject, getFailureDomainFromInfrastructure
  <2> QED
    BY <2>2, <2>3
<1>6. CASE platform = "Nutanix"
  <2>1. \A d \in ToSet(cpms.domains) : d["name"] \in infra.defined
    BY <1>6 DEF fits
  <2>2. validateOpenShiftProviderConfig(cpms)
    BY <1>6, <2>1 DEF validateOpenShiftProviderConfig, validateOpenShiftNutanixProviderConfig,
                      GetFailureDomainByName
  <2>3. cpms.domains # << >> => canInject(cpms.domains[1])
    BY <1>2, <1>6, <2>1 DEF canInject, GetFailureDomainByName
  <2> QED
    BY <2>2, <2>3
<1> QED
  BY <1>1, <1>3, <1>4, <1>5, <1>6 DEF Platform

LEMMA AdmissionInvInit == ASSUME ~Mixed PROVE Init => AdmissionInv
<1> SUFFICES ASSUME Init PROVE AdmissionInv
  OBVIOUS
<1>1. SharingInv
  BY SharingInvInit
<1>2. cpms.author = "nobody" /\ pc = "write"
  BY DEF Init, noCPMS
<1>3. rootless
  BY DEF Init, placeable, rootless, setFields
<1>4. networked
  <2>1. \A k \in DOMAIN machines : machines[k].second = networkOf(machines[k].domain, machines[k].pools)
    BY DEF Init
  <2> QED
    BY <2>1 DEF Init, placeable, networked
<1>5. networkGiven(cpms.template)
  <2>1. cpms.template.second = "none" /\ cpms.template.pools = 0
    BY DEF Init, noCPMS
  <2>2. unnamed(0) = "none"
    BY DEF unnamed
  <2> QED
    BY <2>1, <2>2 DEF networkGiven
<1> QED
  BY <1>1, <1>2, <1>3, <1>4, <1>5 DEF AdmissionInv, GeneratedIsAdmitted, providing

LEMMA AdmissionInvStep == ASSUME ~Mixed PROVE AdmissionInv /\ [Next]_vars => AdmissionInv'
<1> SUFFICES ASSUME AdmissionInv, [Next]_vars
             PROVE  AdmissionInv'
  OBVIOUS
<1>1. SharingInv /\ SharingInv' /\ rootless /\ networked /\ networkGiven(cpms.template)
  BY SharingInvStep DEF AdmissionInv
<1>2. UNCHANGED inputs /\ machines' = machines /\ platform' = platform
  BY DEF Next, UserWrites, GeneratorWrites, ValidateSpec, ValidateOnCreate, NewMachineProvider,
         WithClient, GenerateMachineInfo, CreateMachine, vars, inputs
<1>3. /\ fits(cpms)' = fits(cpms') /\ rootless' /\ networked'
      /\ networkGiven(cpms.template)' = networkGiven(cpms'.template)
      /\ UNCHANGED cpms => matches' = matches /\ networkIgnored' = networkIgnored
  BY <1>1, <1>2, FrozenFacts
<1>4. /\ cpms.author = "generator" => fits(cpms)
      /\ GeneratedIsAdmitted
      /\ pc = "admitted" \/ providing => matches
      /\ pc \notin {"write", "spec", "rejected"} => networkIgnored
  BY DEF AdmissionInv
<1>5. ASSUME UNCHANGED cpms, pc' # "rejected" \/ pc' = pc, pc' = "admitted" \/ providing' => matches,
             pc' \notin {"write", "spec", "rejected"} => networkIgnored
      PROVE  AdmissionInv'
  <2>1. cpms' = cpms
    BY <1>5
  <2>2. GeneratedIsAdmitted'
    BY <1>2, <1>4, <1>5, <2>1 DEF GeneratedIsAdmitted
  <2>3. cpms'.author = "generator" => fits(cpms)'
    BY <1>3, <1>4, <2>1
  <2>4. networkGiven(cpms.template)'
    BY <1>1, <1>3, <2>1
  <2> QED
    BY <1>1, <1>3, <1>5, <2>2, <2>3, <2>4 DEF AdmissionInv
<1>6. CASE UNCHANGED vars
  BY <1>4, <1>5, <1>6 DEF vars, providing
<1>16. /\ machines[1] \in Config /\ networkGiven(machines[1])
       /\ platform # "VSphere" => unnamed(machines[1].pools) = "none"
  <2>1. /\ 1 \in DOMAIN machines /\ machines[1] \in Config /\ platform \in Platform /\ infra \in Infra
    BY <1>1, MachineDomains DEF SharingInv, TypeInv, TypeOK, placed
  <2>2. /\ machines[1].second = networkOf(machines[1].domain, machines[1].pools)
        /\ platform # "VSphere" => machines[1].pools = 0
    BY <1>1, <2>1 DEF networked
  <2>3. CASE platform = "VSphere"
    <3>1. infra.wide \subseteq {"a", "b"}
      BY <2>1 DEF Infra
    <3> QED
      BY <2>1, <2>2, <2>3, <3>1 DEF networkGiven, networkOf
  <2>4. CASE platform # "VSphere"
    <3>1. unnamed(0) = "none"
      BY DEF unnamed
    <3>2. unnamed(machines[1].pools) = "none" /\ machines[1].second = "none"
      BY <2>2, <2>4, <3>1 DEF networkOf
    <3> QED
      BY <2>1, <2>4, <3>2 DEF networkGiven
  <2> QED
    BY <2>3, <2>4
<1>7. ASSUME pc' = "spec", cpms'.author = "generator" => fits(cpms'), networkGiven(cpms'.template)
      PROVE  AdmissionInv'
  BY <1>1, <1>3, <1>7 DEF AdmissionInv, GeneratedIsAdmitted, providing
<1>8. CASE UserWrites
  <2>1. pc' = "spec" /\ cpms'.author = "user"
    BY <1>8 DEF UserWrites
  <2>2. PICK fds \in validDomains, d \in FailureDomain, active \in {TRUE, Len(machines) = Replicas},
             second \in {machines[1].second, unnamed(machines[1].pools)} :
          /\ \A x, y \in ToSet(fds) : x # y => Complete(x, d) # Complete(y, d)
          /\ ~machines[1].root => setFields(d) \cap rootFields = {}
          /\ cpms' = [domains |-> fds, active |-> active, author |-> "user",
                      template |-> [machines[1] EXCEPT !.domain = d, !.second = second,
                                       !.image = IF ignoresImage THEN "y" ELSE "x"]]
    BY <1>8, Zenon DEF UserWrites
  <2>3. cpms'.template.second = second /\ cpms'.template.pools = machines[1].pools
    BY <1>16, <2>2 DEF Config
  <2>4. networkGiven(cpms'.template)
    BY <1>16, <2>3 DEF networkGiven
  <2> QED
    BY <1>7, <2>1, <2>4
<1>9. CASE GeneratorWrites
  <2>1. pc' = "spec" /\ canGenerate /\ cpms' = generateControlPlaneMachineSet
    BY <1>9 DEF GeneratorWrites
  <2>2. fits(generateControlPlaneMachineSet)
    BY <1>1, <2>1, GeneratedFits DEF SharingInv, TypeInv
  <2>3. cpms'.template = without(machines[1], stripped)
    BY <1>1, <2>1, GeneratedTemplate DEF SharingInv, TypeInv, canGenerate
  <2>4. /\ cpms'.template.second \in {machines[1].second, unnamed(machines[1].pools)}
        /\ cpms'.template.pools = machines[1].pools
    BY <1>16, <2>3 DEF without, Config
  <2>5. networkGiven(cpms'.template)
    BY <1>16, <2>4 DEF networkGiven
  <2> QED
    BY <1>7, <2>1, <2>2, <2>5
<1>10. CASE ValidateSpec
  <2>1. UNCHANGED cpms /\ pc = "spec"
    BY <1>10 DEF ValidateSpec
  <2>2. CASE pc' = "create"
    <3>1. /\ validateOpenShiftProviderConfig(cpms)
          /\ cpms.domains # << >> => canInject(cpms.domains[1])
      BY <1>10, <2>2 DEF ValidateSpec
    <3>2. ASSUME platform = "VSphere", cpms.domains # << >>
          PROVE  cpms.template.second \in {"none", ""}
      <4>1. infra.defined # {}
        BY <3>1, <3>2 DEF canInject, getFailureDomainFromInfrastructure
      <4> QED
        BY <3>1, <3>2, <4>1 DEF validateOpenShiftProviderConfig, validateOpenShiftVSphereProviderConfig,
                               checkForFailureDomainIgnoredFields
    <3> QED
      BY <1>5, <2>1, <2>2, <3>2 DEF providing, networkIgnored
  <2>3. CASE pc' # "create"
    <3>1. pc' = "rejected" /\ ~(/\ validateOpenShiftProviderConfig(cpms)
                                /\ cpms.domains # << >> => canInject(cpms.domains[1]))
      BY <1>10, <2>3 DEF ValidateSpec
    <3>2. cpms.author = "generator" =>
              platform \in {"Azure", "OpenStack"} /\ machines[1].rest = "bad"
      BY <1>1, <1>4, <3>1, FittingIsValid
    <3>3. GeneratedIsAdmitted'
      BY <1>2, <2>1, <3>2 DEF GeneratedIsAdmitted
    <3>4. cpms'.author = "generator" => fits(cpms)'
      BY <1>3, <1>4, <2>1
    <3>5. networkGiven(cpms.template)'
      BY <1>1, <1>3, <2>1
    <3> QED
      BY <1>1, <1>3, <3>1, <3>3, <3>4, <3>5 DEF AdmissionInv, providing
  <2> QED
    BY <2>2, <2>3
<1>11. CASE ValidateOnCreate
  <2>1. UNCHANGED cpms /\ pc = "create" /\ pc' = IF validateSpecOnCreate THEN "admitted" ELSE "rejected"
    BY <1>11 DEF ValidateOnCreate
  <2>2. CASE validateSpecOnCreate
    BY <1>1, <1>4, <1>5, <2>1, <2>2, AdmittedMatches
  <2>3. CASE ~validateSpecOnCreate
    <3>1. cpms.author # "generator"
      BY <1>1, <1>4, <2>3, FittingIsAdmitted
    <3>2. networkGiven(cpms.template)'
      BY <1>1, <1>3, <2>1
    <3> QED
      BY <1>1, <1>3, <2>1, <2>3, <3>1, <3>2 DEF AdmissionInv, GeneratedIsAdmitted, providing
  <2> QED
    BY <2>2, <2>3
<1>12. CASE NewMachineProvider
  BY <1>4, <1>5, <1>12 DEF NewMachineProvider
<1>13. CASE WithClient
  BY <1>4, <1>5, <1>13 DEF WithClient, providing
<1>14. ASSUME NEW k \in 1..Replicas, GenerateMachineInfo(k)
       PROVE  AdmissionInv'
  <2>1. UNCHANGED cpms /\ providing /\ pc' # "rejected"
    BY <1>14 DEF GenerateMachineInfo, providing
  <2> QED
    BY <1>4, <1>5, <2>1 DEF providing
<1>15. ASSUME NEW k \in 1..Replicas, CreateMachine(k - 1)
       PROVE  AdmissionInv'
  <2>1. UNCHANGED cpms /\ providing /\ pc' # "rejected"
    BY <1>15 DEF CreateMachine, providing
  <2> QED
    BY <1>4, <1>5, <2>1 DEF providing
<1> QED
  BY <1>6, <1>8, <1>9, <1>10, <1>11, <1>12, <1>13, <1>14, <1>15 DEF Next

(***************************************************************************)
(* What the generator writes, the webhook admits, on every platform and    *)
(* for any number of Machines: the failure domains it lists, completed     *)
(* from the template it strips, are those of the Machines, and the dry run *)
(* that overwrites the template before the comparison does not change      *)
(* them.                                                                   *)
(***************************************************************************)
THEOREM GeneratorIsAdmitted == ASSUME ~Mixed PROVE Spec => []GeneratedIsAdmitted
<1>1. AdmissionInv => GeneratedIsAdmitted
  BY DEF AdmissionInv
<1>2. Init => AdmissionInv
  BY AdmissionInvInit
<1>3. AdmissionInv /\ [Next]_vars => AdmissionInv'
  BY AdmissionInvStep
<1> QED
  BY <1>1, <1>2, <1>3, PTL DEF Spec

(***************************************************************************)
(* A Machine where the mapping wants it has the config that is wanted.     *)
(***************************************************************************)
LEMMA AdmittedMachineStays ==
    ASSUME AdmissionInv, domainsKnown, evenlyPlaced, NEW k \in DOMAIN machines, k - 1 \in DOMAIN infos,
           [cpms.template EXCEPT !.domain = machines[k].domain, !.image = "x",
                                 !.second = machines[k].second] = machines[k],
           cpms.domains = << >> => cpms.template.second = machines[k].second,
           cpms.template.image = "x" \/ ignoresImage
    PROVE  ~infos[k - 1].needsUpdate
<1> DEFINE T == cpms.template
           m == machines[k]
           fd == failureDomainFor(indexToFailureDomain(T), k - 1)
           w == InjectFailureDomain(T, fd)
<1>1. /\ placed /\ stored /\ SharingInv /\ infosKept /\ rootless /\ networked /\ infra \in Infra
      /\ networkGiven(cpms.template)
  BY DEF AdmissionInv, SharingInv, TypeInv, TypeOK, CPMS, stored
<1>2. providing /\ matches /\ networkIgnored
  <2>1. infos # << >>
    <3>1. DOMAIN << >> = {}
      OBVIOUS
    <3> QED
      BY <3>1
  <2> QED
    BY <1>1, <2>1 DEF SharingInv, AdmissionInv, providing
<1>3. /\ k \in 1..Len(machines) /\ Len(machines) \in Nat /\ Len(machines) <= Replicas
      /\ k - 1 \in 0..(Replicas - 1) /\ (k - 1) + 1 = k /\ m \in Config /\ T \in Config
  BY <1>1, ReplicasAssumption DEF placed, stored
<1>4. infos[k - 1].needsUpdate => Differs(w, m)
  BY <1>1, <1>3 DEF infosKept, kept
<1>5. /\ m.domain = ExtractFailureDomain(m) /\ T.domain = ExtractFailureDomain(T)
  BY <1>3 DEF domainsKnown, ToSet
<1>6. m.root = T.root /\ m.rest = T.rest /\ m.image = "x" /\ m.pools = T.pools
  <2> DEFINE d == m.domain
             n == m.second
  <2>1. m = [T EXCEPT !.domain = d, !.image = "x", !.second = n]
    OBVIOUS
  <2> HIDE DEF m, d, n
  <2> QED
    BY <1>3, <2>1 DEF Config
<1>7. ExtractFailureDomain(m) \in ExtractFailureDomainsFromMachines
  BY <1>1, <1>3, MachineDomains
<1>18. cpms.domains # << >> => fd = ExtractFailureDomain(m)
  <2>1. ASSUME cpms.domains # << >>
        PROVE  fd = ExtractFailureDomain(m)
    <3>1. indexToFailureDomain(T) # << >>
      BY <1>1, <1>3, <2>1, MappedKeepsTemplate DEF mapped
    <3>2. indexToFailureDomain(T)[k - 1] = ExtractFailureDomain(m)
      BY <1>1, <1>2, <1>3, <2>1, EvenlyPlacedStays
    <3> QED
      BY <3>1, <3>2 DEF failureDomainFor
  <2> QED
    BY <2>1
<1>8. /\ fd \in FailureDomain
      /\ \A f \in fields : /\ fd[f] = "" => T.domain[f] = m.domain[f]
                           /\ fd[f] # "" => fd[f] = m.domain[f]
  <2>1. CASE cpms.domains = << >>
    <3>1. fd = unsetDomain
      BY <2>1 DEF failureDomainFor, indexToFailureDomain
    <3>2. ExtractFailureDomain(m) = ExtractFailureDomain(T)
      BY <1>2, <1>7, <2>1 DEF matches
    <3> QED
      BY <1>5, <3>1, <3>2, UnsetIsDomain DEF unsetDomain
  <2>2. CASE cpms.domains # << >>
    <3>1. fd = ExtractFailureDomain(m)
      BY <1>18, <2>2
    <3>2. fd \in specified(T)
      BY <1>2, <1>7, <2>2, <3>1 DEF matches
    <3> HIDE DEF fd, T
    <3>3. /\ specified(T) = {Complete(d, ExtractFailureDomain(T)) : d \in ToSet(cpms.domains)}
          /\ specified(T) \subseteq FailureDomain
      BY <1>1, <1>3, SpecifiedDomains DEF stored
    <3>4. PICK d \in ToSet(cpms.domains) : fd = Complete(d, ExtractFailureDomain(T))
      BY <3>2, <3>3
    <3>5. \A f \in fields : fd[f] = "" => ExtractFailureDomain(T)[f] = ""
      BY <3>4 DEF Complete
    <3> QED
      BY <1>5, <3>1, <3>2, <3>3, <3>5
  <2> QED
    BY <2>1, <2>2
<1>17. cpms.domains # << >> => fd = m.domain
  BY <1>5, <1>18
<1>9. \A f \in fields \cap rootFields : ~m.root => m.domain[f] = ""
  BY <1>1 DEF rootless
<1>15. secondNetwork(T, fd) = m.second
  <2>1. /\ m.second = networkOf(m.domain, m.pools) /\ (platform # "VSphere" => m.pools = 0)
        /\ T.second \in {"a", "b", unnamed(T.pools)} /\ (platform # "VSphere" => T.second = "none")
        /\ (cpms.domains = << >> => T.second = m.second) /\ m.pools = T.pools
    BY <1>1, <1>6 DEF networked, networkGiven
  <2>2. CASE platform # "VSphere"
    BY <2>1, <2>2 DEF secondNetwork, networkOf, unnamed
  <2>3. CASE platform = "VSphere" /\ cpms.domains = << >>
    <3>1. fd = unsetDomain /\ "name" \in fields
      BY <2>3, PlatformFields DEF failureDomainFor, indexToFailureDomain, Platform
    <3>2. fd["name"] = ""
      BY <3>1 DEF unsetDomain
    <3> HIDE DEF fd
    <3> QED
      BY <2>1, <2>3, <3>2 DEF secondNetwork
  <2>4. CASE platform = "VSphere" /\ cpms.domains # << >>
    <3>1. "name" \in fields /\ T.second \in {"none", ""}
      BY <1>2, <2>4, PlatformFields DEF Platform, networkIgnored
    <3>2. T.second = unnamed(T.pools)
      BY <2>1, <3>1 DEF unnamed
    <3>3. fd["name"] # "" => fd["name"] = m.domain["name"]
      BY <1>8, <3>1
    <3>4. fd["name"] = "" => m.domain["name"] = ""
      BY <1>17, <2>4
    <3>5. infra.wide \subseteq {"a", "b"}
      BY <1>1 DEF Infra
    <3> HIDE DEF fd, T, m
    <3>6. m.pools \in 0..2
      BY <1>3 DEF Config
    <3>7. CASE fd["name"] = ""
      <4>1. m.second = unnamed(m.pools)
        BY <2>1, <3>4, <3>5, <3>7 DEF networkOf
      <4> QED
        BY <2>1, <3>2, <3>7, <4>1 DEF secondNetwork
    <3>8. CASE fd["name"] # "" /\ fd["name"] \in infra.wide
      BY <2>1, <2>4, <3>3, <3>8 DEF secondNetwork, networkOf
    <3>9. CASE fd["name"] # "" /\ fd["name"] \notin infra.wide
      <4>1. m.second = unnamed(m.pools)
        BY <2>1, <3>3, <3>9 DEF networkOf
      <4>2. secondNetwork(T, fd) = IF T.pools > 0 THEN T.second ELSE "none"
        BY <2>4, <3>9 DEF secondNetwork
      <4>3. T.pools > 0 \/ T.pools = 0
        BY <2>1, <3>6
      <4>4. unnamed(0) = "none"
        BY DEF unnamed
      <4>5. 0 > 0 <=> FALSE
        OBVIOUS
      <4>6. CASE T.pools > 0
        BY <2>1, <3>2, <4>1, <4>2, <4>6
      <4>7. CASE T.pools = 0
        BY <2>1, <4>1, <4>2, <4>4, <4>5, <4>7
      <4> QED
        BY <4>3, <4>6, <4>7
    <3> QED
      BY <3>7, <3>8, <3>9
  <2> QED
    BY <2>2, <2>3, <2>4
<1> HIDE DEF fd, T, m
<1>10. /\ w \in Config /\ w.root = T.root /\ w.image = T.image /\ w.rest = T.rest
       /\ w.pools = T.pools /\ w.second = secondNetwork(T, fd)
       /\ \A f \in fields : w.domain[f] = IF fd[f] # "" /\ (f \in rootFields => T.root) THEN fd[f]
                                          ELSE T.domain[f]
  BY <1>3, <1>8, InjectedFields
<1> HIDE DEF w
<1>11. \A f \in fields : w.domain[f] = m.domain[f]
  BY <1>6, <1>8, <1>9, <1>10
<1>12. [w EXCEPT !.image = "x"] = m
  <2> DEFINE v == [w EXCEPT !.image = "x"]
  <2>1. /\ v \in Config /\ v.root = w.root /\ v.rest = w.rest /\ v.image = "x" /\ v.domain = w.domain
        /\ v.pools = w.pools /\ v.second = w.second
    BY <1>10 DEF Config
  <2> HIDE DEF v
  <2>2. /\ v \in Config /\ m \in Config /\ v.root = m.root /\ v.image = m.image /\ v.rest = m.rest
        /\ v.pools = m.pools /\ v.second = m.second
        /\ \A f \in fields : v.domain[f] = m.domain[f]
    BY <1>3, <1>6, <1>10, <1>11, <1>15, <2>1
  <2>3. v = m
    BY <2>2, SameConfig
  <2> QED
    BY <2>3 DEF v
<1>13. [m EXCEPT !.image = "x"] = m
  BY <1>3, <1>6 DEF Config
<1>14. ~Differs(w, m)
  <2>1. CASE ignoresImage
    BY <1>12, <1>13, <2>1 DEF Differs
  <2>2. CASE ~ignoresImage
    <3>1. w.image = "x"
      BY <1>10, <2>2 DEF T
    <3>2. /\ w \in Config /\ m \in Config /\ w.root = m.root /\ w.image = m.image /\ w.rest = m.rest
          /\ w.pools = m.pools /\ w.second = m.second
      BY <1>3, <1>6, <1>10, <1>15, <3>1
    <3>3. w = m
      BY <1>11, <3>2, SameConfig
    <3> QED
      BY <2>2, <3>3 DEF Differs
  <2> QED
    BY <2>1, <2>2
<1> QED
  BY <1>4, <1>14

(***************************************************************************)
(* What the webhook admits leaves evenly placed Machines alone, for any    *)
(* number of replicas and failure domains: the Machines' failure domains   *)
(* are among those listed, none has more Machines than its share, so the   *)
(* mapping keeps each, and the config it wants is the Machine's.           *)
(***************************************************************************)
THEOREM AdmissionIsSilent == ASSUME ~Mixed PROVE Spec => []AdmittedStays
<1>1. AdmissionInv => AdmittedStays
  BY AdmittedMachineStays DEF AdmittedStays
<1>2. Init => AdmissionInv
  BY AdmissionInvInit
<1>3. AdmissionInv /\ [Next]_vars => AdmissionInv'
  BY AdmissionInvStep
<1> QED
  BY <1>1, <1>2, <1>3, PTL DEF Spec

=============================================================================
