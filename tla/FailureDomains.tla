--------------------------- MODULE FailureDomains ---------------------------
(***************************************************************************)
(* Failure domains on their way from Machines into a ControlPlaneMachineSet *)
(* and back: the generator reads them off the Machines, the webhook        *)
(* compares them with the Machines, the provider maps them to indexes and  *)
(* injects them into the provider config each index should have            *)
(* (failuredomain/, providerconfig/, provider.go, webhooks.go, and the     *)
(* platform files of the generator).                                       *)
(*                                                                         *)
(* The interesting part is what the Go code shares.  A template is passed  *)
(* on by value, but its provider spec is behind a pointer: the dry-run     *)
(* Machines of the webhook and of the provider overwrite it (variable      *)
(* raw).  An OpenStack root volume is behind a pointer, and so are the     *)
(* network devices of a vSphere config with address pools: injecting a     *)
(* failure domain changes them in the config that was to be copied         *)
(* (variable config).                                                      *)
(***************************************************************************)
EXTENDS IndexMapping

CONSTANTS
    MaxDomains,  \* bound: failure domains a user lists
    Mixed        \* TRUE: failure domains of one list, and Machines, may set
                 \*   different fields, or have one network or two

ASSUME DomainsAssumption == MaxDomains \in Nat /\ Mixed \in BOOLEAN

VARIABLES
    platform,    \* of the infrastructure, the Machines and the template
    infra,       \* the infrastructure's failure domains: defined, with a
                 \*   resource pool of their own, and with a second network
    machines,    \* provider configs of the Machines, the newest first; the
                 \*   k-th has index k - 1
    cpms,        \* the ControlPlaneMachineSet: domains, template, active or
                 \*   not, and who wrote it
    pc,          \* where the request, and then the reconcile, stands
    raw,         \* the template's provider spec behind the shared pointer
    config,      \* the provider's own providerConfig
    mapping,     \* its indexToFailureDomain, empty without failure domains
    uncached,    \* that of its copy that uses the uncached client
    infos        \* by index: the failure domain, the config wanted there,
                 \*   and needsUpdate

inputs == <<platform, infra, machines>>
vars   == <<inputs, cpms, pc, raw, config, mapping, uncached, infos>>

(***************************************************************************)
(* The fields a failure domain has, in the order its string has them.  ""  *)
(* is a field that is not set, or a nil pointer.  One type of root volume  *)
(* is enough: it is handled like the zones.  On vSphere and Nutanix "name" *)
(* stands for all that the infrastructure's failure domain of that name    *)
(* puts into a config: workspace and first network, cluster and subnets.   *)
(***************************************************************************)
fieldsOf(p) ==
    CASE p \in {"AWS", "Azure"}       -> <<"zone", "subnet">>
      [] p = "GCP"                    -> <<"zone">>
      [] p = "OpenStack"              -> <<"zone", "rootZone", "rootType">>
      [] p \in {"VSphere", "Nutanix"} -> <<"name">>
      [] OTHER                        -> << >>

Platform == {"AWS", "Azure", "GCP", "OpenStack", "VSphere", "Nutanix", "UnknownPlatform"}

fields     == ToSet(fieldsOf(platform))
rootFields == {"rootZone", "rootType"}
Value      == {"", "a", "b"}

FailureDomain == {fd \in [fields -> Value] : "rootType" \in fields => fd["rootType"] # "b"}

setFields(fd) == {k \in fields : fd[k] # ""}
unsetDomain   == [k \in fields |-> ""]

(***************************************************************************)
(* A provider config: its failure domain fields, whether it has a root     *)
(* volume, an image that Diff may ignore, and whether the rest is what the *)
(* webhook requires (internalLoadBalancer, the size of etcd's disk).  On   *)
(* vSphere it also has how many devices take their addresses from pools,   *)
(* and the network of the second device: that of a failure domain, "" when *)
(* none is given, "none" without such a device.                            *)
(***************************************************************************)
Config == [domain : FailureDomain, root : BOOLEAN, image : {"x", "y"}, rest : {"good", "bad"},
           pools : 0..2, second : {"none"} \cup Value]

Infra == [defined : SUBSET {"a", "b"}, pooled : SUBSET {"a", "b"}, wide : SUBSET {"a", "b"}]

noCPMS == [domains |-> << >>, active |-> FALSE, author |-> "nobody",
           template |-> [domain |-> unsetDomain, root |-> FALSE, image |-> "x", rest |-> "good",
                         pools |-> 0, second |-> "none"]]

CPMS == [domains : Seq(FailureDomain), active : BOOLEAN,
         author : {"nobody", "user", "generator"}, template : Config]

(***************************************************************************)
(* Every variable has its type.                                            *)
(***************************************************************************)
TypeOK ==
    /\ platform \in Platform /\ infra \in Infra
    /\ machines \in Seq(Config) /\ cpms \in CPMS
    /\ pc \in {"write", "spec", "create", "rejected", "admitted", "infos", "uncached", "failed"}
    /\ raw \in Config /\ config \in Config
    /\ \A m \in {mapping, uncached} : m \in [DOMAIN m -> FailureDomain]
    /\ infos \in [DOMAIN infos -> [fd : FailureDomain, want : Config, needsUpdate : BOOLEAN]]

-----------------------------------------------------------------------------
(***************************************************************************)
(* failuredomain.go.  Complete, on every platform: the template fills in   *)
(* what is not set.  The bug: the template's values win.                   *)
(***************************************************************************)
CompleteTemplateFirst(fd, template) ==
    [k \in fields |-> IF template[k] # "" THEN template[k] ELSE fd[k]]

Complete(fd, template) == [k \in fields |-> IF fd[k] # "" THEN fd[k] ELSE template[k]]

CompleteFailureDomains(fds, template) == [n \in DOMAIN fds |-> Complete(fds[n], template)]

(***************************************************************************)
(* Equal compares all fields, so a Set of failure domains is a set.  List  *)
(* sorts by the strings; a number keeps their order.                       *)
(***************************************************************************)
digit(value) == CASE value = "" -> 0 [] value = "a" -> 1 [] OTHER -> 2

number(fd) ==
    LET digitAt(n) == IF n \in DOMAIN fieldsOf(platform) THEN digit(fd[fieldsOf(platform)[n]]) ELSE 0
    IN  9 * digitAt(1) + 3 * digitAt(2) + digitAt(3)

List(set) == sortedBy(set, [fd \in set |-> number(fd)])

(***************************************************************************)
(* providerconfig/.  An infrastructure's failure domain is recognised on   *)
(* vSphere by its workspace, which includes the resource pool: one that is *)
(* derived from the compute cluster never compares equal.  On Nutanix it   *)
(* is recognised by its name.                                              *)
(***************************************************************************)
recognisedByWorkspace == infra.defined \cap infra.pooled

recognisedByName == infra.defined

recognised ==
    CASE platform = "VSphere" -> recognisedByWorkspace
      [] platform = "Nutanix" -> recognisedByName
      [] OTHER                -> Value

ExtractFailureDomain(c) == [k \in fields |-> IF c.domain[k] \in recognised THEN c.domain[k] ELSE ""]

(***************************************************************************)
(* InjectFailureDomain is an error for a name that is not defined; Nutanix *)
(* takes no name as nothing to do.                                         *)
(***************************************************************************)
getFailureDomainFromInfrastructure(fd) == fd["name"] \in infra.defined

GetFailureDomainByName(fd) == fd["name"] \in infra.defined

canInject(fd) ==
    CASE platform = "VSphere" -> getFailureDomainFromInfrastructure(fd)
      [] platform = "Nutanix" -> fd["name"] = "" \/ GetFailureDomainByName(fd)
      [] OTHER                -> TRUE

(***************************************************************************)
(* The second network after an injection: a failure domain with one        *)
(* network leaves further devices only to a config with address pools.     *)
(***************************************************************************)
secondNetwork(c, fd) ==
    IF platform # "VSphere" \/ fd["name"] = "" THEN c.second
    ELSE IF fd["name"] \in infra.wide THEN fd["name"]
    ELSE IF c.pools > 0 THEN c.second ELSE "none"

(***************************************************************************)
(* Fields that are set replace the config's; those of the root volume only *)
(* when the config has one.  The bug: the second field is forgotten.       *)
(***************************************************************************)
InjectFailureDomainZoneOnly(c, fd) ==
    [c EXCEPT !.domain = [k \in fields |-> IF k = "zone" /\ fd[k] # "" THEN fd[k] ELSE @[k]]]

InjectFailureDomain(c, fd) ==
    LET takes(k) == fd[k] # "" /\ (k \in rootFields => c.root)
    IN  [c EXCEPT !.domain = [k \in fields |-> IF takes(k) THEN fd[k] ELSE @[k]],
                  !.second = secondNetwork(c, fd)]

(***************************************************************************)
(* The config a failure domain was injected into, afterwards: the copy was *)
(* a shallow one.  Devices with address pools are kept, the slice of them  *)
(* is shared as far as it reaches.                                         *)
(***************************************************************************)
afterInjection(c, injected) ==
    [c EXCEPT !.domain = [k \in fields |-> IF k \in rootFields THEN injected.domain[k] ELSE @[k]],
              !.second = IF c.pools > 0 /\ @ # "none" THEN injected.second ELSE @]

(***************************************************************************)
(* Diff ignores AMI, image and disk images, and the path of a vSphere      *)
(* template.                                                               *)
(***************************************************************************)
ignoresImage == platform \in {"AWS", "Azure", "GCP", "VSphere"}

Differs(c, other) ==
    IF ignoresImage
    THEN [c EXCEPT !.image = "x"] # [other EXCEPT !.image = "x"]
    ELSE c # other

(***************************************************************************)
(* ExtractFailureDomainsFromMachines; getMachineFailureDomains keeps the   *)
(* duplicates.                                                             *)
(***************************************************************************)
getMachineFailureDomains == [k \in DOMAIN machines |-> ExtractFailureDomain(machines[k])]

ExtractFailureDomainsFromMachines == ToSet(getMachineFailureDomains)

-----------------------------------------------------------------------------
(***************************************************************************)
(* The generator.  clear empties fields; the bug removes them.             *)
(***************************************************************************)
clearDropping(fd, S) == [k \in fields \ S |-> fd[k]]

clear(fd, S) == [k \in fields |-> IF k \in S THEN "" ELSE fd[k]]

(***************************************************************************)
(* Fields all failure domains agree on (allFailureDomainsZonesMatch,       *)
(* allFailureDomainsSubnetsMatch), or all configs (allProviderConfig...).  *)
(***************************************************************************)
matching(fds) == {k \in fields : \A x, y \in fds : x[k] = y[k]}

(***************************************************************************)
(* buildFailureDomains.  Azure lists only what differs, and nothing when   *)
(* there is one failure domain; OpenStack, vSphere and Nutanix leave out   *)
(* Machines that are in none.                                              *)
(***************************************************************************)
buildAWSFailureDomains(fds) == List(fds)

buildGCPFailureDomains(fds) == List(fds)

buildAzureFailureDomains(fds) ==
    IF Cardinality(fds) <= 1 THEN << >> ELSE List({clear(fd, matching(fds)) : fd \in fds})

buildOpenStackFailureDomains(fds) == List(fds \ {unsetDomain})

buildVSphereFailureDomains(fds) == List({fd \in fds : fd["name"] # ""})

buildNutanixFailureDomains(fds) == List({fd \in fds : fd["name"] # ""})

buildFailureDomains ==
    LET fds == ExtractFailureDomainsFromMachines
    IN  CASE platform = "AWS"       -> buildAWSFailureDomains(fds)
          [] platform = "GCP"       -> buildGCPFailureDomains(fds)
          [] platform = "Azure"     -> buildAzureFailureDomains(fds)
          [] platform = "OpenStack" -> buildOpenStackFailureDomains(fds)
          [] platform = "VSphere"   -> buildVSphereFailureDomains(fds)
          [] platform = "Nutanix"   -> buildNutanixFailureDomains(fds)

(***************************************************************************)
(* No ControlPlaneMachineSet is generated for a single Machine or for a    *)
(* platform without support, when OpenStack Machines with and without      *)
(* failure domain are mixed, or when vSphere Machines are in none.         *)
(***************************************************************************)
canGenerate ==
    LET fds == ExtractFailureDomainsFromMachines
    IN  /\ Len(machines) > 1
        /\ platform # "UnknownPlatform"
        /\ platform = "OpenStack" => fds = {unsetDomain} \/ unsetDomain \notin fds
        /\ platform = "VSphere" => fds # {unsetDomain}

(***************************************************************************)
(* The template is the newest Machine's config without what the failure    *)
(* domains define; of the devices, those with address pools are kept,      *)
(* without their networks.  The bug: Azure loses what they do not define,  *)
(* too.                                                                    *)
(***************************************************************************)
unnamed(pools) == IF pools = 2 THEN "" ELSE "none"

without(c, S) ==
    [c EXCEPT !.domain = clear(@, S), !.second = IF "name" \in S THEN unnamed(c.pools) ELSE @]

buildControlPlaneMachineSetAWSMachineSpec(c) == without(c, fields)

buildControlPlaneMachineSetGCPMachineSpec(c) == without(c, fields)

AzureMachineSpecWithoutDomain(c) == without(c, fields)

buildControlPlaneMachineSetAzureMachineSpec(c) ==
    without(c, fields \ matching({machines[k].domain : k \in DOMAIN machines}))

buildControlPlaneMachineSetOpenStackMachineSpec(c, fds) ==
    without(c, IF fds = << >> THEN {} ELSE fields)

buildControlPlaneMachineSetVSphereMachineSpec(c) ==
    without(c, IF infra.defined = {} THEN {} ELSE fields)

buildControlPlaneMachineSetNutanixMachineSpec(c, fds) ==
    without(c, IF fds = << >> THEN {} ELSE fields)

machineSpec(c, fds) ==
    CASE platform = "AWS"       -> buildControlPlaneMachineSetAWSMachineSpec(c)
      [] platform = "GCP"       -> buildControlPlaneMachineSetGCPMachineSpec(c)
      [] platform = "Azure"     -> buildControlPlaneMachineSetAzureMachineSpec(c)
      [] platform = "OpenStack" -> buildControlPlaneMachineSetOpenStackMachineSpec(c, fds)
      [] platform = "VSphere"   -> buildControlPlaneMachineSetVSphereMachineSpec(c)
      [] platform = "Nutanix"   -> buildControlPlaneMachineSetNutanixMachineSpec(c, fds)

generateControlPlaneMachineSet ==
    LET fds == buildFailureDomains
    IN  [domains |-> fds, active |-> FALSE, author |-> "generator",
         template |-> machineSpec(machines[1], fds)]

-----------------------------------------------------------------------------
(***************************************************************************)
(* The webhook.  validateSpec: the checks of the platform, then a dry-run  *)
(* Machine in the first failure domain, whose config stays in the template *)
(* (dryRunMachine.Spec.ProviderSpec.Value is the template's pointer).      *)
(***************************************************************************)
validateOpenShiftAzureProviderConfig(c) == c.template.rest # "bad"

validateOpenShiftOpenStackProviderConfig(c) == c.template.rest # "bad"

checkForFailureDomainIgnoredFields(c) ==
    c.domains # << >> => c.template.domain = unsetDomain /\ c.template.second \in {"none", ""}

validateOpenShiftVSphereProviderConfig(c) ==
    infra.defined # {} => checkForFailureDomainIgnoredFields(c)

validateOpenShiftNutanixProviderConfig(c) ==
    \A fd \in ToSet(c.domains) : GetFailureDomainByName(fd)

validateOpenShiftProviderConfig(c) ==
    CASE platform = "Azure"     -> validateOpenShiftAzureProviderConfig(c)
      [] platform = "OpenStack" -> validateOpenShiftOpenStackProviderConfig(c)
      [] platform = "VSphere"   -> validateOpenShiftVSphereProviderConfig(c)
      [] platform = "Nutanix"   -> validateOpenShiftNutanixProviderConfig(c)
      [] OTHER                  -> TRUE

dryRunConfig(c) ==
    IF c.domains = << >> THEN c.template ELSE InjectFailureDomain(c.template, c.domains[1])

ValidateSpec ==
    /\ pc = "spec"
    /\ IF /\ validateOpenShiftProviderConfig(cpms)
          /\ cpms.domains # << >> => canInject(cpms.domains[1])
       THEN pc' = "create" /\ raw' = dryRunConfig(cpms)
       ELSE pc' = "rejected" /\ raw' = raw
    /\ UNCHANGED <<inputs, cpms, config, mapping, uncached, infos>>

missingFailureDomains(list1, list2) == ToSet(list1) \ ToSet(list2)

duplicatedFailureDomains(list) ==
    {fd \in ToSet(list) : Cardinality({n \in DOMAIN list : list[n] = fd}) > 1}

(***************************************************************************)
(* The failure domains match the Machines: none of a Machine is missing,   *)
(* and none is unused while two Machines share one.  The bug: an unused    *)
(* one never matters.                                                      *)
(***************************************************************************)
checkOpenShiftFailureDomainsUsed(template) ==
    LET specified == CompleteFailureDomains(cpms.domains, template)
    IN  missingFailureDomains(getMachineFailureDomains, specified) = {}

checkOpenShiftFailureDomainsMatchMachines(template) ==
    LET specified == CompleteFailureDomains(cpms.domains, template)
        used      == getMachineFailureDomains
    IN  /\ missingFailureDomains(used, specified) = {}
        /\ missingFailureDomains(specified, used) # {} => duplicatedFailureDomains(used) = {}

(***************************************************************************)
(* Without failure domains every Machine must be in the template's.        *)
(***************************************************************************)
checkOpenShiftProviderSpecFailureDomainMatchesMachines(template) ==
    \A fd \in ExtractFailureDomainsFromMachines : template = fd

validateOpenShiftMachineV1BetaTemplateOnCreate(template) ==
    IF cpms.domains = << >>
    THEN checkOpenShiftProviderSpecFailureDomainMatchesMachines(template)
    ELSE checkOpenShiftFailureDomainsMatchMachines(template)

validateSpecOnCreate ==
    /\ cpms.active => Replicas = Len(machines)
    /\ validateOpenShiftMachineV1BetaTemplateOnCreate(ExtractFailureDomain(raw))

ValidateOnCreate ==
    /\ pc = "create"
    /\ pc' = IF validateSpecOnCreate THEN "admitted" ELSE "rejected"
    /\ UNCHANGED <<inputs, cpms, raw, config, mapping, uncached, infos>>

-----------------------------------------------------------------------------
(***************************************************************************)
(* The provider.                                                           *)
(***************************************************************************)
(***************************************************************************)
(* The mapping updateMachineCache computes: failure domains are completed  *)
(* by the one in the template's provider spec, as it is at that moment.    *)
(***************************************************************************)
machineList ==
    [k \in DOMAIN machines |->
        [index |-> k - 1, fd |-> number(getMachineFailureDomains[k]),
         created |-> Len(machines) - k, deleted |-> FALSE]]

indexToFailureDomain(template) ==
    LET specified == ToSet(CompleteFailureDomains(cpms.domains, ExtractFailureDomain(template)))
        byNumber  == mapMachineIndexesToFailureDomains(machineList, {number(fd) : fd \in specified})
    IN  IF cpms.domains = << >> THEN << >>
        ELSE [i \in DOMAIN byNumber |-> CHOOSE fd \in specified : number(fd) = byNumber[i]]

(***************************************************************************)
(* A reconcile starts from a copy of the object as it is stored.           *)
(***************************************************************************)
NewMachineProvider ==
    /\ pc = "admitted" /\ pc' = "infos"
    /\ raw' = cpms.template /\ config' = cpms.template
    /\ mapping' = indexToFailureDomain(cpms.template)
    /\ infos' = << >>
    /\ UNCHANGED <<inputs, cpms, uncached>>

(***************************************************************************)
(* The config of an index: the failure domain the mapping in force has for *)
(* it, injected into the provider's config.                                *)
(***************************************************************************)
failureDomainFor(m, i) == IF m = << >> THEN unsetDomain ELSE m[i]

getProviderConfigForIndex(m, i) == InjectFailureDomain(config, failureDomainFor(m, i))

canConfigure(m, i) == m # << >> => canInject(m[i])

(***************************************************************************)
(* It is put together for a dry-run Machine (ensureValidProviderConfig) or *)
(* for a new one (CreateMachine), which is compared with no other.         *)
(***************************************************************************)
configures(m, i, compared) ==
    LET want == getProviderConfigForIndex(m, i)
    IN  /\ raw' = want /\ config' = afterInjection(config, want)
        /\ infos' = [n \in DOMAIN infos \cup {i} |->
                       IF n # i THEN infos[n]
                       ELSE [fd |-> failureDomainFor(m, i), want |-> want,
                             needsUpdate |-> \E c \in compared : Differs(want, c)]]

inForce == IF pc = "uncached" THEN uncached ELSE mapping

allGathered == \A k \in DOMAIN machines : k - 1 \in DOMAIN infos

GenerateMachineInfo(k) ==
    /\ pc \in {"infos", "uncached"} /\ k \in DOMAIN machines /\ k - 1 \notin DOMAIN infos
    /\ IF canConfigure(inForce, k - 1)
       THEN pc' = pc /\ configures(inForce, k - 1, {machines[k]})
       ELSE pc' = "failed" /\ UNCHANGED <<raw, config, infos>>
    /\ UNCHANGED <<inputs, cpms, mapping, uncached>>

(***************************************************************************)
(* checkForExistingReplacement: before a Machine is created for an index,  *)
(* WithClient copies the provider and the copy computes the mapping anew,  *)
(* out of the template it shares with the first one.                       *)
(***************************************************************************)
WithClient ==
    /\ pc = "infos" /\ allGathered /\ pc' = "uncached"
    /\ \E i \in 0..(Replicas - 1) : i \in DOMAIN infos => infos[i].needsUpdate
    /\ uncached' = indexToFailureDomain(raw) /\ infos' = << >>
    /\ UNCHANGED <<inputs, cpms, raw, config, mapping>>

(***************************************************************************)
(* The Machine is created by the first provider, with its mapping.         *)
(***************************************************************************)
CreateMachine(i) ==
    /\ pc = "uncached" /\ allGathered /\ pc' = "infos"
    /\ i \in DOMAIN infos => infos[i].needsUpdate
    /\ canConfigure(mapping, i)
    /\ configures(mapping, i, {})
    /\ UNCHANGED <<inputs, cpms, mapping, uncached>>

-----------------------------------------------------------------------------
(***************************************************************************)
(* What is written into the API (external).  The schema wants at least one *)
(* field, a zone on GCP, and with an OpenStack root volume its type, and   *)
(* its zone when the Machine has a zone.                                   *)
(***************************************************************************)
validDomain(fd) ==
    /\ setFields(fd) # {}
    /\ platform = "OpenStack" =>
          /\ "rootZone" \in setFields(fd) => "rootType" \in setFields(fd)
          /\ {"zone", "rootType"} \subseteq setFields(fd) => "rootZone" \in setFields(fd)

uniform(fds) == Mixed \/ \A x, y \in fds : setFields(x) = setFields(y)

validDomains ==
    {fds \in BoundedSeq({fd \in FailureDomain : validDomain(fd)}, MaxDomains) : uniform(ToSet(fds))}

(***************************************************************************)
(* Machines exist with a zone, and on OpenStack without; only one with a   *)
(* root volume sets its fields.  The second network of a vSphere Machine   *)
(* is the one of its failure domain.                                       *)
(***************************************************************************)
placeable(c) ==
    /\ platform \in {"AWS", "GCP"} => c.domain["zone"] # ""
    /\ platform # "OpenStack" => ~c.root
    /\ ~c.root => setFields(c.domain) \cap rootFields = {}
    /\ platform # "VSphere" => c.pools = 0

networkOf(d, pools) ==
    IF platform = "VSphere" /\ d["name"] \in infra.wide THEN d["name"] ELSE unnamed(pools)

(***************************************************************************)
(* A list may name a failure domain twice; distinct ones stay distinct     *)
(* when the template completes them.  The template may name the networks.  *)
(***************************************************************************)
UserWrites ==
    /\ pc = "write" /\ pc' = "spec"
    /\ \E fds \in validDomains, d \in FailureDomain, active \in {TRUE, Len(machines) = Replicas},
          second \in {machines[1].second, unnamed(machines[1].pools)} :
          /\ \A x, y \in ToSet(fds) : x # y => Complete(x, d) # Complete(y, d)
          /\ ~machines[1].root => setFields(d) \cap rootFields = {}
          /\ cpms' = [domains |-> fds, active |-> active, author |-> "user",
                      template |-> [machines[1] EXCEPT !.domain = d, !.second = second,
                                       !.image = IF ignoresImage THEN "y" ELSE "x"]]
    /\ raw' = cpms'.template
    /\ UNCHANGED <<inputs, config, mapping, uncached, infos>>

GeneratorWrites ==
    /\ pc = "write" /\ pc' = "spec" /\ canGenerate
    /\ cpms' = generateControlPlaneMachineSet /\ raw' = cpms'.template
    /\ UNCHANGED <<inputs, config, mapping, uncached, infos>>

Init ==
    /\ platform \in Platform /\ infra \in Infra
    /\ platform \notin {"VSphere", "Nutanix"} => infra.defined = {}
    /\ platform # "VSphere" => infra.pooled = {}
    /\ infra.wide \subseteq infra.defined /\ (platform # "VSphere" => infra.wide = {})
    /\ Mixed \/ infra.wide \in {{}, infra.defined}
    /\ \E n \in 1..Replicas, root \in BOOLEAN, rest \in {"good", "bad"}, pools \in 0..2 :
          /\ rest = "bad" => platform \in {"Azure", "OpenStack"}
          /\ \E ds \in [1..n -> FailureDomain] :
              machines = [k \in 1..n |-> [domain |-> ds[k], root |-> root,
                                          image |-> "x", rest |-> rest,
                                          pools |-> pools, second |-> networkOf(ds[k], pools)]]
    /\ \A k \in DOMAIN machines : placeable(machines[k])
    /\ uniform(ExtractFailureDomainsFromMachines)
    /\ cpms = noCPMS /\ raw = noCPMS.template /\ config = noCPMS.template
    /\ pc = "write" /\ mapping = << >> /\ uncached = << >> /\ infos = << >>

Next ==
    \/ UserWrites \/ GeneratorWrites
    \/ ValidateSpec \/ ValidateOnCreate
    \/ NewMachineProvider \/ WithClient
    \/ \E k \in 1..Replicas : GenerateMachineInfo(k) \/ CreateMachine(k - 1)

Spec == Init /\ [][Next]_vars

-----------------------------------------------------------------------------
(***************************************************************************)
(* The controller can tell where the Machines are, and the template.       *)
(***************************************************************************)
domainsKnown == \A c \in {cpms.template} \cup ToSet(machines) : c.domain = ExtractFailureDomain(c)

(***************************************************************************)
(* What the generator writes, the webhook admits (buildFailureDomains and  *)
(* the template without the fields they define, against                    *)
(* checkOpenShiftFailureDomainsMatchMachines and the checks of the         *)
(* platform), unless the Machines themselves lack what it requires.        *)
(***************************************************************************)
GeneratedIsAdmitted ==
    pc = "rejected" /\ cpms.author = "generator" =>
        platform \in {"Azure", "OpenStack"} /\ machines[1].rest = "bad"

(***************************************************************************)
(* The Machines make even use of the failure domains they are in: none has *)
(* more than its share of the replicas, rounded up.  Three Machines always *)
(* do; of five, three may be in one of three failure domains.              *)
(***************************************************************************)
evenlyPlaced ==
    \A fd \in ExtractFailureDomainsFromMachines :
        (Cardinality({k \in DOMAIN machines : getMachineFailureDomains[k] = fd}) - 1)
            * Cardinality(ExtractFailureDomainsFromMachines) < Replicas

(***************************************************************************)
(* A ControlPlaneMachineSet that was admitted leaves evenly placed         *)
(* Machines alone: none is out of date on account of its failure domain    *)
(* (validateTemplateOnCreate; docs: "to prevent unnecessary updates",      *)
(* "unless there is an imbalance").  Without failure domains the template  *)
(* is to name their networks itself.                                       *)
(***************************************************************************)
AdmittedStays ==
    domainsKnown /\ evenlyPlaced =>
        \A k \in DOMAIN machines :
            /\ k - 1 \in DOMAIN infos
            /\ [cpms.template EXCEPT !.domain = machines[k].domain, !.image = "x",
                                     !.second = machines[k].second] = machines[k]
            /\ cpms.domains = << >> => cpms.template.second = machines[k].second
            /\ cpms.template.image = "x" \/ ignoresImage
            => ~infos[k - 1].needsUpdate

(***************************************************************************)
(* The config of an index is the template in the index's failure domain,   *)
(* whatever configs were put together before it in the same reconcile      *)
(* (InjectFailureDomain: "a copy of the current ProviderConfig with the    *)
(* new failure domain injected").                                          *)
(***************************************************************************)
InjectsIntoACopy ==
    \A i \in DOMAIN infos :
        LET takes(k) == infos[i].fd[k] # "" /\ (k \in rootFields => cpms.template.root)
        IN  infos[i].want = [cpms.template EXCEPT
                !.domain = [k \in fields |-> IF takes(k) THEN infos[i].fd[k] ELSE @[k]],
                !.second = secondNetwork(cpms.template, infos[i].fd)]

(***************************************************************************)
(* The mapping computed with the uncached client is the one the Machines   *)
(* were compared with, though the template was overwritten in between      *)
(* (WithClient, updateMachineCache).                                       *)
(***************************************************************************)
RefreshAgrees == pc = "uncached" => uncached = mapping

=============================================================================
