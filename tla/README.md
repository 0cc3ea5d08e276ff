# TLA+ models of the control plane machine set operator

The operator keeps the Machines of an OpenShift control plane (three or five of
them, one per *index*) equal to the template of the `ControlPlaneMachineSet`
(CPMS). It is one Go binary with two controllers and a webhook, and it shares
the cluster with the machine controller, the kubelets, the etcd operator and
users. This directory models which Machines the operator creates and deletes, how
the CPMS comes and goes and who owns the Machines meanwhile, what the operator
reports, and how failure domains travel between Machines, generator, webhook and
provider. TLC checks the models on small instances; TLAPS proves their safety
properties, in every component, for any number of Machines and events.

## Inventory

| part | state it keeps | operations | talks to |
| --- | --- | --- | --- |
| CPMS controller (`controllers/controlplanemachineset/controller.go`) | none between reconciles but the last error; a copy of the CPMS during one | `Reconcile`: read, status, validation, owner references, updates; deletion with a finalizer | provider, API server, caches |
| update strategies (`updates.go`) | the surge count of one reconcile | delete a replaced Machine, create a replacement, wait | provider, API server uncached |
| cluster validation (`controller.go`), status (`status.go`) | the conditions of the CPMS | five checks; Available, Degraded, Progressing, Error | Node cache |
| ClusterOperator (`cluster_operator.go`) | conditions of the ClusterOperator | copy the CPMS conditions | API server |
| Machine provider (`provider.go`) | list of Machines and index to failure domain map, read once per reconcile | `GetMachineInfos`, `CreateMachine`, `DeleteMachine`, `WithClient` | Machine and Node caches, API server |
| failure domain mapping (`mapping.go`) | none: recomputed each reconcile, and by `WithClient` | which domain each index belongs to | provider |
| generator (`controllers/controlplanemachinesetgenerator`) | none | create a CPMS from the Machines there are; delete and recreate an outdated, Inactive one | API server |
| webhook (`webhooks/controlplanemachineset`) | none | admit or reject CPMS writes | API server |
| failure domains, provider configs (`failuredomain`, `providerconfig`) | none | compare, inject and extract failure domains, diff configs | provider, webhook, generator |
| watch filters, start-up, leader election, TLS (`util`, `tls`, `cmd`) | none | which events start a reconcile; one active replica | controller-runtime |

What is hard here:

- A reconcile reads informer **caches** that lag behind the API server, each on
  its own, and acts on what it read, one API call after the other, while
  Machines, Nodes and the CPMS change. Before a creation it asks the API server
  once more, for that one index.
- It can **stop** after any call (an error, a restart, a lost lease); there is
  no journal, so the next reconcile must work from whatever is there.
- Two controllers **wait for each other**: this one waits for a deleted Machine
  to go, the etcd operator keeps it until a replacement is healthy.
- Users **edit the template again** in the middle of a roll-out, delete
  Machines, activate the CPMS.
- The failure domain mapping is **recomputed from scratch** by every reconcile out of
  a roll-out in progress, and once more from the current Machines by the check before
  a creation; what it returns changes what is rolled out next.
- Controller, generator and users **write the same object**; what keeps them apart
  is a resource version, a finalizer and a webhook that sees one request.
- An idle controller is only woken by **events that pass a filter**; a status that
  went wrong and a wake-up that was lost stay unnoticed for 30 minutes.
- Go structs are copied by value but **share what is behind a pointer**: the
  provider spec of the template, an OpenStack root volume and the network devices
  of vSphere are overwritten while others still read them.

What makes each part correct: the updates never create two replacements, never
exceed the surge, never delete a Machine without a replacement, and finish; an
Inactive CPMS leaves Machines alone, an Active one adopts them all; validation
stops a reconcile only as long as the reason lasts; the mapping covers each
index, is balanced, leaves balanced placements alone and moves an index once;
the deletion of a CPMS leaves no owner reference behind, and ends; the generator
never deletes a CPMS that users activated, and ends with one that fits the
Machines; status and ClusterOperator come to say what is the case, and an error is
reported when it lasts and only then; what the generator writes the webhook
admits, and what the webhook admits replaces no Machine.

## Modules

| module | what it is | code |
| --- | --- | --- |
| `MachineInfos` | pure operators on sets of MachineInfo | helpers of `updates.go`, `machineInfosByIndex` |
| `MachineUpdates` | what an update strategy decides for an index, and its loop over them | `updates.go` |
| `MachineProvider` | Machines and Nodes become MachineInfos; creation and deletion | `provider.go` |
| `ClusterValidation` | the Degraded condition a reconcile computes | `validateClusterState` and its checks, `status.go` |
| `ControlPlaneMachineSet` | the controller with the caches, the machine controller, Nodes, etcd hook and users | `controller.go`, `updates.go` |
| `MCControlPlaneMachineSet` | the instances for TLC | |
| `ControlPlaneMachineSetProofs` | theorems about `ControlPlaneMachineSet`: types, duplicates, surge | |
| `MachineUpdateProofs` | more of them: Inactive, OnDelete, undisturbed roll-outs | |
| `ControlPlaneCapacity` | abstract: what the rolling update promises of a control plane | |
| `CapacityRefinement` | `ControlPlaneMachineSet` implements `ControlPlaneCapacity` | |
| `CapacityRefinementProofs` | the proof that it does | |
| `IndexMapping` | the mapping of indexes to failure domains, pure operators | `mapping.go` |
| `IndexMappingProofs` | lemmas on what it returns | |
| `FailureDomainMapping` | the update loop on lagging caches that feeds the mapping and follows it | `provider.go`, `updates.go`, `controller.go` |
| `FailureDomainMappingProofs` | theorems about it | |
| `ControlPlaneMachineSetLifecycle` | the CPMS object, finalizer, owner references, generator, the webhook's rules for updates | `controller.go`, generator's `controller.go`, `webhooks.go` |
| `MCControlPlaneMachineSetLifecycle` | its instance for TLC | |
| `ControlPlaneMachineSetLifecycleProofs` | theorems about it | |
| `OperatorStatus` | status, ClusterOperator, error tracker, work queue and filters | `status.go`, `cluster_operator.go`, `controller.go`, `watch_filters.go` |
| `MCOperatorStatus` | its instance for TLC | |
| `OperatorStatusProofs` | theorems about it | |
| `FailureDomains` | failure domains in generator, webhook and provider, on every platform | `failuredomain/`, `providerconfig/`, `provider.go`, `webhooks.go`, generator |
| `FailureDomainsProofs` | theorems about it | |

`MachineInfos` is below everything that looks at MachineInfos. `ControlPlaneMachineSet`
extends `MachineProvider`, `ClusterValidation` and `MachineUpdates`;
`FailureDomainMapping` extends `IndexMapping`, `ClusterValidation` and
`MachineUpdates`, so that both follow one translation of the update loop;
`OperatorStatus` extends `ClusterValidation` and `FailureDomains` extends
`IndexMapping`. `PROJECT.json` maps each definition to its lines.

### `ControlPlaneMachineSet`

State. `cpms`, `machines` and `nodes` are the objects at the API server;
`cpmsCache`, `machineCache` and `nodeCache` are the informer caches, each equal
to an earlier state of its kind. `pc`, `todo`, `view`, `template`, `strategy`,
`surgeCount` and `degraded` are the reconcile in flight: where it stands, the
indexes left in its loop, the MachineInfos it read, the template and strategy
it works from, the running surge count and the Degraded condition on its copy
of the CPMS. `seen` is history: the names of the Machines that reconcile listed or
created. `created` counts Machines; `budget` is what is left of the bounds.

Steps of a reconcile, between which anything else may happen:

- `Reconcile` reads the caches, computes the infos, the status and the
  validation, and stops there when Degraded or Inactive (`reconcile`,
  `reconcileMachines`).
- `EnsureOwnerReference` is one patch of `ensureOwnerReferences`.
- `DeleteReplacedMachine`, `SkipIndex`, `CheckForExistingReplacement` and
  `CreateMachine` are the loop over the indexes in ascending order: the deletion,
  the uncached check and the creation are API calls and steps of their own.
  Indexes on which the loop only logs are left out of `todo` at once.
- `AbortReconcile` ends it after any call.

Environment, modelled from what the code reads of it: `SyncCPMS`,
`SyncMachines`, `SyncNodes`; `RegisterNode`, `LinkNode`, `NodeReady`,
`NodeNotReady`, `MachineFails`, `MarkDeleting`, `RemoveNode`, `RemoveMachine`;
`EditCPMS`, `UserDeletesMachine`. The etcd operator lets a Node go when
`Replicas` other Nodes are ready.

Abstractions.

- A provider config is one member of `Templates`. A Machine needs an update
  when its config differs from the template; the failure domain part of this
  comparison is `FailureDomainMapping`.
- Names are numbers that grow with creation, and stand for the creation
  timestamp too. The index of a Machine is fixed at its creation (the code
  parses it from the name; the fallback for names without one is left out).
- The cache lists Machines in no order, so "the first found" is any.
- The cached reads of one reconcile are one step. Each cache still lags on its
  own, so every combination of ages a reconcile can see is reached, except that
  of a cache moving on between two reads of the same reconcile.
- A read that fails ends the reconcile before it changed anything; it is a step
  not taken.
- The writes of status and ClusterOperator are in `OperatorStatus`, the finalizer
  and the deletion of the CPMS in `ControlPlaneMachineSetLifecycle`.

### `ControlPlaneCapacity` and `CapacityRefinement`

The abstract control plane has Machines with an index that stay or are leaving;
`Create` (at most one above the indexes, for an index with at most one that
stays), `Retire` (while another of the index stays), `UserRetires`, `Remove` (while
as many are left as there are indexes). There are no caches, Nodes, reconciles or
failures. `CapacityRefinement` maps a Machine of the detailed module to it, leaving
once it has a deletion timestamp, and states the abstract specification as the
property `ImplementsCapacity`, which TLC checks and TLAPS proves. Its fairness (an
index without a Machine gets one, one with two gives one up) is the property
`RestoresCapacity`, for TLC alone.

Two guards are weaker than one would wish, because of what the code does. The etcd
hook counts members, not indexes, so a Machine a user deleted may be removed on
the strength of another index's replacement. And a user who deletes the
replacement between the controller's read and its deletion lets the controller
delete the last Machine of the index that stays; so `Retire` wants another one only
as long as users deleted nothing. The index is refilled in both cases.

### `ControlPlaneMachineSetLifecycle`

State. `cpms` is the object (with UID and resource version), `machines` the
Machines with the UID of their owner. Three caches: CPMS, Machines, and the
metadata of Machines, which `reconcileDelete` lists; the client starts that third
informer at the first such list and waits for it, so a first list is current and
later ones may lag. `pc`, `copy`, `todo`, `failed` are the controller's reconcile,
`genPC`, `genSpec` the generator's; both run in one process and interleave call by
call. `activated` and `userDeleted` record what users did.

Actions. Controller: `ReconcileDelete` (the list), `RemoveOwnerRef` (one patch each;
a failed one does not stop the others), `RemoveFinalizer`, `EnsureFinalizer` (and
the end of that reconcile), `ReconcileMachines`, `EnsureOwnerReference`,
`ReconcileMachineUpdates` (which Machine is created or deleted is left open),
`UpdateStatus` (a write that moves the resource version). Generator:
`EnsureControlPlaneMachineSet`, `RecreateDelete` with its precondition,
`RecreateCreate`. Environment: informers, `Restart`, users who create, activate,
edit and delete the CPMS and add and remove Machines. Each write goes through
`ValidateCreate` or `ValidateUpdate`. A cluster starts without a CPMS or with one
of an older release that today's webhook would reject.

Abstractions. A template is a value, admitted or not; what makes the webhook admit
it is `FailureDomains`. Cluster validation passes. Users do not lift finalizers, and
Machines have no deletion timestamp: one that is removed is gone.

### `OperatorStatus`

State. The control plane (`world`: per index the shape of its Machines and the
state of the Node), CPMS and ClusterOperator, a cache of each, the work queue
(`queued`, one request is all there is), the reconcile in flight (`pc`, `base` as
read, `copy` as changed, `held`, the version at the API server its writes are for,
and `erred`), the error tracker, and what calls run into (`fault`). `unseen` and `streak` are history variables.

Actions. `ReconcileAbsent`, `ReconcileFinalizer` and `ReconcileMachines` are
`reconcile` up to `setLastError`, one for each way through; the one that adds the
finalizer goes on to the status write like the others. A reconcile that cannot list
the Machines keeps the status it read, and one that cannot list the Nodes in
`validateClusterState` leaves it as `reconcileStatusWithMachineInfo` set it, without
the cluster's state. `UpdateStatus` and
`UpdateOperator` are the two writes, each skipped when nothing changed, refused on
a stale copy, or failing; errors requeue. `SyncWorld`, `SyncCPMS` and
`SyncOperator` deliver changes to the caches, and to the queue if the filters let
them through. `Resync`, `Restart`. Environment: Machines and Nodes change, the
grace period of a Node ends (no object changes then), calls begin or stop to fail,
the CPMS is created, activated, removed, somebody else writes the ClusterOperator.
An informer whose watch was interrupted delivers the state after several changes
as one: a Node that was ready meanwhile looks as unready as before to the filter,
though its grace period started anew (`missedReady`). Like the end of the grace
period this is unseen until something else starts a reconcile.

Abstractions. A condition is its reason and the number in its message; the reason
tells the status. Transition times, observed generation, versions and related
objects are left out. What the reconcile does to Machines is left open.

### `FailureDomains`

State. Platform, the infrastructure's failure domains, the configs of the Machines,
the CPMS; `raw`, the template's provider spec behind the pointer all copies share;
`config`, `mapping` and `infos` of the provider, and `uncached`, the mapping of the
copy that uses the uncached client.

Steps. `GeneratorWrites` or `UserWrites` a CPMS; `ValidateSpec` (the platform's
checks and the dry run, which overwrites `raw`), `ValidateOnCreate`;
`NewMachineProvider`; `GenerateMachineInfo` for each Machine in any order (injects,
overwrites `raw`, compares); `WithClient` and the same again on the uncached
provider; `CreateMachine`.

Abstractions. A failure domain is a record of the fields its platform has, each
unset or one of two values. On vSphere and Nutanix a name stands for what the
infrastructure puts into a config. Some failure domains of vSphere have a second network
(`infra.wide`); a config there says how many of its network devices take their addresses from
pools (`pools`) and which network the second device is in (`second`). Injection keeps
devices with pools, in the slice all copies share, and replaces the others. A config
is further its failure domain, whether it has a root volume, an image that `Diff`
ignores on some platforms, and the rest. The defaults the Machine webhook would add in
the dry run are not modelled: a dry run returns what it was given.

### `IndexMapping` and `FailureDomainMapping`

The operators of `IndexMapping` follow `mapping.go` function by function; loops over
sorted indexes are recursive functions of the number of rounds (`keptMachines`,
`unmatched`, `handled`), and a sort is the sequence whose k-th element has k elements
up to it. Domains are numbers ordered like their strings.

`FailureDomainMapping` is the controller as far as failure domains are concerned. Its
state is the Machines, an informer cache of them that may lag, the template's list of
domains, and of the reconcile in flight the loop of `MachineUpdates` with the provider's
mapping (`mapping`) and the list it was computed from (`offered`).

- `Reconcile` computes the mapping from the cache, once, and the MachineInfos from the
  mapping; which Machines are ready is left open. It stops when Degraded, and else loops
  over the indexes `machineInfosByIndex` gives.
- `DeleteReplacedMachine`, `SkipIndex`, `CreateMachine` and `NoFailureDomain` are the loop.
  The check before a creation (`existingReplacement`) uses a second mapping, which
  `WithClient` computes from the Machines there are; the creation uses the first.
  `machineInfosByIndex` fills up from index 0, the mapping does not have to: an index that
  the mapping lacks has no failure domain and ends the reconcile with an error.
- `SyncMachines` is the informer, `RemoveDeleted` the etcd hook. Users change the list of
  domains (`ChangeDomains`), delete a Machine or lose one (`LoseMachine`).

A mapping depends on the order of the list only when an index has three Machines, and
the order is arbitrary then (`listings`).

## Runs

| run | start and disruptions | shows |
| --- | --- | --- |
| `rolling_stale` | two of three outdated, caches lag, one abort | `NoDuplicateReplacement`, `IndexesStayAvailable`, `CreatesWithinLimit`, `RolloutCompletes` |
| `rolling_recovers` | two outdated, fresh reads, one user deletion, one Node not ready, one abort | `RolloutCompletes`, `ImplementsCapacity`, `RestoresCapacity` |
| `third_generation` | one outdated, fresh reads, one template edit, one Machine fails | `TypeOK`, `SurgeWithinLimit`, `FailedReplacementMakesRoom` |
| `ondelete_activation` | Inactive OnDelete, no owners, indexes 1 to 3, one outdated, caches lag; the activation, one user deletion, one abort | `InactiveIsReadOnly`, `OneLiveMachinePerIndex`, `AdoptionCompletes`, `DeletedIsReplaced` |
| `mapping` | both strategies, every placement of three Machines indexed 1 to 3 over two domains, caches lag; one edit of the domains, or one Machine deleted or lost | `MappingCoversIndexes`, `LiveIndexesBalanced`, `BalancedIsStable`, `MovesOnce` |
| `lifecycle` | no CPMS or an old one; any three of activation, edit, deletion, creation, Machine added or removed, status write, failed call, restart | `TypeOK`, `OwnersAreProtected`, `ActivatedIsNotRegenerated`, `OwnedOnceActivated`, `DeletionCompletes`, `GeneratorConverges`, `AdoptionCompletes` |
| `status` | a CPMS just created; any two of Machine and Node changes, faults, refused writes, edits, overwrites, restarts | `TypeOK`, `NoLostWakeup`, `ReportsSettle`, `ErrorNeedsRepetition`, `ErrorSettles` |
| `domains` | every platform, every placement of one to three Machines, every list of at most two failure domains and every template | `TypeOK`, `GeneratedIsAdmitted`, `AdmittedStays`, `InjectsIntoACopy`, `RefreshAgrees` |

Four more runs, `second_edit`, `lifecycle_stale`, `mapping_stale` and `domains_mixed`,
show disagreements; see below.

Bounds of the update runs. Three replicas is the smallest control plane the API
admits and the one nearly every cluster has; two outdated Machines are the fewest
for which the order of indexes and the surge between them matter. `MaxMachines` is
8 names, and 6 in `ondelete_activation`; no passing run of this module ever uses the
last one, so the bound never cuts a behaviour off. Each disruption happens once, twice where a second is the point;
they may happen at any moment, so every pair of them is tried in every order.
Template 2 is current at the start and 1 is what outdated Machines run; with three
templates an edit may go on or back. `FreshReads = TRUE` means a reconcile *starts*
from caches that are up to date; the cluster still moves during it. No symmetry is
used: names and indexes are ordered. No run edits the strategy; the type theorem and
`SurgeLimitedByWhatWasSeen` cover such edits.

Bounds of `mapping`. Two domains are enough for a list that fits, one that is too short
and one that is new. `MaxMachines = 5` allows two replacements, enough for a mapping
to be computed between the first and the second; a roll-out of all three is cut off
there. So `MovesOnce` was also checked with three domains and `MaxMachines = 7`, without
disruptions (229,860 states); the other three properties are proved without bounds.
Indexes 1 to 3 are the case in which the mapping and `machineInfosByIndex`, which counts
from 0, can differ about an index that is missing.

Bounds of the other runs. In `lifecycle` two Machines stand for three: nothing there
counts Machines but the generator's "more than one" and the webhook's comparison
with the replicas, and two are enough for one patch to fail while the other is
made; a third may be added. `Bounds` has a budget for each kind of event and one,
"any", for all of them together; three events are the fewest for delete, create
and delete again, which is where the metadata cache first matters.
`FreshMetadata = TRUE` assumes that a deletion lists current metadata; without it
`lifecycle_stale` finds the violation. In `status` two indexes are enough for one
that is available and one that is not; `maxContinuousErrors` is 3 for 15, which
leaves room for a count that is below, at and above; the tracker saturates there,
as the code compares with `<`. In `domains` two values of each field tell "equal to
the template's", "different" and "not set" apart, and two failure domains against
three Machines give every case of used, unused, shared and missing ones.
`Mixed = FALSE` keeps to lists whose failure domains set the same fields, and
Machines likewise, as all examples of the documentation do. A list
may name a failure domain twice; distinct ones stay distinct once completed from
the template (with `Mixed = FALSE` they always do). `AdmittedStays` speaks of Machines
that are placed evenly, which three always are. The antecedent is for larger control
planes: the webhook only compares which failure domains are used, so of five Machines
it admits three in one of three failure domains, and the mapping then moves one
(`docs/user/failure-domains.md:22`, "unless there is an imbalance").

Fairness. `ControlPlaneMachineSet`: weak fairness of the reconcile's steps, as the
resync, the events and the requeues start reconciles for ever and no step of one
waits for anything; of each cache, as informers deliver what they watch, but as
late as they like; of the machine controller and kubelet per Machine: Machines are
provisioned, Nodes come up, deleted Machines go when the hook allows. Nothing is
assumed of users, failures, aborts or Nodes that stop being ready.
`ControlPlaneMachineSetLifecycle`: the same of controller, generator and caches.
`OperatorStatus`: a reconcile starts only when the request is queued, so here the
queue itself is part of the argument: weak fairness of the reconcile once queued, of
the caches, and of the resync (main.go's `SyncPeriod`). `NoLostWakeup` does not use
the resync; it says what holds without it.

A deadlock would be reported in all runs of `ControlPlaneMachineSet` and of `status`.
`mapping` and `domains` stop when there is nothing left to do, `lifecycle` when
everything has converged and no event is left.

What the passing runs show beyond the names. The uncached check is enough
against duplicates, and it is the only thing that is: with a cached one
`rolling_stale` fails. `IndexesStayAvailable` holds however late the caches are, as
long as users and Nodes leave the roll-out alone: what justifies a deletion is a
replacement that was seen ready, and those stay. It does not survive a template that
is reverted, or a Node that fails, after the read. Liveness survives an abort at any point because no step needs to
know what an earlier reconcile did. The generator's precondition is what protects an
activation that its cache has not shown it yet; the webhook's rule covers the other
order. The webhook's exception for the last finalizer is needed for every CPMS that
today's rules reject. Status and ClusterOperator need each other's events: a refused
ClusterOperator write is repeated because the error is returned, not because
anything else would change.

## Disagreements

Each of these four is a run in which TLC finds what the code's own text excludes.

- `second_edit` (`updates.go:543`): a second edit that comes when the replacement
  is ready leaves an index with two ready, outdated Machines: no updated one to
  justify a deletion, no surge for a creation. The roll-out is stuck until a
  user deletes one.
- `lifecycle_stale` (`controller.go:330`): the second deletion in the life of a
  process lists metadata from a running informer. One that has not seen the owner
  reference of a Machine yet leaves that Machine unpatched; the finalizer goes, and
  the Machine belongs to an object that does not exist.
- `mapping_stale` (`provider.go:260`): the check for a replacement that the cache did
  not show (`updates.go:509-510`) judges by the mapping `WithClient` computes from the
  current Machines, the creation by that of the reconcile. After an edit of the domains
  the two can send an index to different domains; then the replacement that is there
  counts as outdated, and a second one is created in the same index and domain.
- `domains_mixed` (`openstack.go:41`): the copy of an OpenStack config shares its
  root volume. A failure domain that sets no volume type gets the type of the index
  that was looked at before, so whether its Machine needs an update depends on
  the order. `vsphere.go:142` does the same to network devices with address pools: a
  failure domain with one network leaves the second device in the network of the index
  before it. TLC reports the first it meets, and the second with the property restricted
  to vSphere; `OnlyRootsAndDevicesLeak` below says that there is no third.

Others were found with the same modules, by changing a constant or a property:

- `updates.go:179`: the surge is counted in the cached list. A reconcile whose
  cache misses the Machine the last one created replaces the next index too; the
  uncached check is for one index only. (`SurgeWithinLimit` in the setting of
  `rolling_stale`; `updates.go:152` promises a single Machine.)
- `updates.go:355`: `updatedMachines` counts Machines being deleted. Reverting the
  template while the old Machine is being deleted gets the new one deleted too.
  (`IndexesStayAvailable` with `OneOutdated`, `OneEdit`, fresh reads.)
- `controller.go:598`: `machineInfosByIndex` makes up for a missing Machine with the
  lowest unused index from 0, whatever indexes the cluster has, and so sees to it that the
  update loop can "create a new Machine to fulfil the requirement of that index"
  (`updates.go:157-158`). In a cluster with indexes 1 to 3 that lost its Machine 1 it asks
  for index 0. The mapping has 1, 2 and 3, so the creation fails for want of a failure
  domain in every reconcile (`NoFailureDomain` in the run `mapping`).
- `controller.go:493`: Degraded with `MachinesAlreadyOwned` is set after the gate
  that would stop the reconcile, and the next one computes Degraded anew before
  its gate; the controller does not cease operations as `consts.go:95` says.
- `controller.go:786`: under OnDelete, two up to date Machines deleted one after the
  other. The first, still ready, and its replacement are both "updated"; the excess
  check degrades the controller before it replaces the second, and the etcd
  operator holds both for want of members. (`DeletedIsReplaced` with three up to date
  Machines of an Active CPMS, fresh reads and two deletions.)
- `mapping.go:299`: an index with deleting Machines only is left out of the
  matching, but keeps its domain in the output; all indexes can end up in one of
  two domains. (`NoDomainOverRepresented` of every mapping, with indexes from 0 and two
  disruptions.)
- `provider.go:385`, `webhooks.go:337`: dry-run Machines write into the template that
  is shared. With failure domains that set different fields the next computation of
  the mapping completes them with another index's values, so that of `WithClient`
  may differ (`RefreshAgrees` with `Mixed = TRUE`), and the webhook completes them
  with those of the first in the list.
- `vsphere.go:168`: a failure domain is recognised by a workspace that includes the
  resource pool as it is written in the infrastructure; one whose pool is derived
  from the compute cluster is never recognised.
- `provider.go:449`: the fallback for names without an index ranges over a Go map;
  two indexes in one failure domain make the result differ from call to call.
- `webhooks.go:360`: after a template that cannot be parsed the code goes on with a
  nil provider config.
- `controller.go:242`: the comment excludes status changes in the reconcile that
  adds the finalizer; that reconcile sets the Error condition, writes the status
  and, before any status was computed, reports the ClusterOperator not upgradeable.
- `cluster_operator.go:87`: conditions that say the operator does not function as
  expected are to degrade the ClusterOperator; the Error condition is not copied.
- `status.go:206`: the message says "more than 15 consecutive times" at the 15th.
- `provider.go:479`: a Node that has just registered is not ready since less than
  the grace period, so its Machine counts as ready although the Node never was;
  `isMachineReady` is documented (lines 459-460) as Running with a ready Node.
- `updates.go:426`: under OnDelete, a cache that misses the replacement and a
  template edit since then get a second replacement created, as the uncached
  check only looks for up to date ones.
- `mapping.go:342`: only a domain above the rounded-up share gives an index away,
  so `a a a b b` over four domains becomes `a a c b b`, while
  `docs/user/failure-domains.md:25` promises equal use where possible.
- `mapping.go:193`: of two Machines of an index in the same domain the one listed
  later is kept even if older; with a third Machine the list order then
  decides, not the age as the comment in lines 149-150 says. It takes two edits and
  a lost Machine for an index to hold an old and the newest Machine in one domain and one
  of an age between in the other; if the newest is listed first, the old one replaces
  it and loses to the third. `MovesOnce` says nothing of such a history: it is about a
  control plane that users leave alone.

## Proofs

Every invariant that a passing run checks is a theorem of the specification, except
`MovesOnce` and `SurgeWithinLimit` (which is a lemma under fresh reads, for the
refinement), and so are the action properties `CreatesWithinLimit` and
`ErrorNeedsRepetition` and the refinement. The theorems hold
for every value of the constants under the assumptions the modules name, which TLC
evaluates on every run. Where a theorem has an `ASSUME` of its own, it is one the
matching run makes by its constants, and without it the property is false; the
Disagreements tell how. The action lemmas have one step per action.

### Updates (`ControlPlaneMachineSetProofs`, `MachineUpdateProofs`)

For every `Replicas`, every set of templates, every start and every bound.

- `TypeCorrect`. `TypeInv` adds that `view` is finite. Without that the surge count, a
  cardinality, has no type.
- `NeverDuplicates`: `Spec => []NoDuplicateReplacement`. The property alone is not
  inductive: a creation needs to know what the uncached check saw.
  `ReplacementInv` adds `NoReplacementSinceCheck`: from the check to the creation
  the API server has no live Machine of that index and template. It holds since
  nobody but this controller creates Machines, and live Machines never come
  back from deletion. Nothing is assumed of the caches.
- `SurgeLimitedByWhatWasSeen`: `Spec => CreatesWithinLimit`. A Machine that a rolling
  update creates takes the control plane above the limit of `updates.go:152` by at most the
  Machines that its reconcile neither listed nor created. Nothing is assumed of caches,
  edits, failures and users. `SeenIsCounted`: what the reconcile listed and created is
  never more than `Replicas + surgeCount`, and only a count with room leads to a creation.
  On fresh reads there are no others, which gives the lemma `SurgeLimited`; on a stale
  list there may be, which is `updates.go:179` under Disagreements.
- `ReadOnlyUntilActive`: `Spec => []InactiveIsReadOnly`. `WorksWhenActive`: a cache that
  shows Active, or a reconcile past its gate, means the object is Active, since the
  API lets no Active object become Inactive.
- `OnDeleteKeepsOne`: `Spec => []OneLiveMachinePerIndex` under OnDelete, with the
  template left alone or fresh reads (`OnDeleteThroughout`). `OutdatedIsCached`: a live
  Machine that differs from the template was there at the start, so no cache can lack
  it. The indexes a reconcile means to refill thus hold no such Machine
  (`WorksOnEmptyIndexes`), and the uncached check excludes the others.
- `RolloutKeepsIndexes`: `IndexesStayAvailable` in a roll-out that users, Nodes and failures
  leave alone (`Undisturbed`), with any caches, aborts and edits of strategy or state.
  `RolloutInv`: a cache, and the MachineInfos made of it, may lack Machines and readiness but
  never make up either (`CacheLags`, `ViewLags`); a Machine of the template is never deleted;
  so the ready, up to date one a deletion was justified by is still there.

### Refinement (`CapacityRefinementProofs`)

`RollingUpdateImplementsCapacity`: `Spec => ImplementsCapacity` for fresh reads, a
template and strategy that stay, and Machines indexed from 0 (`RollsOverThePlane`);
users delete Machines, Machines fail, Nodes stop being ready, reconciles are aborted.
`PlaneInv` says what a reconcile may rely on of what it read: an outdated info is one of
the start's Machines, an up to date one is still there as long as users deleted
nothing, and the etcd hook keeps `Replicas` Nodes, each with its Machine. A creation is
`Create` by `SurgeLimited` and the duplicate theorem, a deletion `Retire`, the removal
of a Machine `Remove`; all other steps stutter.

### Lifecycle (`ControlPlaneMachineSetLifecycleProofs`)

- `TypeCorrect`. `UidsAreGiven`: whatever copy of the object there is, its UID was given out.
- `OwnersAreActivated` and `GeneratorSparesActivated`: `OwnedOnceActivated` and
  `ActivatedIsNotRegenerated`, with any caches. `ActivationInv`: an object is Active just
  when its UID was activated, and a copy or cache that shows Active has such a UID; the
  generator's deletion carries the resource version of an Inactive object.
- `GarbageCollectorSparesMachines`: `OwnersAreProtected`, if deletions list current
  metadata (`FreshMetadata`; `lifecycle_stale` is the run without). `OwnershipInv`:
  resource versions order the copies; a reconcile that adopts works for the object there
  is; while no patch failed, the Machines not yet disowned are those still to patch
  (`DisownsAll`), so that when the finalizer goes nothing refers to the object.

### Status (`OperatorStatusProofs`)

- `TypeCorrect`; no strengthening is needed.
- `ErrorIsRepeated`: `ErrorNeedsRepetition`, for every limit. `TrackerInv`: the tracker
  equals the history of the errors since the last restart, and a reconcile on its way to
  the status write carries what the tracker says.
- `WakesUp`: `NoLostWakeup`. `WakeInv` follows a reconcile: before the status write it holds
  what the caches still show, and writes to that version, or something is queued
  (`StatusInFlight`); before the
  ClusterOperator write its copy is the cached object or a newer one is on its way
  (`OperatorInFlight`); at rest both reports are right or an event is to come
  (`ReportsAtRest`). An event that the filters drop changes no report; the one exception
  is recorded by `unseen`.

### Mapping (`IndexMappingProofs`, `FailureDomainMappingProofs`)

For every number of replicas, domains and disruptions, and every mapping that a provider
may compute from a reachable cache. `MappingInv`: Machines and cache are finite sets of
Machines created one after the other, so that a listing in any order names each once.

- `MappingCovers`: `MappingCoversIndexes`. Each swap of `takeCandidate` moves a candidate
  and uses one up, so those left are for the indexes not matched, and
  `handleUnmatchedIndex` fills these.
- `BalancedStays`: `BalancedIsStable`. In a balanced placement no domain has more than
  its share, the number of indexes over that of domains, rounded up (`MoreThanTheShare`
  by counting), so `handleUnmatchedIndex` leaves what is not matched where it is.
- `LiveIndexesStayBalanced`: `LiveIndexesBalanced`. The base deals the domains out in
  turn, so the indexes of one domain lie in different rounds, and the rounds are the
  share (`BaseDealsInTurn`). Renaming and each swap keep, per domain, the matched
  indexes and the candidates `together` within it (`RenamesIndexes`,
  `SwapKeepsCounts`). A candidate handed to an unmatched index thus never takes its domain
  above the share, and an index keeps its own domain only within it (`SettlesOne`).

The algorithm's loops are inductions over data. They are proved without the library's
induction theorems: a set of numbers that has 0 and with `n - 1` also `n`, up to a bound,
has them all (`CountUp`), as its complement would have a least element (`LeastNumber`).
A loop is a recursive function of its rounds; that such a function exists, so that its
equation may be used, is proved by counting up too (`KeptRound`, `UnmatchedRound`,
`HandledRound`). Sorting rests on the pigeonhole principle: as many places as
elements, and no place twice.

### Failure domains (`FailureDomainsProofs`)

For every number of Machines and failure domains and each of the platforms.

- `TypeCorrect`. `TypeInv` adds that a mapping is empty or has every replica.
- `InjectionsDoNotMix`, `RefreshIsTheSame`: `InjectsIntoACopy` and `RefreshAgrees` for failure
  domains that set the same fields (`~Mixed`). `SharingInv`: the shared provider spec
  keeps the template's value in every field the failure domains leave open (`rawKept`).
  The fields they set are set by each injection, and completion never reads them. So
  the mapping computed from the overwritten template is that of the template.
- `OnlyRootsAndDevicesLeak`: for every mix of failure domains and on every platform the config
  of an index is the template in that index's failure domain, except for zone and type of
  a root volume the template has on OpenStack, and on vSphere for the network of a
  second device in a template with address pools. `CopyInv`: the provider's own config
  keeps the template's value in every other field. Both leaks are real
  (`domains_mixed` under Disagreements).
- `GeneratorIsAdmitted`: `GeneratedIsAdmitted` (`~Mixed`). `AdmissionInv`: what the generator
  wrote `fits` the Machines, platform by platform, through the webhook's dry run.
- `AdmissionIsSilent`: `AdmittedStays` (`~Mixed`). After admission the failure domains used are
  those of the Machines (`matches`); an even placement over them is stable by the
  mapping's lemma, so that each Machine's index gets the Machine's own failure domain.
  Trying to prove this for any number of replicas is what showed that five Machines
  need to be placed evenly.

### Left to TLC

- Liveness: `RolloutCompletes`, `DeletedIsReplaced`, `FailedReplacementMakesRoom`,
  `AdoptionCompletes`, `RestoresCapacity`, `DeletionCompletes`, `GeneratorConverges`,
  `ReportsSettle`, `ErrorSettles`.
- `MovesOnce`. An inductive invariant would say that every index already moved has a
  Machine that stays in the domain each mapping of a present or past cache gives it; this is
  a property of what the matching does with a placement that another run of it moved
  part of the way, and of caches between the two.

## Not modelled

- Start-up, TLS, feature gates and leader election (`main.go`, `leaderelection.go`,
  `feature_gate.go`, `tls.go`) are wiring of libraries. What is used of them: one
  reconcile of each controller at a time, a restart that loses the memory, and the
  resync.
- Conversions between Go types of provider specs (references, JSON), the server groups of OpenStack Machines, ARO images: data that
  no property tells apart.
- A template whose platform is not that of its failure domains, a dry run that the
  Machine webhook changes or rejects, and an infrastructure that changes while a
  CPMS exists.
- The webhook's checks of name, labels and selector: pure functions of one object.
- Machines whose names carry no index.
- The cached reads of one reconcile are one step in every module.

## Plan

1. `MovesOnce` for any number of replicas and domains.
