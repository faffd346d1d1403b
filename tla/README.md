# TLA+ specifications of the TiProxy machine operator

These modules model the operator that runs TiProxy on groups of machines: the
controller that reconciles `TiProxyMachineGroup`, `TiProxyMachinePort` and
`TiDBResourcePoolLink`, the port allocator it calls, and the agent that runs on
each machine. TLC checks them on small instances; TLAPS proves every invariant and
every action property of the passing runs, and the refinement, for instances of any size. `PROJECT.json` maps every definition to the lines it models.

## The system

| part | state | operations | hard to get right |
|---|---|---|---|
| port allocator (`internal/portallocator`) | none (pure) | `ReconcilePorts` | three loops share a map, a set and an int32 cursor; stability of what is already allocated |
| controller (`internal/controller`) | none of its own; reads informer caches | `Reconcile`, `reconcileDelete` and the status loops | stale caches, merge patches without resourceVersion, failure between any two calls, deletion under a finalizer |
| link assignment (same file) | none | `assignPortsToLinks`, `buildResolvedLinks` | two passes over the same ports |
| cloud managers (`internal/cloud`) | AWS: launch template, ASG, load balancers, target groups, tags | `EnsureMachineGroup`, `DeleteMachineGroup` | every call can fail half way; cleanup works from recorded status |
| agent (`internal/agent`) | `lastConfigHash`; the config file; the Docker container | `Run`, `syncOnce`, `removeMachineStatus` | crash between file, container and push; a push with a lost answer; several agents patch one object |
| rendering (`internal/agent/config`) | none | `BuildTiProxyConfig` | one bad link makes the whole configuration unrenderable |
| Docker runner (`internal/agent/docker`) | none | `IsRunning`, `Start` | `Start` removes the old container before it creates the new one |
| API types (`api/v1alpha1`) | the three kinds | validation, `NormalizeLoadBalancers` | naming rules of load balancers |
| `cmd/*`, `imds` | none | flags, wiring, instance id | - |

Interaction. Users write the three kinds. The controller watches all three
(events of any of them queue the group's key, its own status patches included),
allocates one frontend port per machine port, gives each link a port, calls the
cloud manager and patches the status of group, ports and links, in this order.
Agents poll the group, render `status.resolvedLinks` into TiProxy's
configuration and write heartbeats into `status.machines` of the same object.
All writes are JSON merge patches from a possibly old copy.

What makes each part correct: the allocator never shares a port, stays in range
and keeps what is valid; the controller never leaves machines behind without the
finalizer, never publishes two links on a port, reports Ready only for what was
ensured, catches up after the last change and then rests; the AWS manager
exposes the ports it says it exposes, and rolls each image out once; the agent never takes
TiProxy back to an older configuration, never takes half a file for a push it need not
repeat, and ends up running and reporting the wanted configuration; agents and controller never overwrite each other's entries. Where these can go wrong, line by line, is the list `hazards` in
`PROJECT.json`.

## Modules

| module | models |
|---|---|
| `PortAllocator` | what `ReconcilePorts` returns, as a definition: pins, kept ports, the rest in order |
| `PortAllocatorLoop` | the loops of `ReconcilePorts`, one action per iteration, int32 wrap-around included |
| `PortAllocatorProofs` | theorems about the two definitions, `ReconcilePorts` and `AssignPortsToLinks` |
| `PortAllocatorLoopProofs` | theorems about the loops, and that they compute the definition |
| `LinkAssignment` | `assignPortsToLinks`: by name, then by rank |
| `MergePatch` | what a merge patch from an old base does to a newer object (external, from its use) |
| `MachineGroupController` | API server, informer caches, work queue, `Reconcile` call by call, users, heartbeats, failures, restarts |
| `GroupLifecycle` | abstract: what the finalizer promises about a group and its machines |
| `MachineGroupControllerProofs` | theorems about the finalizer: the invariant, and that the controller implements `GroupLifecycle` |
| `ControllerStatusProofs` | theorems about what the controller hands out and writes: allocations, resolved links, Ready |
| `MachineStatuses` | several agents and the controller writing `status.machines`: upsert, removal at shutdown, pruning |
| `MachineStatusesProofs` | theorems about who may touch an entry |
| `TiProxyConfig` | what the agent derives from the group: image, API port, clusters, port range |
| `MachineAgent` | one agent with its files, container and status entry |
| `MachineAgentProofs` | theorems about file, container and `lastConfigHash` |
| `Exposure` | `NormalizeLoadBalancers`: default, names, scopes |
| `LoadBalancers` | the AWS manager's load balancers, listeners, target groups and attachments, call by call |
| `LoadBalancersProofs` | theorems about what a reconcile and a deletion leave in AWS |
| `InstanceRefresh` | launch template, Auto Scaling group, its image tag and instance refreshes, call by call |
| `InstanceRefreshProofs` | theorems about the image tag and the refreshes |
| `MC*` | instances for TLC |

Definitions named in a comment as *Mutant* are small bugs one could write in the
place of the definition that follows them. They are not part of any specification;
replacing the definition by its mutant makes the property named in `PROJECT.json` fail.

### Port allocator

Objects are known by UID; `NameOf` ranks their `namespace/name` keys, which is
all that sorting and name comparison need. A request is a map entry from UID to
the pinned port, `NoPort` for nil, so the de-duplication of `ReconcilePorts` is
in the data type. `PortAllocator` says what the function computes,
`PortAllocatorLoop` how: `loop` and `todo` are the position in the code, `result`,
`used` and `next` its variables. The controller's model uses the definition; the
run `allocator` and the theorem `AlwaysAgrees` show that both agree
(`AgreesWithDefinition`), so what is proved of the definition holds of the loops.

### Controller

`group`, `ports` and `links` are what the API server holds; `groupCache`,
`portCache` and `linkCache` are the informers' copies, each some earlier state.
`queued` is the work queue (one key; client-go keeps at most one entry and runs
one reconcile per key). `pc` is the call the running reconcile makes next, `seen`
what it read when it began, `todo` the objects its status loop has yet to patch.
`machines` is the AWS machine group; `ensured` records for which generations
`EnsureMachineGroup` succeeded.

A reconcile begins by reading the caches (one step: they can lag by any amount,
separately, so further interleaving adds nothing), and its guards decide which
of the `Begin...` actions applies, in the order of the early returns of
`Reconcile`. Each further action is one call: the finalizer patches, `Ensure`,
`Delete`, the group's status patch, one port's, one link's. Between any two of
them users edit, caches move, agents write, calls fail (`ApiError`,
`EnsureError`, `DeleteCloudError`: before or after the call had its effect) or
the process restarts. Patches find their object by name: one computed for a
deleted object may reach its successor. A returned error, `Requeue` and
`RequeueAfter` are the same thing without time: the key is queued again.

Abstracted: a condition is its reason and generation, `status.cloud` the manager
that filled it, a link its target, whether it is managed and its phase. The AWS
manager's launch template version, which changes in every reconcile, appears as
the extra event of `PatchGroup`. All machine ports and links of the model refer to the group.

`GroupLifecycle` is the controller seen from far away: a group is absent, new (no
finalizer yet), guarded or condemned (deleted by its user, kept by the finalizer), and
machines are built, torn down and the group released only in certain phases.
`Phase` maps the controller's `group` to it; `FollowsLifecycle` says that every
step of the detailed model, stale caches and crashes included, is a step of the life
cycle or a stutter. `Build` is allowed for a condemned group: a
reconcile that began before the deletion may still create machines, and the
deletion removes them.

Deleting a group fails when its provider is not supported or, on AWS, when its exposure
is no longer valid (`Undeletable`: `DeleteMachineGroup` normalises the exposure
before anything else). `DeletionCompletes` says that nothing else keeps a deleted group.

### Agent

`TiProxyConfig` computes from a group's fields the settings (image from image, base
image, version and the default; API port) and the configuration: the
clusters, the port range and the API port, or an error. The hash of the
text tells configurations apart, so the model compares them as values. The
steps of `syncOnce` are actions; each can fail and then ends in a report of
Failed. `asked` is the history of what the group asked for, so that properties can speak
of older and newer configurations; the group may change back to an earlier one
and change `configPath` and `apiPort`. TiProxy reads the file it mounts when it
starts, takes pushes on the API port it started with, and may or may not notice
a changed file by itself (`Reload`, no fairness).

`os.WriteFile` works in place, so writing is two steps: `WriteConfigFile` truncates,
`WriteContent` writes. In between, and for good when the write fails or the agent
is killed, the file is `Torn`. Nothing keeps TiProxy from reading it then:
`DockerRestart` and `Reload` may take a torn file, for an empty or cut off one can be
valid TOML. TiProxy then runs with whatever was in the half it found
(`container.torn`), on an API port it found there or on its default (`HalfReadPorts`).
`container.config` is the last configuration it had as a whole. `LastIsServed` says
what saves the agent: it writes only what differs from the file, so while half a
file is served `lastConfigHash` names something the group no longer asks for,
and the next push is not skipped. `NeverOlder` is about whole configurations: what
half a file says may be older than what TiProxy had.

Where the code does not do what one would wish, the properties say exactly when:
* after a change of `apiPort`, or when half a file gave TiProxy another API port, no
  push reaches TiProxy until it restarts (`OutOfReach`);
* after a push whose answer was lost, a return to the configuration before it is
  not pushed, because `lastConfigHash` still names it; after a change of `configPath`
  a restart of TiProxy takes it back to the old file, and nothing is pushed
  either (`Overlooked`).

`LastIsServed` and `NeverOlder` hold as long as the group neither changes back nor
changes `configPath`. Each of the exceptions is needed: without any one of them TLC finds a
counterexample. A running container's image is never replaced, and the status
reports the wanted image, not the one that runs; the model has this, no property is about it.

Left out: `containerName` (a change leaves the old container running beside the
new one), `certDir`, `extraArgs`, `apiScheme`. `spec.tiproxy.config` is read by no code.

### status.machines

`MachineStatuses` has two agents (or more) that each Get the group and then send a
merge patch, and the controller that prunes. Between Get and Patch anything may
happen; a patch that was under way at SIGTERM may still arrive when the entry has
been removed (`late`). An entry is a record of heartbeat and report, because
merge patches compare and merge entries field by field: an entry patched
against an old copy that had the same report and deleted in between comes back without
the report. `AddedByOwner` says that no patch brings back the entry of another
machine; a machine's own late patch may bring its entry back after the removal, and
nothing takes it away again. `AddedByOwner` and `LostOnlyToNullPatch` together say that
agents do not harm each other with one exception, the agent that leaves as the last one it knows
of, whose patch `machines: null` also deletes entries added since; `Registers` that
this heals.

The pruning of the controller never reaches the server (run `controller_prune`). The mutant
`ReconcilePatchPrunes` is the obvious repair, with the base of the patch copied
before the pruning; with it `LostOnlyToNullPatch` fails, because the cache the
controller prunes from may lag behind a new heartbeat: the patch would delete
the entry of a live agent until its next heartbeat.

### AWS load balancers

`LoadBalancers` looks inside the two steps `Ensure` and `DeleteCloud` of the
controller's model. `group` holds the exposure and `status.cloud.loadBalancers`
(as a set of pairs of an entry's name and an ARN), `ports` the allocated ports, `seenGroup` and `seenPorts` the
caches; the other variables are AWS's. `job` is the reconcile: `pc` the next call,
`todo` the load balancers still to be ensured, `tgs` and `managed` the code's
`tgByPort` and `managedTGARNs`, `doomed` the ARNs still to be deleted. Go
iterates over its maps in random order, so the port of the next call is any. Calls
that only read are part of the action that uses the answer: nobody else writes these
resources. An error ends the job with the status collected so far, which is an
empty list until the exposure is complete, and that list is patched. A lost answer is
an error one step later.

Of AWS the model says: a target group is created once per name, belongs to the load
balancer whose listener forwards to it, and cannot be deleted while one does; a
load balancer takes its listeners along. `DescribeTargetGroups` after the listeners
were deleted may answer with the old target groups or with none.

`Exposure` says in closed form what the loop of `NormalizeLoadBalancers` computes: a
made-up name is the scope with the number of earlier entries that `usedNames` counts under
it, and explicit names are compared with each other only.

Names come in three kinds, and the code mixes them. An entry has its own name,
explicit or made up. On AWS its load balancer has the name `Cloud`: the entry's
`loadBalancerName` if it has one, else a name made from the entry's, and in any case what
`awsResourceName` makes of it (`AwsResourceName`, a parameter; the instance maps a
capital letter to a small one). Its target groups have the name `TargetName`, in
which the override plays no part. Therefore:
* An entry that is renamed may keep its load balancer ("Public" and "public", or an
  unchanged `loadBalancerName`). The status still lists it under the old name, so the
  reconcile that has just ensured it deletes it as stale, by ARN, and succeeds. The run
  `load_balancer_rename` shows this; `EnsuredMeansExposed` and `KeepsServing` except it,
  exactly (`Renamed`), and `ExposureConverges` says that the next reconcile makes the
  load balancer again.
* An entry whose `loadBalancerName` changes gets a new load balancer, but its target
  groups belong to the old one, AWS refuses to share them, and the reconcile fails before it would
  delete the old one: it never comes to an end (`Unexposable`).
* A made-up name may be the explicit name of another entry, although the API type says
  that names are unique (`types_common.go:122`): an unnamed internal load balancer and
  one named "internal" become one. The model has this; no property rules it out.

A deletion works on the cached copy. `DeletedMeansGone` says what it deletes by what the
API server's group says by then, and only if the copy was not older (`ReadCurrent`): with an
older spec or status a load balancer that the server's status lists can stay behind.

Left out: placement, tags, the type of an existing load balancer, and
`frontendID` as a record of its own (the code always writes it together with the list).
Load balancers and target groups that neither spec nor status name any more (after
a failed reconcile has emptied the list, or when AWS lists no target groups) stay
in AWS. The model has these states; the properties do not rule them out.

### AWS instance refresh

`InstanceRefresh` looks into the same step of the controller from another side:
`ensureLaunchTemplate`, `ensureAutoScalingGroup` and `ensureImageRollingRefresh`. An
image (the three image fields of the spec) is a number; `NoImage` stands for empty fields,
whose hash is the empty string like a missing tag. `asked` is the history of what the
user asked for and `cache` how much of it the controller has seen. `hash` and `found` are what the reconcile read, and may be old when it
acts. `runs` is the image each instance runs: the one its agent read when the
instance booted. The refresh itself, failing instances and refreshes started by
others are AWS's. `behind` is a history variable, the machines that nobody
promised to replace: those that ran when the group was first tagged, or that a failed
refresh left.

The model shows that the reconcile loop which the launch template versions keep
alive (each reconcile makes one, each is a change of `status.cloud`) is not only waste:
a refresh that had to wait for an earlier one is started by it (`RollsOut`; its mutant
reuses the launch template). Other changes of the group queue it too, such as the agents'
heartbeats (`agent.go:186`); the model leaves them out, so `RollsOut` does not lean
on running agents, and its mutant says what the loop alone is good for.

`TagIsReached` and `RollsOut` except a user who takes a change back (`Onward`): the tag
matches the wanted image again before the second refresh was started, and a machine that
booted in between keeps the image in between. `RollsOut` also excepts empty
image fields, for which the manager does nothing. TLC refutes both without the exceptions.

## Runs

| run | instance | shows |
|---|---|---|
| `allocator` | 3 requests, int32 reduced to end at 3, ranges of 1 to 3 ports, two of them ending there, and an invalid one; every map of existing allocations | range, distinctness, stability, agreement with the definition, fixed point, termination |
| `controller_ports` | 3 machine ports (two with the same name), 2 links, pins, 2 changes of users, no failures | `HandedDistinct`, `ResolvedDistinct`, `CurrentReadKeeps` on stale caches |
| `controller_liveness` | noop manager, 3 ports of which the group may have 1, 1 link, 2 changes | `Converges`, `Quiesces` |
| `controller_recovery` | aws manager, every kind of refused spec, 1 port, 1 agent, delete and create again, 2 changes, 2 failures or restarts | `MachinesGuarded`, `FollowsLifecycle`, `ReadyIsEnsured`, `Converges`, `DeletionCompletes` |
| `agent` | groups with different links (one that cannot be rendered), images, API ports and paths; 2 changes, 3 failures; files found half written | `LastIsServed`, `NeverOlder`, `Settles` |
| `machine_statuses` | 2 agents, 1 report, two moments of the clock, 2 shutdowns, deaths or failures | `AddedByOwner`, `LostOnlyToNullPatch`, `Registers` |
| `load_balancers` | from two load balancers to: default, none, one with another scheme, duplicate name, unknown scope, an unnamed one beside one of the name made up for it, one renamed by letter case, one with `loadBalancerName`; ports {1} and {1, 2}, TCP or not; 2 changes, 1 failure or restart | `EnsuredMeansExposed`, `DeletedMeansGone`, `KeepsServing`, `ExposureConverges` |
| `instance_refresh` | 2 machines, 3 images and none, 2 changes, 2 failures | `TagIsReached`, `OneRefreshPerImage`, `OnlyChangesRefresh`, `RollsOut` |

Four runs end in a counterexample, each against a sentence of the repository
(quoted under `findings`):

* `controller_stale_cache` (`AllocationsStable`): port 1 gets a frontend port,
  then port 2, which sorts before it, is created; the reconcile that its
  event starts may still see a group without allocations and gives port 2 the
  frontend port of port 1.
* `controller_prune` (`PrunedAreGone`): the pruned entries are missing from the
  base of the patch as well, so the patch does not remove them.
* `load_balancer_rename` (`EveryEntryHasBalancer`): "public" is renamed to "Public"; the
  reconcile finds the load balancer by its AWS name, then deletes it under the old entry of
  the status, and reports success with no load balancer left.
* `refresh_first_image` (`ChangesReachAll`): a group created without image fields
  has no tag; its first image is only recorded, and the machines keep what they run.

One more departure is part of a property: `AllocatesFromRange` excepts a range that ends at the
largest int32 and is full (`Exhausted`), where the cursor of `findNext` wraps
around and a port outside the range is given out instead of an error.

Why the bounds are enough. Two ports and two links are what it takes to collide;
a third port with a used name is what it takes for a patch to reach a successor. Two
changes of users are needed for the races above (create while a patch is in
flight, delete and create again, change and change back). One failure puts a crash between any two calls; two
let the recovery fail too. The limit of ports per group (50 in the code) is a
constant and set to 1 or 2 so that it is reached.

Two load balancers and two ports suffice for work on one to disturb the other; two
changes remove a load balancer and bring it back while the status still names the first;
renaming, overriding or colliding names take one change.
Three images are what it takes to change the image during the refresh of the one before;
two agents to come between the other's Get and Patch.

Deadlock is not checked: a controller with nothing to do and no user left is at
rest, a deleted group is done with, an allocator that has returned is done, agents
may all be off, and the remaining runs allow it for uniformity.

Fairness. Controller: weak fairness of beginning a queued reconcile and of its
steps (the worker goroutine), and of each informer (the watch is re-established).
No fairness of users, agents, failures or restarts, whose number is bounded:
the liveness properties say what holds after the last of them. Agent: weak fairness of the
steps of `syncOnce` (the ticker). Load balancers: weak fairness of the operator and of
both caches; a reconcile may always begin, because one that reaches AWS makes a
launch template version and so wakes the controller up again, and one that fails is
requeued. Machine statuses: weak fairness of each running agent's steps (ticker, and calls
that return); none for the controller. Instance refresh: weak fairness of the
operator, of its cache and of AWS launching and replacing instances; a reconcile begins
only when something queued it. None for Docker's restart or TiProxy's reload.

## Proofs

Every theorem is for any values of the constants: any finite sets of objects, machines,
images, exposures and ports, and any number of edits, failures and restarts. What
the constants have to satisfy is in the `ASSUME` of the module that declares them:
types, finite sets, the objects of the initial state having different names (the API server
keys them by name), and an exposure being nil or a list of items with a name, a scope and
an override. About `AwsResourceName` nothing is assumed.
Only the two theorems about the finalizer assume more, that no spec uses the noop manager.

An invariant of a run is seldom inductive. Each proof module begins with the stronger
invariant it needs; TLC checked each of these before it was proved.

### Port allocator and link assignment

`PortAllocatorProofs` is about the definitions, without states: a successful
`ReconcilePorts` gives every request a port of the range, no two the same, pins what they ask
for (`ReconcilePortsCorrect`); what may be kept is kept (`ReconcilePortsKeeps`); with valid
pins it succeeds exactly when the range has enough ports (`ReconcilePortsSucceeds`, a
counting argument: filling in order uses up the smaller of two sets); its result is
a fixed point. For links: ports are distinct and allocated (`LinksGetDistinctPorts`), and
links go without one exactly when there are too few (`UnresolvedForWantOfPorts`).

`PortAllocatorLoopProofs` is about the loops: `TypeCorrect`; `NeverShared` (invariant: `used`
is the set of ports in `result`, so that assigning a port not in `used` keeps the map
injective); `AlwaysFromRange` (the cursor is at least `start` and everything below it
is used, so that it can pass the largest int32 only when the range ends there and is
full); `AlwaysKeeps` (a port that only its holder may claim is not used by anyone
else until the second loop has reached the holder, and is the holder's afterwards);
`AlwaysAgrees` (after each loop `result` is the part of the definition that loop
stands for, and in the third the requests served so far are the first in order, on the
first free ports); `AlwaysFixedPoint`, from `AlwaysAgrees` and `ReconcilePortsFixedPoint`.

### Controller

`MachineGroupControllerProofs` proves `FinalizerGuards`: `MachinesGuarded`
when no spec uses the noop manager. `MachinesGuarded` alone is not inductive; `GuardInv` adds
* a cache that shows the group in use (alive, not deleted, finalizer) is right
  that the server's group has the finalizer, because only a reconcile that read a
  deleted group takes it off and the cache never goes back behind that (`CacheInv`);
* a cache that shows a deleted group excludes a group in use on the server, also
  while an `AddFinalizer` patch is in flight;
* a reconcile about to call `EnsureMachineGroup` still has the finalizer on the
  server, one about to take the finalizer off has no machines (`CallInv`).

`ImplementsLifecycle` proves the refinement, `Spec => FollowsLifecycle`, under the
same assumption and from the same invariant: a step that touches neither the group's
phase nor the machines is a stutter (`QuietLifecycle`), a user's step is `Create` or
`Delete` (`UserLifecycle`), and for the calls of the controller the invariant supplies what
the guard of the abstract step asks for (`CallLifecycle`): the finalizer is taken
off a condemned group without machines, machines are torn down only while the group
is condemned.

The assumption about the provider is needed: changing `spec.provider` from aws to
noop and deleting the group removes the finalizer and leaves the machines.

`ControllerStatusProofs` proves `TypeOK`, `HandedDistinct`, `ResolvedDistinct`,
`ReadyIsEnsured` and `CurrentReadKeeps` for both managers. A merge patch leaves a field as
the server has it or as the reconcile computed it from an old copy, so what is to hold of
the server's group must hold of every copy: of the cache and of what the
reconcile read (`GroupOK` of all three in `StatusInv`). `PlanOK` says what the calls after
the allocation rely on: the allocation succeeded, and without a cloud error the
generation read is among the ensured ones. The distinctness of ports and links comes
from `PortAllocatorProofs`.

### status.machines

`MachineStatusesProofs` proves `TypeOK`, `AddedByOwner` and `LostOnlyToNullPatch` from what
the three kinds of patches can touch (`UpsertedKeys`: one key; `RemovedKeys`: one key, or
all when there was no other). `EntryInv` says that agents send whole entries; what the server
merges from them may be partial, but is never empty.

### Agent

`MachineAgentProofs` proves `TypeOK`, `LastIsServed` and `NeverOlder`.
Neither of the last two is inductive: a restart of TiProxy goes back to the file, and a
push that was interrupted leaves file, container and `lastConfigHash` three different
configurations. `Ordered` puts them in order: the file is no older than what runs and what is
remembered, what syncOnce works on is no older than any of them, and what runs
is no older than what is remembered or about to be. "No older" is said by positions in
`asked`, and the invariant is conditional on a history that stays on one path and does
not come back. `Ordered` is about whole configurations; `TornInv` is about halves: when
TiProxy runs with half a file, or the file is torn, the group has left what the agent
remembers or is about to remember, so the push that mends it is not skipped.

### AWS load balancers

`LoadBalancersProofs` proves `TypeOK`, `EnsuredMeansExposed`, `DeletedMeansGone` and
`KeepsServing`, for any `AwsResourceName`. `BalancerInv` has three parts.
* `AwsInv`: one load balancer per AWS name, one listener per port of it, which forwards to an
  existing target group of that port; no target group serves two load balancers. That a new ARN is not one in use rests on
  the finiteness of everything that refers to ARNs (`FreshNumber`).
* `ServeInv`, of the load balancer at hand: `tgByPort` has one target group per port and all that
  its listeners forward to. This is why `ensureListener` never replaces the listener of
  a port that is served (`EnsureListenerKeeps`).
* What the stages have achieved. `DoneInv`: the load balancers that are done have their
  scheme, listen on exactly the wanted ports, and forward to managed, later to attached,
  target groups. `StaleInv`: only ARNs that the status has under the name of an entry that is
  gone are doomed, and those of them that exist are; so what is wanted stays done, or was
  renamed (`KeptOrRenamed`). `DeleteInv`: what the spec and status it read name is gone or
  doomed; `DeletedMeansGone` follows where these are the server's.

### AWS instance refresh

`InstanceRefreshProofs` proves `TypeOK`, `OnlyChangesRefresh`, `OneRefreshPerImage` and
`TagIsReached`. `JobInv` says which of the answers the manager got are still good when it acts
on them: nobody else creates the group or sets its tag. `CountInv` finds for tag and
running reconcile the positions in the user's history they come from, and bounds the refreshes
of an image by the times it was asked for up to the tag, the faults, and the one that is not
tagged yet. `ReachInv` says of the hash that is about to become the tag what
`TagIsReached` says of the tag.

### Only model-checked

Liveness (`Terminates`, `Converges`, `Quiesces`, `DeletionCompletes`, `Settles`, `Registers`,
`ExposureConverges`, `RollsOut`) is outside TLAPS, and so is ENABLED. That the closed form of
`NormalizeLoadBalancers` is what its loop computes is an induction over a list; it was compared
with the loop for all lists of up to three entries.

## Not modelled, and the plan

Not modelled: flag parsing and wiring, the instance metadata client, generated
code, manifests; texts of messages, hashes of links and the layout of the TOML. Of the AWS
manager: the choice of subnets and zones (pure functions of answers of AWS), tags other
than the image hash, sizes, user data, and which characters `awsResourceName` replaces. Of the agent: a
change of `containerName`. A push that TiProxy applies after it timed out and
after a newer one is not modelled either.

Next, in this order:

1. An abstract specification of `EnsureMachineGroup` and `DeleteMachineGroup` for the load
   balancers, with `LoadBalancers` shown to implement it, as `GroupLifecycle` is for the
   controller.
2. The reverse direction of some properties: when `EnsureMachineGroup` has to fail
   (`SchemeMismatch`), and which load balancers can be left behind after a failed reconcile.
3. Placement (`selectPlacementSubnets`) as operators with a reference definition.
