----------------------- MODULE MachineGroupController -----------------------
(***************************************************************************)
(* MachineGroupReconciler: the controller that watches one                 *)
(* TiProxyMachineGroup with its TiProxyMachinePorts and                    *)
(* TiDBResourcePoolLinks, allocates frontend ports, resolves links, calls  *)
(* the cloud manager and reports in the status of the three kinds.         *)
(*                                                                         *)
(* The API server holds group, ports and links. The controller reads them  *)
(* from three informer caches, each an earlier state of the server, and    *)
(* writes with merge patches that the server applies to what it holds by   *)
(* then. One reconcile runs at a time (MaxConcurrentReconciles is 1), one  *)
(* API or cloud call per step; users, informers, agents and crashes        *)
(* interleave with the steps.                                              *)
(***************************************************************************)
EXTENDS LinkAssignment, MergePatch

CONSTANTS PortUID,       \* UIDs of TiProxyMachinePorts
          LinkUID,       \* UIDs of TiDBResourcePoolLinks
          Machine,       \* machine ids of agents
          Specs,         \* the TiProxyMachineGroup specs users write
          Targets,       \* backend settings of a link
          Pins,          \* the values of spec.requestedPort, NoPort for nil
          MaxMachinePortsPerGroup,
          StaleAfter,    \* MachineStatusStaleAfter; 0 disables pruning
          InitialPorts,  \* the machine ports there are at first
          InitialLinks,  \* the links there are at first
          InitialSpec,
          MaxEdits,      \* bound: changes made by users
          MaxFails,      \* bound: failed calls and crashes
          MaxNow         \* bound: the clock

\* The parts of spec that decide what the controller does: the range, whether
\* exposure is off, on or does not normalise, the linkSelector and provider.
SpecType == [start : Int, end : Int, exposure : {"off", "on", "invalid"},
             selectorOK : BOOLEAN, provider : {"noop", "aws", "unsupported"}]

ASSUME ControllerAssumption ==
    /\ PortUID \cup LinkUID \subseteq UID
    /\ PortUID \cap LinkUID = {}
    /\ InitialPorts \subseteq PortUID /\ InitialLinks \subseteq LinkUID
    /\ \A u, v \in InitialPorts : NameOf[u] = NameOf[v] => u = v
    /\ \A k, l \in InitialLinks : NameOf[k] = NameOf[l] => k = l
    /\ Specs \subseteq SpecType /\ InitialSpec \in Specs
    /\ Pins \subseteq Int /\ NoPort \in Pins
    /\ Targets # {}
    /\ MaxMachinePortsPerGroup \in Nat
    /\ StaleAfter \in Nat
    /\ MaxEdits \in Nat /\ MaxFails \in Nat /\ MaxNow \in Nat

VARIABLES group,      \* API server: the TiProxyMachineGroup
          ports,      \* API server: the TiProxyMachinePorts, by UID
          links,      \* API server: the TiDBResourcePoolLinks, by UID
          groupCache, portCache, linkCache,   \* the informers' copies
          queued,     \* the group's key is in the work queue
          pc,         \* the call the running reconcile makes next, or "idle"
          seen,       \* what the running reconcile read
          todo,       \* the objects its current loop has yet to patch
          cloudErr,   \* EnsureMachineGroup returned an error
          reason,     \* of the error it is about to report
          machines,   \* cloud: the machine group (template, ASG) exists
          ensured,    \* history: generations EnsureMachineGroup succeeded for
          unborn,     \* the UIDs not used so far
          edits, fails,
          now         \* the clock of agents and controller

server == <<group, ports, links>>
caches == <<groupCache, portCache, linkCache>>
local == <<pc, seen, todo, cloudErr, reason>>
cloud == <<machines, ensured>>
bounds == <<unborn, edits, fails, now>>
vars == <<server, caches, queued, local, cloud, bounds>>

-----------------------------------------------------------------------------
(* Objects                                                                 *)

NoCondition == [reason |-> "None", gen |-> 0]

NewGroup(spec, gen) ==
    [alive |-> TRUE, deleting |-> FALSE, finalizer |-> FALSE,
     gen |-> gen, spec |-> spec,
     observed |-> 0, alloc |-> EmptyMap, resolved |-> EmptyMap,
     cloud |-> "none", ready |-> NoCondition, machines |-> EmptyMap]

NewPort(pin) ==
    [pin |-> pin, assigned |-> NoPort, phase |-> "None", exposed |-> "None"]

\* managed: not disabled, selected by linkSelector and referring to the group.
NewLink(target) == [managed |-> TRUE, target |-> target, phase |-> "None"]

Without(map, u) == [v \in DOMAIN map \ {u} |-> map[v]]
With(map, u, x) == [v \in DOMAIN map \cup {u} |-> IF v = u THEN x ELSE map[v]]

Nothing == [group |-> [NewGroup(InitialSpec, 0) EXCEPT !.alive = FALSE],
            ports |-> EmptyMap, links |-> EmptyMap]

Init ==
    /\ group = NewGroup(InitialSpec, 1)
    /\ ports = [u \in InitialPorts |-> NewPort(NoPort)]
    /\ links \in [InitialLinks -> {NewLink(t) : t \in Targets}]
    /\ groupCache = group /\ portCache = ports /\ linkCache = links
    /\ queued = TRUE
    /\ pc = "idle" /\ seen = Nothing /\ todo = {}
    /\ cloudErr = FALSE /\ reason = "None"
    /\ machines = FALSE /\ ensured = {}
    /\ unborn = (PortUID \cup LinkUID) \ (InitialPorts \cup InitialLinks)
    /\ edits = 0 /\ fails = 0 /\ now = 0

-----------------------------------------------------------------------------
(* Users, with MaxEdits changes in all                                     *)

UserEdit ==
    /\ edits < MaxEdits
    /\ edits' = edits + 1
    /\ UNCHANGED <<caches, queued, local, cloud, fails, now>>

\* A UID is never used again, a name may be.
NameFree(u, objects) == \A v \in DOMAIN objects : NameOf[v] # NameOf[u]

CreatePort(u, pin) ==
    /\ u \in unborn \cap PortUID
    /\ NameFree(u, ports)
    /\ ports' = With(ports, u, NewPort(pin))
    /\ unborn' = unborn \ {u}
    /\ UserEdit
    /\ UNCHANGED <<group, links>>

EditPort(u, pin) ==
    /\ u \in DOMAIN ports
    /\ pin # ports[u].pin
    /\ ports' = [ports EXCEPT ![u].pin = pin]
    /\ UserEdit
    /\ UNCHANGED <<group, links, unborn>>

DeletePort(u) ==
    /\ u \in DOMAIN ports
    /\ ports' = Without(ports, u)
    /\ UserEdit
    /\ UNCHANGED <<group, links, unborn>>

CreateLink(u, target) ==
    /\ u \in unborn \cap LinkUID
    /\ NameFree(u, links)
    /\ links' = With(links, u, NewLink(target))
    /\ unborn' = unborn \ {u}
    /\ UserEdit
    /\ UNCHANGED <<group, ports>>

EditLink(u, target, managed) ==
    /\ u \in DOMAIN links
    /\ <<target, managed>> # <<links[u].target, links[u].managed>>
    /\ links' = [links EXCEPT ![u].target = target, ![u].managed = managed]
    /\ UserEdit
    /\ UNCHANGED <<group, ports, unborn>>

DeleteLink(u) ==
    /\ u \in DOMAIN links
    /\ links' = Without(links, u)
    /\ UserEdit
    /\ UNCHANGED <<group, ports, unborn>>

EditSpec(spec) ==
    /\ group.alive
    /\ spec # group.spec
    /\ group' = [group EXCEPT !.spec = spec, !.gen = @ + 1]
    /\ UserEdit
    /\ UNCHANGED <<ports, links, unborn>>

\* The API server keeps a deleted object while it has a finalizer.
DeleteGroup ==
    /\ group.alive /\ ~group.deleting
    /\ group' = IF group.finalizer THEN [group EXCEPT !.deleting = TRUE]
                                   ELSE [group EXCEPT !.alive = FALSE]
    /\ UserEdit
    /\ UNCHANGED <<ports, links, unborn>>

\* The same name again. (Generations go on counting, to tell the two apart.)
CreateGroup(spec) ==
    /\ ~group.alive
    /\ group' = NewGroup(spec, group.gen + 1)
    /\ UserEdit
    /\ UNCHANGED <<ports, links, unborn>>

-----------------------------------------------------------------------------
(* Agents: status.machines[m], reduced to its lastHeartbeatTime            *)

Heartbeat(m) ==
    /\ group.alive
    /\ group' = [group EXCEPT !.machines = With(@, m, now)]
    /\ group' # group
    /\ UserEdit
    /\ UNCHANGED <<ports, links, unborn>>

Tick ==
    /\ now < MaxNow
    /\ now' = now + 1
    /\ UNCHANGED <<server, caches, queued, local, cloud, unborn, edits, fails>>

-----------------------------------------------------------------------------
(* Informers: a watch event updates the cache and queues the group's key.  *)
(* For(...) and Watches(...) have no predicate: status changes, the        *)
(* controller's own included, are events like any other.                   *)

SyncGroup ==
    /\ groupCache # group
    /\ groupCache' = group
    /\ queued' = TRUE
    /\ UNCHANGED <<server, portCache, linkCache, local, cloud, bounds>>

\* Mutant: the controller does not watch machine ports.
SyncPortsUnwatched ==
    /\ portCache # ports
    /\ portCache' = ports
    /\ UNCHANGED <<server, groupCache, linkCache, queued, local, cloud, bounds>>

SyncPorts ==
    /\ portCache # ports
    /\ portCache' = ports
    /\ queued' = TRUE
    /\ UNCHANGED <<server, groupCache, linkCache, local, cloud, bounds>>

SyncLinks ==
    /\ linkCache # links
    /\ linkCache' = links
    /\ queued' = TRUE
    /\ UNCHANGED <<server, groupCache, portCache, local, cloud, bounds>>

-----------------------------------------------------------------------------
(* Reconcile: reading. Get and the two Lists are served by the caches, and *)
(* a cache may lag by any amount: reading them in one step loses nothing.  *)

\* listManagedLinks; every machine port of the model refers to the group.
ManagedLinks ==
    LET managed == {l \in DOMAIN linkCache : linkCache[l].managed}
    IN  [l \in managed |-> linkCache[l]]

\* Mutant: links that are disabled or not selected are patched too.
ManagedObjectsAll == DOMAIN portCache \cup DOMAIN linkCache

ManagedObjects == DOMAIN portCache \cup DOMAIN ManagedLinks

RangeValid(spec) == spec.start > 0 /\ spec.end >= spec.start

PinsOf(objects) == [u \in DOMAIN objects |-> objects[u].pin]

AllocationOK(g, objects) ==
    ReconcilePortsOK(g.alloc, PinsOf(objects), g.spec.start, g.spec.end)

Allocation(g, objects) ==
    ReconcilePorts(g.alloc, PinsOf(objects), g.spec.start, g.spec.end)

TooManyPorts == Cardinality(DOMAIN portCache) > MaxMachinePortsPerGroup

\* Mutant: Reconcile goes on before the finalizer is on the server.
ValidatedUnguarded ==
    /\ groupCache.alive /\ ~groupCache.deleting
    /\ RangeValid(groupCache.spec) /\ groupCache.spec.exposure # "invalid"
    /\ groupCache.spec.selectorOK

\* Past the finalizer and the validation of the spec.
Validated ==
    /\ groupCache.alive /\ ~groupCache.deleting /\ groupCache.finalizer
    /\ RangeValid(groupCache.spec) /\ groupCache.spec.exposure # "invalid"
    /\ groupCache.spec.selectorOK

\* The reconcile starts; its first call, and the objects it will patch.
Begin(call, objects) ==
    /\ pc = "idle" /\ queued
    /\ queued' = FALSE
    /\ pc' = call
    /\ seen' = [group |-> groupCache, ports |-> portCache, links |-> ManagedLinks]
    /\ todo' = objects
    /\ cloudErr' = FALSE
    /\ UNCHANGED <<server, caches, cloud, bounds>>

\* The reconcile is over; again: it returned an error, Requeue or RequeueAfter.
End(again) ==
    /\ queued' = (queued \/ again)
    /\ pc' = "idle" /\ seen' = Nothing /\ todo' = {}
    /\ cloudErr' = FALSE /\ reason' = "None"

\* Returns at once: no such group, or one whose finalizer is gone.
BeginNothing ==
    /\ pc = "idle" /\ queued
    /\ ~groupCache.alive \/ (groupCache.deleting /\ ~groupCache.finalizer)
    /\ queued' = FALSE
    /\ UNCHANGED <<server, caches, local, cloud, bounds>>

BeginAddFinalizer ==
    /\ groupCache.alive /\ ~groupCache.deleting
    /\ ~groupCache.finalizer
    /\ Begin("addFinalizer", {})
    /\ UNCHANGED reason

\* There is no manager that could delete the group's machines, or it fails
\* before its first call: the aws manager normalises the exposure.
Undeletable(spec) ==
    \/ spec.provider = "unsupported"
    \/ spec.provider = "aws" /\ spec.exposure = "invalid"

BeginDelete ==
    /\ groupCache.alive /\ groupCache.deleting /\ groupCache.finalizer
    /\ ~Undeletable(groupCache.spec)
    /\ Begin("delete", {})
    /\ UNCHANGED reason

BeginInvalidSpec ==
    /\ groupCache.alive /\ ~groupCache.deleting /\ groupCache.finalizer
    /\ \/ ~RangeValid(groupCache.spec) /\ reason' = "InvalidPortRange"
       \/ /\ RangeValid(groupCache.spec)
          /\ groupCache.spec.exposure = "invalid"
          /\ reason' = "InvalidExposure"
    /\ Begin("fail", {})

BeginNoPorts ==
    /\ Validated
    /\ \/ TooManyPorts /\ reason' = "TooManyMachinePorts"
       \/ /\ ~TooManyPorts
          /\ ~AllocationOK(groupCache, portCache)
          /\ reason' = "PortAllocationFailed"
    /\ Begin("fail", ManagedObjects)

BeginEnsure ==
    /\ Validated /\ ~TooManyPorts /\ AllocationOK(groupCache, portCache)
    /\ groupCache.spec.provider # "unsupported"
    /\ Begin("ensure", ManagedObjects)
    /\ UNCHANGED reason

\* An invalid linkSelector, no cloud manager for spec.provider, or a group that
\* cannot be deleted: the reconcile returns the error and is tried again.
BeginError ==
    /\ pc = "idle" /\ queued
    /\ groupCache.alive
    /\ \/ /\ groupCache.deleting /\ groupCache.finalizer
          /\ Undeletable(groupCache.spec)
       \/ /\ ~groupCache.deleting /\ groupCache.finalizer
          /\ RangeValid(groupCache.spec) /\ groupCache.spec.exposure # "invalid"
          /\ ~groupCache.spec.selectorOK
       \/ /\ Validated /\ ~TooManyPorts /\ AllocationOK(groupCache, portCache)
          /\ groupCache.spec.provider = "unsupported"
    /\ UNCHANGED vars

-----------------------------------------------------------------------------
(* Reconcile: finalizer and deletion                                       *)

\* r.Patch with the finalizer added, then Requeue; NotFound is an error.
AddFinalizer ==
    /\ pc = "addFinalizer"
    /\ group' = IF group.alive THEN [group EXCEPT !.finalizer = TRUE] ELSE group
    /\ End(TRUE)
    /\ UNCHANGED <<ports, links, caches, cloud, bounds>>

\* DeleteMachineGroup succeeds.
DeleteCloud ==
    /\ pc = "delete"
    /\ machines' = IF seen.group.spec.provider = "aws" THEN FALSE ELSE machines
    /\ pc' = "removeFinalizer"
    /\ UNCHANGED <<server, caches, queued, seen, todo, cloudErr, reason,
                   ensured, bounds>>

\* Mutant: the finalizer is removed although deleting the machines failed.
DeleteCloudErrorIgnored ==
    /\ pc = "delete" /\ seen.group.spec.provider = "aws"
    /\ fails < MaxFails /\ fails' = fails + 1
    /\ pc' = "removeFinalizer"
    /\ UNCHANGED <<server, caches, queued, seen, todo, cloudErr, reason, cloud,
                   unborn, edits, now>>

\* Mutant: the error is not returned, and nothing asks for a retry.
DeleteCloudErrorForgotten ==
    /\ pc = "delete" /\ seen.group.spec.provider = "aws"
    /\ fails < MaxFails /\ fails' = fails + 1
    /\ machines' \in {machines, FALSE}
    /\ End(FALSE)
    /\ UNCHANGED <<server, caches, ensured, unborn, edits, now>>

\* DeleteMachineGroup fails, before or after the machine group is gone.
DeleteCloudError ==
    /\ pc = "delete" /\ seen.group.spec.provider = "aws"
    /\ fails < MaxFails /\ fails' = fails + 1
    /\ machines' \in {machines, FALSE}
    /\ End(TRUE)
    /\ UNCHANGED <<server, caches, ensured, unborn, edits, now>>

\* Without its finalizer the deleted object goes away.
RemoveFinalizer ==
    /\ pc = "removeFinalizer"
    /\ group' = IF group.deleting
                THEN [group EXCEPT !.finalizer = FALSE, !.alive = FALSE]
                ELSE [group EXCEPT !.finalizer = FALSE]
    /\ End(~group.alive)
    /\ UNCHANGED <<ports, links, caches, cloud, bounds>>

-----------------------------------------------------------------------------
(* Reconcile: ports, links, cloud and status                               *)

Allocated == Allocation(seen.group, seen.ports)
SeenLinks == DOMAIN seen.links
LinkPorts == AssignPortsToLinks(SeenLinks, Allocated)
LinkErrors == Unresolved(SeenLinks, Allocated)

\* buildResolvedLinks.
ResolvedLinks ==
    [l \in DOMAIN LinkPorts |->
        [port |-> LinkPorts[l], target |-> seen.links[l].target]]

\* EnsureMachineGroup(mg, machinePorts, Allocated) succeeds. The noop manager
\* has no machines and never fails.
Ensure ==
    /\ pc = "ensure"
    /\ ensured' = ensured \cup {seen.group.gen}
    /\ machines' = (machines \/ seen.group.spec.provider = "aws")
    /\ pc' = "patchGroup"
    /\ UNCHANGED <<server, caches, queued, seen, todo, cloudErr, reason, bounds>>

\* It fails, before or after it created the template and the machine group.
EnsureError ==
    /\ pc = "ensure" /\ seen.group.spec.provider = "aws"
    /\ fails < MaxFails /\ fails' = fails + 1
    /\ machines' \in {machines, TRUE}
    /\ cloudErr' = TRUE
    /\ pc' = "patchGroup"
    /\ UNCHANGED <<server, caches, queued, seen, todo, reason,
                   ensured, unborn, edits, now>>

\* What EnsureMachineGroup returned for status.cloud: with an error it is
\* empty, or names what was there when the load balancers failed.
CloudStatuses ==
    IF cloudErr THEN {"none", seen.group.spec.provider}
                ELSE {seen.group.spec.provider}

\* Mutant: the error of EnsureMachineGroup is overlooked.
ReadyReasonIgnoresCloud ==
    IF LinkErrors # {} THEN "InsufficientMachinePorts" ELSE "Ready"

ReadyReason ==
    CASE cloudErr -> "CloudEnsureFailed"
      [] ~cloudErr /\ LinkErrors # {} -> "InsufficientMachinePorts"
      [] OTHER -> "Ready"

Stale(heartbeat) == StaleAfter > 0 /\ now - heartbeat > StaleAfter

\* pruneStaleMachineStatuses.
Pruned(statuses) ==
    LET kept == {m \in DOMAIN statuses : ~Stale(statuses[m])}
    IN  [m \in kept |-> statuses[m]]

\* The Status().Patch of Reconcile. The aws manager has created a new launch
\* template version, which makes every such patch a change of the group: its
\* event queues the key again. mg is pruned before it is copied to statusBase.
PatchGroup ==
    /\ pc = "patchGroup" /\ group.alive
    /\ \E returned \in CloudStatuses :
       LET old == [seen.group EXCEPT !.machines = Pruned(@)] IN
       group' = [group EXCEPT
          !.observed = PatchField(@, old.observed, old.gen),
          !.alloc = PatchMap(@, old.alloc, Allocated),
          !.resolved = PatchField(@, old.resolved, ResolvedLinks),
          !.cloud = PatchField(@, old.cloud, returned),
          !.ready = PatchField(@, old.ready,
                               [reason |-> ReadyReason, gen |-> old.gen]),
          !.machines = PatchMap(@, old.machines, old.machines)]
    /\ queued' = (queued \/ seen.group.spec.provider = "aws")
    /\ pc' = "patchObjects"
    /\ UNCHANGED <<ports, links, caches, seen, todo, cloudErr, reason,
                   cloud, bounds>>

\* The objects are patched in name order, machine ports before links.
First(u) ==
    /\ u \in todo
    /\ \A v \in (todo \cap PortUID) \ {u} : u \in PortUID /\ Before(u, v)
    /\ u \in LinkUID => \A v \in todo \ {u} : Before(u, v)

Exposed ==
    CASE seen.group.spec.exposure = "off" -> "ExposureDisabled"
      [] seen.group.spec.exposure # "off" /\ cloudErr -> "CloudEnsureFailed"
      [] OTHER -> "Ready"

\* A patch is addressed by name: it reaches the live object with u's name,
\* which may have been created after u was deleted.
Addressed(u, objects) == {v \in DOMAIN objects : NameOf[v] = NameOf[u]}

PatchPortStatus(u, assigned, phase, exposed) ==
    LET old == seen.ports[u] IN
    \E v \in Addressed(u, ports) :
        ports' = [ports EXCEPT
            ![v].assigned = PatchField(@, old.assigned, assigned),
            ![v].phase = PatchField(@, old.phase, phase),
            ![v].exposed = PatchField(@, old.exposed, exposed)]

PatchLinkStatus(l, phase) ==
    \E v \in Addressed(l, links) :
        links' = [links EXCEPT ![v].phase =
                     PatchField(@, seen.links[l].phase, phase)]

\* One iteration of syncMachinePortStatuses. Allocated has a port for every
\* machine port, and both managers return a listener for it on every load
\* balancer: the branches for an unassigned port and for waiting listeners
\* are never taken.
PatchPort(u) ==
    /\ pc = "patchObjects" /\ First(u)
    /\ PatchPortStatus(u, Allocated[u],
            IF Exposed = "CloudEnsureFailed" THEN "Allocated" ELSE "Ready", Exposed)
    /\ todo' = todo \ {u}
    /\ UNCHANGED <<group, links, caches, queued, pc, seen, cloudErr, reason,
                   cloud, bounds>>

\* One iteration of syncLinkStatuses with the links' ports ...
PatchLink(l) ==
    /\ pc = "patchObjects" /\ First(l)
    /\ PatchLinkStatus(l, IF l \in DOMAIN LinkPorts THEN "Ready" ELSE "Error")
    /\ todo' = todo \ {l}
    /\ UNCHANGED <<group, ports, caches, queued, pc, seen, cloudErr, reason,
                   cloud, bounds>>

\* Mutant: every reconcile asks for another one.
FinishPolls ==
    /\ pc = "patchObjects" /\ todo = {}
    /\ End(TRUE)
    /\ UNCHANGED <<server, caches, cloud, bounds>>

\* ... and the end of the reconcile.
Finish ==
    /\ pc = "patchObjects" /\ todo = {}
    /\ End(cloudErr \/ LinkErrors # {})
    /\ UNCHANGED <<server, caches, cloud, bounds>>

\* One iteration of syncMachinePortAllocationFailure.
FailPort(u) ==
    /\ pc = "fail" /\ First(u)
    /\ PatchPortStatus(u, NoPort, "Error", "PortAllocationFailed")
    /\ todo' = todo \ {u}
    /\ UNCHANGED <<group, links, caches, queued, pc, seen, cloudErr, reason,
                   cloud, bounds>>

\* One iteration of syncLinkStatuses without any port.
FailLink(l) ==
    /\ pc = "fail" /\ First(l)
    /\ PatchLinkStatus(l, "Error")
    /\ todo' = todo \ {l}
    /\ UNCHANGED <<group, ports, caches, queued, pc, seen, cloudErr, reason,
                   cloud, bounds>>

\* markMachineGroupError, which is always followed by RequeueAfter.
MarkError ==
    /\ pc = "fail" /\ todo = {} /\ group.alive
    /\ group' = [group EXCEPT !.ready =
                    PatchField(@, seen.group.ready,
                               [reason |-> reason, gen |-> seen.group.gen])]
    /\ End(TRUE)
    /\ UNCHANGED <<ports, links, caches, cloud, bounds>>

\* A patch of an object that is gone returns NotFound, and so does Reconcile.
NotFound ==
    /\ \/ pc = "patchGroup" /\ ~group.alive
       \/ pc = "fail" /\ todo = {} /\ ~group.alive
       \/ /\ pc \in {"patchObjects", "fail"}
          /\ \E u \in todo : /\ First(u)
                             /\ u \in PortUID => Addressed(u, ports) = {}
                             /\ u \in LinkUID => Addressed(u, links) = {}
    /\ End(TRUE)
    /\ UNCHANGED <<server, caches, cloud, bounds>>

-----------------------------------------------------------------------------
(* Failures                                                                *)

\* Mutant: the error is logged and not returned.
ApiErrorSwallowed ==
    /\ pc \notin {"idle", "ensure", "delete"}
    /\ fails < MaxFails /\ fails' = fails + 1
    /\ End(FALSE)
    /\ UNCHANGED <<server, caches, cloud, unborn, edits, now>>

\* A call to the API server fails (or is applied and its answer is lost: the
\* step of the call, then this one). Reconcile returns the error.
ApiError ==
    /\ pc \notin {"idle", "ensure", "delete"}
    /\ fails < MaxFails /\ fails' = fails + 1
    /\ End(TRUE)
    /\ UNCHANGED <<server, caches, cloud, unborn, edits, now>>

\* The controller stops and starts again: it lists all objects afresh, and the
\* first list queues the group.
Restart ==
    /\ fails < MaxFails /\ fails' = fails + 1
    /\ groupCache' = group /\ portCache' = ports /\ linkCache' = links
    /\ queued' = TRUE
    /\ pc' = "idle" /\ seen' = Nothing /\ todo' = {}
    /\ cloudErr' = FALSE /\ reason' = "None"
    /\ UNCHANGED <<server, cloud, unborn, edits, now>>

-----------------------------------------------------------------------------

UserNext ==
    \/ \E u \in PortUID : \/ \E p \in Pins : CreatePort(u, p) \/ EditPort(u, p)
                          \/ DeletePort(u)
    \/ \E l \in LinkUID :
          \/ \E t \in Targets : \/ CreateLink(l, t)
                                \/ \E b \in BOOLEAN : EditLink(l, t, b)
          \/ DeleteLink(l)
    \/ \E s \in Specs : EditSpec(s) \/ CreateGroup(s)
    \/ DeleteGroup
    \/ \E m \in Machine : Heartbeat(m)
    \/ Tick

BeginNext ==
    \/ BeginNothing \/ BeginAddFinalizer \/ BeginDelete \/ BeginInvalidSpec
    \/ BeginNoPorts \/ BeginEnsure \/ BeginError

StepNext ==
    \/ AddFinalizer \/ DeleteCloud \/ DeleteCloudError \/ RemoveFinalizer
    \/ Ensure \/ EnsureError \/ PatchGroup
    \/ \E u \in PortUID : PatchPort(u) \/ FailPort(u)
    \/ \E l \in LinkUID : PatchLink(l) \/ FailLink(l)
    \/ Finish \/ MarkError \/ NotFound

SyncNext == SyncGroup \/ SyncPorts \/ SyncLinks

FailNext == ApiError \/ Restart

Next == UserNext \/ BeginNext \/ StepNext \/ SyncNext \/ FailNext

\* The controller's worker takes queued keys and runs reconciles to their end,
\* and the informers deliver what they watch.
Fairness ==
    /\ WF_vars(BeginNext)
    /\ WF_vars(StepNext)
    /\ WF_vars(SyncGroup) /\ WF_vars(SyncPorts) /\ WF_vars(SyncLinks)

Spec == Init /\ [][Next]_vars /\ Fairness

-----------------------------------------------------------------------------
(* Properties                                                              *)

IsMap(m, S, T) == DOMAIN m \subseteq S /\ \A k \in DOMAIN m : m[k] \in T

PortNumber == Pins \cup UNION {s.start .. s.end : s \in Specs}

Reasons == {"None", "InvalidPortRange", "InvalidExposure", "TooManyMachinePorts",
            "PortAllocationFailed", "CloudEnsureFailed", "InsufficientMachinePorts",
            "Ready"}

GroupTypeOK(g) ==
    /\ {g.alive, g.deleting, g.finalizer} \subseteq BOOLEAN
    /\ g.gen \in Nat /\ g.spec \in Specs /\ g.observed \in Nat
    /\ IsMap(g.alloc, PortUID, PortNumber)
    /\ IsMap(g.resolved, LinkUID, [port : PortNumber, target : Targets])
    /\ g.cloud \in {"none", "noop", "aws"}
    /\ g.ready.reason \in Reasons /\ g.ready.gen \in Nat
    /\ IsMap(g.machines, Machine, 0 .. MaxNow)

PortsTypeOK(m) ==
    IsMap(m, PortUID, [pin : Pins, assigned : PortNumber,
                       phase : {"None", "Allocated", "Ready", "Error"},
                       exposed : {"None", "ExposureDisabled", "CloudEnsureFailed",
                                  "Ready", "PortAllocationFailed"}])

LinksTypeOK(m) ==
    IsMap(m, LinkUID, [managed : BOOLEAN, target : Targets,
                       phase : {"None", "Ready", "Error"}])

\* Objects, caches and the reconcile's copies have the types of the API; in
\* particular a merge patch never leaves a key of another kind in a map.
TypeOK ==
    /\ GroupTypeOK(group) /\ PortsTypeOK(ports) /\ LinksTypeOK(links)
    /\ GroupTypeOK(groupCache) /\ PortsTypeOK(portCache) /\ LinksTypeOK(linkCache)
    /\ GroupTypeOK(seen.group) /\ PortsTypeOK(seen.ports) /\ LinksTypeOK(seen.links)
    /\ pc \in {"idle", "addFinalizer", "delete", "removeFinalizer", "ensure",
               "patchGroup", "patchObjects", "fail"}
    /\ todo \subseteq DOMAIN seen.ports \cup DOMAIN seen.links
    /\ queued \in BOOLEAN /\ cloudErr \in BOOLEAN /\ machines \in BOOLEAN

\* The finalizer does its work: while there are machines in the cloud, the
\* group exists with its finalizer, so that a reconcile will delete them; over
\* lagging caches, failed calls, restarts, and a group created again under the
\* same name. (With provider fixed: see README.)
MachinesGuarded == machines => group.alive /\ group.finalizer

\* The group on the server as its user sees it.
Phase ==
    CASE ~group.alive -> "absent"
      [] group.alive /\ group.deleting -> "condemned"
      [] group.alive /\ ~group.deleting /\ group.finalizer -> "guarded"
      [] OTHER -> "new"

Lifecycle == INSTANCE GroupLifecycle WITH phase <- Phase, machines <- machines

\* The controller implements the life cycle the finalizer stands for: a
\* reconcile of a group that was deleted and created again never tears down
\* the machines of the new one nor takes its finalizer, and none builds
\* machines for a group without finalizer. (Provider never noop.)
FollowsLifecycle == Lifecycle!Spec

\* Reconcile never hands the cloud manager a map in which two machine ports
\* share a frontend port, however stale the status it started from.
HandedDistinct == pc = "ensure" => Injective(Allocated)

\* status.resolvedLinks, what the agents serve, never routes two links on one
\* frontend port.
ResolvedDistinct ==
    \A k, l \in DOMAIN group.resolved :
        group.resolved[k].port = group.resolved[l].port => k = l

\* Ready=True for a generation is only reported after EnsureMachineGroup
\* succeeded for that generation (observedGeneration of the condition), even
\* when the patch was computed from an old copy.
ReadyIsEnsured ==
    group.alive /\ group.ready.reason = "Ready" => group.ready.gen \in ensured

\* u's allocation is valid: no pin asks for another port, the port is in the
\* range and no other machine port pins it or has it.
ValidAllocation(u, g, objects) ==
    /\ u \in DOMAIN objects \cap DOMAIN g.alloc
    /\ objects[u].pin \in {NoPort, g.alloc[u]}
    /\ g.alloc[u] \in g.spec.start .. g.spec.end
    /\ \A v \in DOMAIN objects \ {u} :
          /\ objects[v].pin # g.alloc[u]
          /\ v \in DOMAIN g.alloc => g.alloc[v] # g.alloc[u]

\* The status patch of a reconcile that read the allocations the server has
\* moves no machine port whose allocation is valid.
CurrentReadKeeps ==
    [][pc = "patchGroup" /\ pc' = "patchObjects" /\ seen.group.alloc = group.alloc =>
        \A u \in DOMAIN seen.ports :
            ValidAllocation(u, seen.group, seen.ports) =>
                u \in DOMAIN group'.alloc /\ group'.alloc[u] = group.alloc[u]]_vars

\* "ReconcilePorts keeps existing valid allocations": no step of the controller
\* moves a machine port whose allocation on the server is valid.
AllocationsStable ==
    [][\A u \in DOMAIN ports :
        ValidAllocation(u, group, ports) /\ group'.alive /\ u \in DOMAIN group'.alloc
            => group'.alloc[u] = group.alloc[u]]_vars

\* "Controller prunes stale status.machines entries": an entry that is stale
\* in the copy the reconcile read and on the server is gone once the status
\* patch is applied.
PrunedAreGone ==
    [][pc = "patchGroup" /\ pc' = "patchObjects" =>
        \A m \in DOMAIN seen.group.machines \cap DOMAIN group.machines :
            Stale(seen.group.machines[m]) /\ Stale(group.machines[m]) =>
                m \notin DOMAIN group'.machines]_vars

-----------------------------------------------------------------------------
(* Convergence                                                             *)

CanAllocate ==
    /\ RangeValid(group.spec) /\ group.spec.exposure # "invalid"
    /\ group.spec.selectorOK /\ group.spec.provider # "unsupported"
    /\ Cardinality(DOMAIN ports) <= MaxMachinePortsPerGroup
    /\ AllocationOK(group, ports)

ManagedNow == {l \in DOMAIN links : links[l].managed}

\* The status of all three kinds is what the specs ask for: the allocations
\* are a fixed point of ReconcilePorts for the machine ports there are, and
\* ports and links report them.
Reported ==
    LET assigned == AssignPortsToLinks(ManagedNow, group.alloc) IN
    /\ group.alloc = Allocation(group, ports)
    /\ Injective(group.alloc)
    /\ group.observed = group.gen
    /\ group.ready = [gen |-> group.gen,
                      reason |-> IF DOMAIN assigned = ManagedNow THEN "Ready"
                                 ELSE "InsufficientMachinePorts"]
    /\ group.resolved = [l \in DOMAIN assigned |->
                            [port |-> assigned[l], target |-> links[l].target]]
    /\ \A u \in DOMAIN ports :
          /\ ports[u].assigned = group.alloc[u]
          /\ ports[u].phase = "Ready"
          /\ ports[u].exposed = IF group.spec.exposure = "off"
                                THEN "ExposureDisabled" ELSE "Ready"
    /\ \A l \in ManagedNow :
          links[l].phase = IF l \in DOMAIN assigned THEN "Ready" ELSE "Error"

\* ... or the status names what is wrong. An invalid linkSelector or provider
\* is not reported, but Ready=True is not left standing for that generation.
FailureReported ==
    LET spec == group.spec
        condition(r) == group.ready = [reason |-> r, gen |-> group.gen]
        failed(r) == /\ condition(r)
                     /\ \A u \in DOMAIN ports : /\ ports[u].assigned = NoPort
                                                /\ ports[u].phase = "Error"
                     /\ \A l \in ManagedNow : links[l].phase = "Error"
    IN  CASE ~RangeValid(spec) -> condition("InvalidPortRange")
          [] RangeValid(spec) /\ spec.exposure = "invalid" ->
                condition("InvalidExposure")
          [] RangeValid(spec) /\ spec.exposure # "invalid" /\ spec.selectorOK
             /\ Cardinality(DOMAIN ports) > MaxMachinePortsPerGroup ->
                failed("TooManyMachinePorts")
          [] RangeValid(spec) /\ spec.exposure # "invalid" /\ spec.selectorOK
             /\ Cardinality(DOMAIN ports) <= MaxMachinePortsPerGroup
             /\ ~AllocationOK(group, ports) ->
                failed("PortAllocationFailed")
          [] OTHER -> ~condition("Ready")

\* After the last change and the last failure the controller catches up,
\* whatever stale copies and half done reconciles it went through, and stays.
Converges ==
    <>[](group.alive /\ ~group.deleting =>
            IF CanAllocate THEN Reported ELSE FailureReported)

\* When there is nothing to retry, reconciling stops: the controller's own
\* status patches do not keep waking it up. (noop manager: the aws manager
\* records a new launch template version on every reconcile.)
Quiesces ==
    <>[](\/ pc = "idle" /\ ~queued
        \/ ~CanAllocate
        \/ DOMAIN AssignPortsToLinks(ManagedNow, group.alloc) # ManagedNow)

\* A deleted group goes away, except with a spec that cannot be deleted from:
\* an exposure that does not normalise keeps the finalizer until it is edited.
DeletionCompletes ==
    [](group.deleting => <>(~group.alive \/ Undeletable(group.spec)))

=============================================================================
