---------------------------- MODULE LoadBalancers ----------------------------
(***************************************************************************)
(* The AWS manager's load balancers of one machine group: what             *)
(* EnsureMachineGroup and DeleteMachineGroup do to the network load        *)
(* balancers, their listeners, the target groups behind them and the       *)
(* attachments of target groups to the Auto Scaling group, one action per  *)
(* call that changes AWS. Any call may fail before or after its effect,    *)
(* the operator may restart between two calls, and a reconcile works on a  *)
(* cached copy of the group.                                               *)
(*                                                                         *)
(* An entry of spec.exposure has a name, and its load balancer another one *)
(* on AWS: the entry's override, or a name made from the entry's, and in   *)
(* any case what awsResourceName makes of it. Target groups are named      *)
(* after the entry. status.cloud.loadBalancers lists pairs of an entry's   *)
(* name and the ARN of its load balancer.                                  *)
(*                                                                         *)
(* AWS is external. An ARN is <<name, k>> for a load balancer and          *)
(* <<name, port, k>> for a target group; something deleted and created     *)
(* again has another k. An ARN that nothing refers to any more may be used *)
(* again: nobody can tell it from a new one.                               *)
(*                                                                         *)
(* A reconcile may begin whenever none runs: every one that reaches AWS    *)
(* makes a launch template version, so its status patch wakes the          *)
(* controller up again, and every one that fails is requeued.              *)
(***************************************************************************)
EXTENDS Exposure

CONSTANTS Exposures,   \* the values of spec.exposure
          PortSets,    \* the sets of allocated ports
          FirstExposures, FirstPorts,  \* the ones at the start
          AwsResourceName(_),  \* the name AWS gets: in lower case, other
                               \* characters replaced, cut off when too long
          MaxEdits,    \* bound: changes by users
          MaxFails     \* bound: failed calls and restarts

ASSUME BalancerAssumption ==
    /\ \A e \in Exposures : /\ e.nil \in BOOLEAN
                            /\ e.items \in Seq([name : STRING \X Nat, scope : STRING,
                                                override : STRING \X Nat])
    /\ \A s \in PortSets : s \subseteq Nat /\ IsFiniteSet(s)
    /\ FirstExposures \subseteq Exposures /\ FirstPorts \subseteq PortSets
    /\ MaxEdits \in Nat /\ MaxFails \in Nat

\* loadBalancerName. The prefix "tpm-<namespace>-<group>-" of a name that is not
\* overridden is left out: an override <<s, 1>> is the one that spells it out.
Cloud(want) ==
    AwsResourceName(IF want.override # Unnamed THEN want.override ELSE want.name)

\* targetGroupName, without the port: the override plays no part.
TargetName(want) == AwsResourceName(want.name)

VARIABLES group,        \* API server: exposure, status.cloud.loadBalancers
          ports,        \* API server: the allocated ports, and all are TCP
          seenGroup,    \* the operator's cache of group
          seenPorts,    \* the operator's cache of ports
          balancers,    \* AWS: load balancers
          listeners,    \* AWS: their listeners
          targetGroups, \* AWS: target groups
          asg,          \* AWS: the Auto Scaling group exists
          attached,     \* AWS: its TargetGroupARNs
          job,          \* the running reconcile
          edits, fails

vars == <<group, ports, seenGroup, seenPorts, balancers, listeners,
          targetGroups, asg, attached, job, edits, fails>>
server == <<group, ports>>
caches == <<seenGroup, seenPorts>>
elb == <<balancers, listeners, targetGroups>>
machines == <<asg, attached>>
bounds == <<edits, fails>>

Idle == [pc |-> "idle", ok |-> TRUE, recorded |-> {}, wants |-> {}, todo |-> <<>>,
         ports |-> {}, tcp |-> TRUE, lb |-> <<>>, tgs |-> {}, managed |-> {},
         status |-> {}, doomed |-> {}, then |-> "patch"]

Init ==
    /\ group \in [exposure : FirstExposures, recorded : {{}}, deleting : {FALSE}, gone : {FALSE}]
    /\ ports \in [numbers : FirstPorts, tcp : {TRUE}]
    /\ seenGroup = group /\ seenPorts = ports
    /\ balancers = {} /\ listeners = {} /\ targetGroups = {}
    /\ asg = FALSE /\ attached = {}
    /\ job = Idle
    /\ edits = 0 /\ fails = 0

-----------------------------------------------------------------------------
(* Users and the informer caches                                           *)

Edit == edits < MaxEdits /\ edits' = edits + 1 /\ ~group.gone
        /\ UNCHANGED <<caches, elb, machines, job, fails>>

EditExposure(exposure) ==
    /\ Edit
    /\ exposure # group.exposure
    /\ group' = [group EXCEPT !.exposure = exposure]
    /\ UNCHANGED ports

\* Ports are created, deleted and allocated; tcp: no protocol but TCP.
EditPorts(numbers, tcp) ==
    /\ Edit
    /\ ports' = [numbers |-> numbers, tcp |-> tcp]
    /\ ports' # ports
    /\ UNCHANGED group

DeleteGroup ==
    /\ Edit
    /\ ~group.deleting
    /\ group' = [group EXCEPT !.deleting = TRUE]
    /\ UNCHANGED ports

SyncGroup ==
    /\ seenGroup # group
    /\ seenGroup' = group
    /\ UNCHANGED <<server, seenPorts, elb, machines, job, bounds>>

SyncPorts ==
    /\ seenPorts # ports
    /\ seenPorts' = ports
    /\ UNCHANGED <<server, seenGroup, elb, machines, job, bounds>>

-----------------------------------------------------------------------------
(* AWS, and the beginning of a reconcile                                   *)

Named(name) == {b \in balancers : b.arn[1] = name}

ListenersOf(arn) == {l \in listeners : l.lb = arn}

\* DescribeTargetGroups by load balancer: those that a listener forwards to.
Associated(arn) == {l.tg : l \in ListenersOf(arn)}

\* The ARNs of status.cloud.loadBalancers.
Arns(recorded) == {r[2] : r \in recorded}

KnownBalancers == {b.arn : b \in balancers} \cup job.doomed
                  \cup Arns(group.recorded \cup seenGroup.recorded \cup job.recorded)

KnownTargets == targetGroups \cup attached \cup job.managed

Fresh(used) == CHOOSE k \in 1..(Cardinality(used) + 1) : k \notin used

\* EnsureMachineGroup returns an error, with the status collected so far.
Failed(j) == [Idle EXCEPT !.pc = "patch", !.ok = FALSE,
                          !.recorded = j.recorded, !.status = j.status]

\* Reconcile goes on to the cloud manager only when the exposure is valid.
BeginEnsure ==
    LET desired == NormalizeLoadBalancers(seenGroup.exposure)
    IN  /\ job.pc = "idle"
        /\ ~seenGroup.gone /\ ~seenGroup.deleting
        /\ desired.ok
        /\ job' = [Idle EXCEPT !.pc = "machines",
                               !.recorded = seenGroup.recorded,
                               !.wants = Range(desired.list),
                               !.todo = desired.list,
                               !.ports = seenPorts.numbers,
                               !.tcp = seenPorts.tcp]
        /\ UNCHANGED <<server, caches, elb, machines, bounds>>

\* Mutant: only the load balancers of the status are deleted.
BeginDeleteRecorded ==
    LET desired == NormalizeLoadBalancers(seenGroup.exposure)
    IN  /\ job.pc = "idle"
        /\ ~seenGroup.gone /\ seenGroup.deleting
        /\ desired.ok
        /\ job' = [Idle EXCEPT !.pc = "doomed",
                               !.recorded = seenGroup.recorded,
                               !.wants = Range(desired.list),
                               !.doomed = Arns(seenGroup.recorded),
                               !.then = "deleteMachines"]
        /\ UNCHANGED <<server, caches, elb, machines, bounds>>

\* The load balancers that have the names of these entries.
NamedBy(wants) == UNION {Named(Cloud(w)) : w \in wants}

\* DeleteMachineGroup, ensureLoadBalancersDeleted: by the names of the spec
\* and by the ARNs of the status.
BeginDelete ==
    LET desired == NormalizeLoadBalancers(seenGroup.exposure)
        wants == Range(desired.list)
    IN  /\ job.pc = "idle"
        /\ ~seenGroup.gone /\ seenGroup.deleting
        /\ desired.ok
        /\ job' = [Idle EXCEPT !.pc = "doomed",
                               !.recorded = seenGroup.recorded,
                               !.wants = wants,
                               !.doomed = Arns(seenGroup.recorded)
                                          \cup {b.arn : b \in NamedBy(wants)},
                               !.then = "deleteMachines"]
        /\ UNCHANGED <<server, caches, elb, machines, bounds>>

\* resolvePlacement, ensureLaunchTemplate and ensureAutoScalingGroup. Without
\* load balancers, those of the status are deleted next; otherwise the ports
\* must all be TCP.
EnsureMachines ==
    /\ job.pc = "machines"
    /\ asg' = TRUE
    /\ job' = CASE job.todo = <<>> -> [job EXCEPT !.pc = "doomed", !.doomed = Arns(job.recorded)]
                [] job.todo # <<>> /\ ~job.tcp /\ job.ports # {} -> Failed(job)
                [] OTHER -> [job EXCEPT !.pc = "balancer"]
    /\ UNCHANGED <<server, caches, elb, attached, bounds>>

-----------------------------------------------------------------------------
(* ensureLoadBalancerExposure: one load balancer after another             *)

\* ensureNetworkLoadBalancer: found by name, or created; then its target
\* groups and listeners are read.
EnsureBalancer ==
    LET want == Head(job.todo)
        cloud == Cloud(want)
        ks == {a[2] : a \in {b \in KnownBalancers : b[1] = cloud}}
        arn == IF Named(cloud) # {}
               THEN (CHOOSE b \in Named(cloud) : TRUE).arn
               ELSE <<cloud, Fresh(ks)>>
    IN  /\ job.pc = "balancer" /\ job.todo # <<>>
        /\ \A b \in Named(cloud) : b.scheme = want.scope
        /\ balancers' = balancers \cup {[arn |-> arn, scheme |-> want.scope]}
        /\ job' = [job EXCEPT !.pc = "serve",
                              !.lb = arn,
                              !.tgs = Associated(arn),
                              !.managed = @ \cup Associated(arn)]
        /\ UNCHANGED <<server, caches, listeners, targetGroups, machines, bounds>>

\* ... or found with another scheme, which cannot be changed.
SchemeMismatch ==
    /\ job.pc = "balancer" /\ job.todo # <<>>
    /\ \E b \in Named(Cloud(Head(job.todo))) : b.scheme # Head(job.todo).scope
    /\ job' = Failed(job)
    /\ UNCHANGED <<server, caches, elb, machines, bounds>>

Untargeted == {p \in job.ports : \A t \in job.tgs : t[2] # p}

\* A target group of this name is returned as it is when it already exists.
CreateTargetGroup(p) ==
    LET name == TargetName(Head(job.todo))
        same == {t \in targetGroups : t[1] = name /\ t[2] = p}
        ks == {t[3] : t \in {u \in KnownTargets : u[1] = name /\ u[2] = p}}
        tg == IF same # {} THEN CHOOSE t \in same : TRUE ELSE <<name, p, Fresh(ks)>>
    IN  /\ job.pc = "serve" /\ p \in Untargeted
        /\ targetGroups' = targetGroups \cup {tg}
        /\ job' = [job EXCEPT !.tgs = @ \cup {tg}, !.managed = @ \cup {tg}]
        /\ UNCHANGED <<server, caches, balancers, listeners, machines, bounds>>

\* The listener that forwards p to its target group.
ListenerFor(p) == [lb |-> job.lb, port |-> p, tg |-> CHOOSE t \in job.tgs : t[2] = p]

Unserved == {p \in job.ports : ListenerFor(p) \notin listeners}

\* AWS lets the listeners of one load balancer only forward to a target group.
TakenElsewhere(t) == \E l \in listeners : l.tg = t /\ l.lb # job.lb

\* ensureListener creates it, or modifies the one of the same port.
EnsureListener(p) ==
    LET listener == ListenerFor(p)
        refused == TakenElsewhere(listener.tg)
    IN  /\ job.pc = "serve" /\ Untargeted = {}
        /\ p \in Unserved
        /\ listeners' = IF refused THEN listeners
                        ELSE {l \in listeners : ~(l.lb = job.lb /\ l.port = p)}
                             \cup {listener}
        /\ job' = IF refused THEN Failed(job) ELSE job
        /\ UNCHANGED <<server, caches, balancers, targetGroups, machines, bounds>>

UnwantedListeners == {l \in ListenersOf(job.lb) : l.port \notin job.ports}

DeleteListener(l) ==
    /\ job.pc = "serve" /\ Untargeted = {} /\ Unserved = {}
    /\ l \in UnwantedListeners
    /\ listeners' = listeners \ {l}
    /\ UNCHANGED <<server, caches, balancers, targetGroups, machines, job, bounds>>

UnwantedTargets == {t \in job.tgs \cap targetGroups : t[2] \notin job.ports}

\* AWS refuses to delete a target group that a listener forwards to.
InUse(t) == \E l \in listeners : l.tg = t

\* Mutant: target groups before listeners.
DeleteTargetGroupFirst(t) ==
    /\ job.pc = "serve" /\ Untargeted = {} /\ Unserved = {}
    /\ t \in UnwantedTargets
    /\ targetGroups' = IF InUse(t) THEN targetGroups ELSE targetGroups \ {t}
    /\ job' = IF InUse(t) THEN Failed(job) ELSE job
    /\ UNCHANGED <<server, caches, balancers, listeners, machines, bounds>>

\* The target groups of unwanted ports, once their listeners are gone.
DeleteTargetGroup(t) ==
    /\ job.pc = "serve" /\ Untargeted = {} /\ Unserved = {} /\ UnwantedListeners = {}
    /\ t \in UnwantedTargets
    /\ targetGroups' = IF InUse(t) THEN targetGroups ELSE targetGroups \ {t}
    /\ job' = IF InUse(t) THEN Failed(job) ELSE job
    /\ UNCHANGED <<server, caches, balancers, listeners, machines, bounds>>

\* The next load balancer, or the Auto Scaling group.
NextBalancer ==
    /\ job.pc = "serve" /\ Untargeted = {} /\ Unserved = {}
    /\ UnwantedListeners = {} /\ UnwantedTargets = {}
    /\ job' = [job EXCEPT !.pc = IF Len(job.todo) = 1 THEN "attach" ELSE "balancer",
                          !.todo = Tail(@), !.lb = <<>>, !.tgs = {}]
    /\ UNCHANGED <<server, caches, elb, machines, bounds>>

\* Mutant: only target groups that are attached already.
DesiredKnown == {t \in job.managed \cap attached : t[2] \in job.ports}

\* dedupDesiredTGARNs.
Desired == {t \in job.managed : t[2] \in job.ports}

\* reconcileASGTargetGroups: what is desired is attached ...
AttachTargetGroups ==
    /\ job.pc = "attach"
    /\ attached' = attached \cup Desired
    /\ job' = [job EXCEPT !.pc = "detach"]
    /\ UNCHANGED <<server, caches, elb, asg, bounds>>

\* ... and what this reconcile found and does not want is detached.
DetachTargetGroups ==
    /\ job.pc = "detach"
    /\ attached' = attached \ (job.managed \ Desired)
    /\ job' = [job EXCEPT !.pc = "exposed"]
    /\ UNCHANGED <<server, caches, elb, asg, bounds>>

\* The status of what was ensured.
Statuses(wants) ==
    UNION {{<<w.name, b.arn>> : b \in Named(Cloud(w))} : w \in wants}

\* The entries of the old status whose names the spec no longer has.
StaleEntries == {r \in job.recorded : \A w \in job.wants : w.name # r[1]}

\* Mutant: everything in the old status is taken for stale.
FindStaleAll ==
    /\ job.pc = "exposed"
    /\ job' = [job EXCEPT !.pc = "doomed",
                          !.managed = {},
                          !.status = Statuses(job.wants),
                          !.doomed = Arns(job.recorded)]
    /\ UNCHANGED <<server, caches, elb, machines, bounds>>

\* The status lists the load balancers; then the ARNs of the stale entries are
\* deleted, whatever they are named on AWS (ensureStaleLoadBalancersDeleted).
FindStale ==
    /\ job.pc = "exposed"
    /\ job' = [job EXCEPT !.pc = "doomed",
                          !.managed = {},
                          !.status = Statuses(job.wants),
                          !.doomed = Arns(StaleEntries)]
    /\ UNCHANGED <<server, caches, elb, machines, bounds>>

-----------------------------------------------------------------------------
(* ensureLoadBalancerDeletedByARN, for every ARN of job.doomed             *)

BeginDoomed(arn) ==
    /\ job.pc = "doomed" /\ arn \in job.doomed
    /\ job' = [job EXCEPT !.pc = "unlisten", !.lb = arn, !.tgs = {}]
    /\ UNCHANGED <<server, caches, elb, machines, bounds>>

DeleteDoomedListener(l) ==
    /\ job.pc = "unlisten" /\ l \in ListenersOf(job.lb)
    /\ listeners' = listeners \ {l}
    /\ job' = [job EXCEPT !.tgs = @ \cup {l.tg}]
    /\ UNCHANGED <<server, caches, balancers, targetGroups, machines, bounds>>

\* Only now the target groups are described. No listener forwards to them any
\* more, so AWS lists none, or, as its answers may lag, still those of before.
\* What it lists is detached from the Auto Scaling group.
DetachDoomedTargets(found) ==
    /\ job.pc = "unlisten" /\ ListenersOf(job.lb) = {}
    /\ found \in {{}, job.tgs}
    /\ attached' = attached \ found
    /\ job' = [job EXCEPT !.pc = "untarget", !.tgs = found]
    /\ UNCHANGED <<server, caches, elb, asg, bounds>>

DeleteDoomedTarget(t) ==
    /\ job.pc = "untarget" /\ t \in job.tgs
    /\ ~InUse(t)
    /\ targetGroups' = targetGroups \ {t}
    /\ job' = [job EXCEPT !.tgs = @ \ {t}]
    /\ UNCHANGED <<server, caches, balancers, listeners, machines, bounds>>

DeleteBalancer ==
    /\ job.pc = "untarget" /\ job.tgs = {}
    /\ balancers' = {b \in balancers : b.arn # job.lb}
    /\ listeners' = listeners \ ListenersOf(job.lb)
    /\ job' = [job EXCEPT !.pc = "doomed", !.doomed = @ \ {job.lb}, !.lb = <<>>]
    /\ UNCHANGED <<server, caches, targetGroups, machines, bounds>>

DoomedDone ==
    /\ job.pc = "doomed" /\ job.doomed = {}
    /\ job' = [job EXCEPT !.pc = job.then]
    /\ UNCHANGED <<server, caches, elb, machines, bounds>>

-----------------------------------------------------------------------------
(* The end of a reconcile, and failures                                    *)

\* Status().Patch from the cached copy: the list is in the patch only when it
\* differs from the cached one. A reconcile that failed before the exposure
\* was complete writes an empty list.
PatchStatus ==
    /\ job.pc = "patch"
    /\ group' = IF job.status = job.recorded THEN group
                ELSE [group EXCEPT !.recorded = job.status]
    /\ job' = Idle
    /\ UNCHANGED <<ports, caches, elb, machines, bounds>>

\* DeleteAutoScalingGroup and DeleteLaunchTemplate.
DeleteMachines ==
    /\ job.pc = "deleteMachines"
    /\ asg' = FALSE /\ attached' = {}
    /\ job' = [job EXCEPT !.pc = "finalizer"]
    /\ UNCHANGED <<server, caches, elb, bounds>>

RemoveFinalizer ==
    /\ job.pc = "finalizer"
    /\ group' = [group EXCEPT !.gone = TRUE]
    /\ job' = Idle
    /\ UNCHANGED <<ports, caches, elb, machines, bounds>>

Fail == fails < MaxFails /\ fails' = fails + 1
        /\ UNCHANGED <<server, caches, elb, machines, edits>>

\* A call to AWS fails, or the answer to the last one is lost.
ApiError ==
    /\ Fail
    /\ job.pc \notin {"idle", "patch"} /\ job.then = "patch"
    /\ job' = Failed(job)

\* The operator restarts, the status patch fails, or a deletion fails.
Crash ==
    /\ Fail
    /\ job.pc # "idle"
    /\ job' = Idle

-----------------------------------------------------------------------------
Operator ==
    \/ BeginEnsure \/ BeginDelete \/ EnsureMachines
    \/ EnsureBalancer \/ SchemeMismatch
    \/ \E p \in job.ports : CreateTargetGroup(p) \/ EnsureListener(p)
    \/ \E l \in listeners : DeleteListener(l) \/ DeleteDoomedListener(l)
    \/ \E t \in job.tgs : DeleteTargetGroup(t) \/ DeleteDoomedTarget(t)
    \/ NextBalancer \/ AttachTargetGroups \/ DetachTargetGroups \/ FindStale
    \/ \E arn \in job.doomed : BeginDoomed(arn)
    \/ \E found \in {{}, job.tgs} : DetachDoomedTargets(found)
    \/ DeleteBalancer \/ DoomedDone
    \/ PatchStatus \/ DeleteMachines \/ RemoveFinalizer

User ==
    \/ \E exposure \in Exposures : EditExposure(exposure)
    \/ \E numbers \in PortSets, tcp \in BOOLEAN : EditPorts(numbers, tcp)
    \/ DeleteGroup

Next == Operator \/ User \/ SyncGroup \/ SyncPorts \/ ApiError \/ Crash

\* The work queue hands the group to a worker again and again (see above), and
\* the watches deliver. Users and failures owe nothing.
Fairness == WF_vars(Operator) /\ WF_vars(SyncGroup) /\ WF_vars(SyncPorts)

Spec == Init /\ [][Next]_vars /\ Fairness

-----------------------------------------------------------------------------
(* Properties                                                              *)

Wants == UNION {Range(NormalizeLoadBalancers(e).list) : e \in Exposures}
EntryNames == {w.name : w \in Wants}
CloudNames == {Cloud(w) : w \in Wants}
TargetNames == {TargetName(w) : w \in Wants}

IsBalancer(a) == a[1] \in CloudNames /\ a[2] \in Nat
IsTarget(t) == t[1] \in TargetNames /\ t[2] \in UNION PortSets /\ t[3] \in Nat

\* The type of every variable: names, ports and ARNs stay what they are, and a
\* listener belongs to a load balancer that exists.
TypeOK ==
    /\ group.exposure \in Exposures /\ group.deleting \in BOOLEAN
    /\ \A r \in group.recorded \cup job.recorded \cup job.status :
          r[1] \in EntryNames /\ IsBalancer(r[2])
    /\ \A a \in job.doomed : IsBalancer(a)
    /\ ports \in [numbers : PortSets, tcp : BOOLEAN]
    /\ \A b \in balancers : IsBalancer(b.arn) /\ b.scheme \in Scopes
    /\ \A l \in listeners : /\ l.lb \in {b.arn : b \in balancers}
                            /\ l.port \in UNION PortSets /\ IsTarget(l.tg)
    /\ \A t \in targetGroups \cup attached \cup job.tgs \cup job.managed : IsTarget(t)
    /\ asg \in BOOLEAN /\ (attached # {} => asg)
    /\ edits \in 0..MaxEdits /\ fails \in 0..MaxFails

\* A connection to port p of the load balancer gets to a machine.
Serving(cloud, p) ==
    \E b \in Named(cloud) : \E l \in ListenersOf(b.arn) :
        l.port = p /\ l.tg[2] = p /\ l.tg \in targetGroups \cap attached

\* The load balancer of this entry has its scheme, serves these ports and
\* listens on no other.
Exposed(want, numbers) ==
    \E b \in Named(Cloud(want)) :
        /\ b.scheme = want.scope
        /\ {l.port : l \in ListenersOf(b.arn)} = numbers
        /\ \A p \in numbers : Serving(Cloud(want), p)

\* The status that the reconcile read has the load balancer of this entry under
\* the name of an entry that is gone: the entry was renamed, and AWS knows both
\* by one name. What was ensured is then deleted as stale.
Renamed(want) == \E r \in StaleEntries : r[2][1] = Cloud(want)

\* When EnsureMachineGroup succeeds, whatever earlier reconciles left half
\* done: every load balancer it was asked for has its scheme, serves every
\* allocated port and listens on no other, unless its entry was renamed; and no
\* load balancer exists that the status it read has under the name of an entry
\* that is gone (aws/manager.go, ensureLoadBalancerExposure and
\* ensureStaleLoadBalancersDeleted).
EnsuredMeansExposed ==
    job.pc = "patch" /\ job.ok =>
        /\ \A w \in job.wants : Exposed(w, job.ports) \/ Renamed(w)
        /\ \A w \in job.wants : \A b \in Named(Cloud(w)) : <<w.name, b.arn>> \in job.status
        /\ \A b \in balancers : b.arn \notin Arns(StaleEntries)

\* The deletion works on what the group on the API server says by now.
ReadCurrent ==
    /\ job.recorded = group.recorded
    /\ job.wants = Range(NormalizeLoadBalancers(group.exposure).list)

\* When the finalizer is about to go there is no Auto Scaling group. And if the
\* deletion worked on the group as it is on the API server, not on a copy with
\* an older spec or status, there is no load balancer left that its spec names
\* or its status lists (aws/manager.go, DeleteMachineGroup).
DeletedMeansGone ==
    job.pc = "finalizer" =>
        /\ ~asg
        /\ ReadCurrent =>
              \A b \in balancers :
                  /\ b.arn \notin Arns(group.recorded)
                  /\ b \notin NamedBy(Range(NormalizeLoadBalancers(group.exposure).list))

\* A port that is served and that the running reconcile wants stays served
\* through all of its steps, failures and restarts included: the work on one
\* port or load balancer never interrupts another (aws/manager.go,
\* EnsureMachineGroup). Only a renamed entry's load balancer is interrupted.
KeepsServing ==
    [][\A w \in job.wants, p \in job.ports :
          Serving(Cloud(w), p) => Serving(Cloud(w), p)' \/ Renamed(w)]_vars

\* "each spec.exposure.loadBalancers[] entry creates one shared NLB": when
\* EnsureMachineGroup succeeds, every entry of the spec it read has a load
\* balancer.
EveryEntryHasBalancer ==
    job.pc = "patch" /\ job.ok => \A w \in job.wants : Named(Cloud(w)) # {}

\* The spec asks for what AWS cannot give: a list that does not normalise,
\* another protocol than TCP, another scheme for a load balancer that exists, or
\* the target group of another load balancer. The last comes of two names that
\* are one to AWS, and of a changed override: the listeners under the old name
\* keep the target groups, which are named after the entry, and the reconcile
\* fails before it would delete them.
Unexposable ==
    LET desired == NormalizeLoadBalancers(group.exposure)
    IN  \/ ~desired.ok
        \/ /\ ~group.deleting
           /\ \/ desired.list # <<>> /\ ~ports.tcp /\ ports.numbers # {}
              \/ \E want \in Range(desired.list) :
                    \/ \E b \in Named(Cloud(want)) : b.scheme # want.scope
                    \/ \E l \in listeners : /\ l.lb[1] # Cloud(want) /\ l.port \in ports.numbers
                                            /\ l.tg[1] = TargetName(want)

\* Whatever the users did, whichever calls failed and however stale the caches
\* were: in the end the group is gone if it was deleted, and otherwise AWS
\* exposes what the spec says and the status names it (EnsureMachineGroup
\* called again and again by the controller). A renamed entry's load balancer,
\* deleted as stale, is made again by the next reconcile.
ExposureConverges ==
    <>[](\/ Unexposable
         \/ group.gone
         \/ LET wants == Range(NormalizeLoadBalancers(group.exposure).list)
            IN  /\ ~group.deleting
                /\ \A w \in wants : Exposed(w, ports.numbers)
                /\ group.recorded = Statuses(wants))

=============================================================================
