------------------------ MODULE LoadBalancersProofs ------------------------
(***************************************************************************)
(* What EnsureMachineGroup and DeleteMachineGroup leave behind in AWS, for *)
(* any exposures and port sets and any number of edits, failed calls and   *)
(* restarts.                                                               *)
(***************************************************************************)
EXTENDS LoadBalancers, FiniteSetTheorems, SequenceTheorems, TLAPS

-----------------------------------------------------------------------------
(* The inductive invariant                                                 *)

Want == {w \in Wants : w.scope \in Scopes}
Arn == CloudNames \X Nat
Entry == EntryNames \X Arn
Port == UNION PortSets
Target == TargetNames \X Port \X Nat

Group == [exposure : Exposures, recorded : SUBSET Entry, deleting : BOOLEAN, gone : BOOLEAN]
Ports == [numbers : PortSets, tcp : BOOLEAN]

\* The API server, and copies of it.
ServerInv ==
    /\ group \in Group /\ seenGroup \in Group
    /\ ports \in Ports /\ seenPorts \in Ports
    /\ IsFiniteSet(group.recorded) /\ IsFiniteSet(seenGroup.recorded)
    /\ edits \in 0 .. MaxEdits /\ fails \in 0 .. MaxFails

\* AWS: one load balancer of a name, one listener of a port; a listener belongs
\* to a load balancer and forwards to a target group of its port, and to one that
\* the listeners of no other load balancer forward to.
BalancersInv ==
    /\ balancers \in SUBSET [arn : Arn, scheme : Scopes] /\ IsFiniteSet(balancers)
    /\ \A b, c \in balancers : b.arn[1] = c.arn[1] => b = c

ListenersInv ==
    /\ listeners \in SUBSET [lb : Arn, port : Port, tg : Target]
    /\ \A l \in listeners : /\ \E b \in balancers : b.arn = l.lb
                            /\ l.tg \in targetGroups /\ l.tg[2] = l.port
    /\ \A l, m \in listeners : l.lb = m.lb /\ l.port = m.port => l = m
    /\ \A l, m \in listeners : l.tg = m.tg => l.lb = m.lb

TargetsInv ==
    /\ targetGroups \in SUBSET Target /\ IsFiniteSet(targetGroups)
    /\ attached \in SUBSET Target /\ IsFiniteSet(attached)
    /\ asg \in BOOLEAN /\ (attached # {} => asg)

Exposing == {"balancer", "serve", "attach", "detach", "exposed"}
Dooming == {"doomed", "unlisten", "untarget"}
Deleting == {"deleteMachines", "finalizer"}

Job ==
    [pc : {"idle", "machines", "patch"} \cup Exposing \cup Dooming \cup Deleting,
     ok : BOOLEAN, recorded : SUBSET Entry, wants : SUBSET Want, todo : Seq(Want),
     ports : SUBSET Port, tcp : BOOLEAN, lb : Arn \cup {<<>>}, tgs : SUBSET Target,
     managed : SUBSET Target, status : SUBSET Entry, doomed : SUBSET Arn,
     then : {"patch", "deleteMachines"}]

JobOK(j) ==
    /\ j \in Job
    /\ IsFiniteSet(j.recorded) /\ IsFiniteSet(j.doomed) /\ IsFiniteSet(j.wants)
    /\ IsFiniteSet(j.managed) /\ IsFiniteSet(j.tgs) /\ IsFiniteSet(j.status)

\* Where a reconcile can be, and with what.
ControlInv ==
    /\ job.pc = "idle" => job = Idle
    /\ job.pc \in {"machines", "patch"} \cup Exposing => job.then = "patch"
    /\ job.pc \in {"machines"} \cup Exposing => job.ok
    /\ job.pc \in Exposing => asg
    /\ job.pc = "machines" => job.wants = Range(job.todo) /\ job.status = {}
    /\ job.pc \in {"balancer", "serve"} => job.todo # <<>>
    /\ job.pc \in {"attach", "detach", "exposed"} => job.todo = <<>>
    /\ job.pc \in Deleting => job.then = "deleteMachines"
    /\ job.then = "deleteMachines" => job.ports = {}

\* Of the load balancer at hand: its target groups, one for a port at most, are
\* those its listeners forward to and those this reconcile made.
ServeInv ==
    job.pc = "serve" =>
        /\ \E b \in balancers : b.arn = job.lb /\ b.scheme = Head(job.todo).scope
        /\ job.lb[1] = Cloud(Head(job.todo))
        /\ job.tgs \subseteq job.managed
        /\ Associated(job.lb) \subseteq job.tgs
        /\ \A t \in job.tgs : t[2] \in job.ports => t \in targetGroups
        /\ \A t, u \in job.tgs : t[2] = u[2] => t = u

\* The load balancer n, of these load balancers and listeners, listens on the
\* ports ps and on no other, and all that it forwards to is in S.
At(ls, n) == {l \in ls : l.lb[1] = n}
Listens(bs, ls, ps, n) ==
    (\E b \in bs : b.arn[1] = n) /\ {l.port : l \in At(ls, n)} = ps
Forwards(ls, S, n) == \A l \in At(ls, n) : l.tg \in S

Clouds(wants) == {Cloud(w) : w \in wants}
Schemed(bs, w) == \E b \in bs : b.arn[1] = Cloud(w) /\ b.scheme = w.scope

\* The load balancers that are done: each stays as it is while the others are
\* worked on, and what it forwards to stays attached.
DoneInv ==
    /\ job.pc \in Exposing =>
          /\ \A w \in job.wants : w \in Range(job.todo) \/ Schemed(balancers, w)
          /\ \A n \in Clouds(job.wants) : (\A w \in Range(job.todo) : Cloud(w) # n) =>
                /\ Listens(balancers, listeners, job.ports, n)
                /\ Forwards(listeners, job.managed, n)
    /\ job.pc \in {"detach", "exposed"} =>
          \A n \in Clouds(job.wants) : Forwards(listeners, attached, n)

\* The ARNs that this status has under names of none of these entries, and the
\* entry whose load balancer is not among them.
Stale(recorded, wants) == Arns({r \in recorded : \A w \in wants : w.name # r[1]})
Kept(w) == \A a \in Stale(job.recorded, job.wants) : a[1] # Cloud(w)

\* What is wanted and not renamed is as it should be and in the new status; what
\* is stale is doomed or gone, and nothing else is doomed.
StaleOK ==
    /\ \A w \in job.wants : Kept(w) =>
          /\ Schemed(balancers, w)
          /\ Listens(balancers, listeners, job.ports, Cloud(w))
          /\ Forwards(listeners, attached, Cloud(w))
    /\ \A w \in job.wants, b \in balancers :
          b.arn[1] = Cloud(w) => <<w.name, b.arn>> \in job.status
    /\ job.doomed \subseteq Stale(job.recorded, job.wants)
    /\ \A b \in balancers : b.arn \in Stale(job.recorded, job.wants) => b.arn \in job.doomed

\* Of the load balancer to be deleted: what its listeners forwarded to is of no
\* use to others.
StaleInv ==
    /\ job.pc \in Dooming \cup {"patch"} /\ job.then = "patch" /\ job.ok => StaleOK
    /\ job.pc \in Dooming => job.ok
    /\ job.pc \in {"unlisten", "untarget"} =>
          /\ job.lb \in job.doomed
          /\ \A t \in job.tgs, l \in listeners : l.tg = t => l.lb = job.lb
    /\ job.pc \in {"patch"} \cup Deleting => job.doomed = {}

\* A deletion: whatever the spec or the status that it read names is gone or
\* doomed.
DeleteInv ==
    job.then = "deleteMachines" =>
        /\ \A b \in balancers :
              b.arn \in Arns(job.recorded) \/ b.arn[1] \in Clouds(job.wants) => b.arn \in job.doomed
        /\ job.pc = "finalizer" => ~asg

AwsInv == BalancersInv /\ ListenersInv /\ TargetsInv
JobInv == JobOK(job) /\ ControlInv /\ ServeInv /\ DoneInv /\ StaleInv /\ DeleteInv

BalancerInv == ServerInv /\ AwsInv /\ JobInv

-----------------------------------------------------------------------------
(* NormalizeLoadBalancers                                                  *)

\* A list that is accepted has entries of supported scopes.
LEMMA NormalizeType ==
    ASSUME NEW e \in Exposures, NormalizeLoadBalancers(e).ok
    PROVE  NormalizeLoadBalancers(e).list \in Seq(Want)
<1> DEFINE list == NormalizeLoadBalancers(e).list
<1>1. \A w \in Range(list) : w \in Wants
  BY DEF Wants
<1>2. CASE e.nil
  <2> DEFINE w == [name |-> <<"internal", 1>>, scope |-> "internal", override |-> Unnamed]
  <2>1. list = <<w>>
    BY <1>2 DEF NormalizeLoadBalancers, TheDefault
  <2>2. w.scope \in Scopes
    BY DEF Scopes
  <2> HIDE DEF w, list
  <2>3. w \in Range(list)
    BY <2>1 DEF Range
  <2>4. w \in Want
    BY <1>1, <2>2, <2>3 DEF Want
  <2>5. list \in Seq(Want)
    BY <2>1, <2>4
  <2> QED BY <2>5 DEF list
<1>3. CASE ~e.nil
  <2> DEFINE items == e.items
             Plain == [name : STRING \X Nat, scope : STRING, override : STRING \X Nat]
  <2>1. items \in Seq(Plain)
    BY BalancerAssumption
  <2>2. /\ list = NormalizedList(items)
        /\ \A i \in DOMAIN items : EffectiveScope(items[i]) \in Scopes
    BY <1>3 DEF NormalizeLoadBalancers
  <2> HIDE DEF items, Plain, list
  <2>3. Len(items) \in Nat /\ DOMAIN items = 1 .. Len(items)
    BY <2>1
  <2>4. /\ DOMAIN list = 1 .. Len(items)
        /\ \A i \in 1 .. Len(items) : list[i].scope = EffectiveScope(items[i])
        /\ list = [i \in 1 .. Len(items) |-> list[i]]
    BY <2>2, <2>3 DEF NormalizedList
  <2>5. \A i \in 1 .. Len(items) : list[i] \in Range(list)
    BY <2>4 DEF Range
  <2>6. \A i \in 1 .. Len(items) : list[i] \in Want
    BY <1>1, <2>2, <2>3, <2>4, <2>5 DEF Want
  <2>7. list \in Seq(Want)
    BY <2>3, <2>4, <2>6
  <2> QED BY <2>7 DEF list
<1> QED BY <1>2, <1>3

\* The parts of an entry of the spec, and of the status.
LEMMA WantType ==
    /\ \A w \in Want : /\ Cloud(w) \in CloudNames /\ TargetName(w) \in TargetNames
                       /\ w.name \in EntryNames /\ w.scope \in Scopes
    /\ \A S \in SUBSET Entry : Arns(S) \in SUBSET Arn
<1>1. \A w \in Want : /\ Cloud(w) \in CloudNames /\ TargetName(w) \in TargetNames
                      /\ w.name \in EntryNames /\ w.scope \in Scopes
  BY DEF Want, CloudNames, TargetNames, EntryNames
<1>2. \A r \in Entry : r[2] \in Arn
  BY DEF Entry
<1> QED BY <1>1, <1>2 DEF Arns

-----------------------------------------------------------------------------
(* ARNs                                                                    *)

\* The parts that the elements of a finite set have are finitely many.
LEMMA PartsFinite ==
    ASSUME NEW S, IsFiniteSet(S)
    PROVE  /\ IsFiniteSet({x.arn : x \in S})
           /\ IsFiniteSet({x[2] : x \in S})
           /\ IsFiniteSet({x[3] : x \in S})
           /\ IsFiniteSet(Arns(S))
<1>1. IsFiniteSet({x.arn : x \in S})
  <2>1. [x \in S |-> x.arn] \in Surjection(S, {x.arn : x \in S})
    BY DEF Surjection
  <2> QED BY <2>1, FS_Surjection
<1>2. IsFiniteSet({x[2] : x \in S})
  <2>1. [x \in S |-> x[2]] \in Surjection(S, {x[2] : x \in S})
    BY DEF Surjection
  <2> QED BY <2>1, FS_Surjection
<1>3. IsFiniteSet({x[3] : x \in S})
  <2>1. [x \in S |-> x[3]] \in Surjection(S, {x[3] : x \in S})
    BY DEF Surjection
  <2> QED BY <2>1, FS_Surjection
<1> QED BY <1>1, <1>2, <1>3 DEF Arns

\* There is always a number that is not taken.
LEMMA FreshNumber ==
    ASSUME NEW used, IsFiniteSet(used)
    PROVE  Fresh(used) \in Nat /\ Fresh(used) \notin used
<1> DEFINE n == Cardinality(used)
<1>1. n \in Nat
  BY FS_CardinalityType
<1>2. \E k \in 1 .. (n + 1) : k \notin used
  <2>1. SUFFICES ASSUME 1 .. (n + 1) \in SUBSET used PROVE FALSE
    OBVIOUS
  <2>2. Cardinality(1 .. (n + 1)) = n + 1
    BY <1>1, FS_Interval
  <2>3. Cardinality(1 .. (n + 1)) <= n
    BY <2>1, FS_Subset
  <2> QED BY <1>1, <2>2, <2>3
<1>3. Fresh(used) \in 1 .. (n + 1) /\ Fresh(used) \notin used
  BY <1>2 DEF Fresh
<1> QED BY <1>1, <1>3

-----------------------------------------------------------------------------
(* Users, the API server and the caches                                    *)

LEMMA GroupFields ==
    ASSUME NEW g \in Group
    PROVE  /\ \A r \in SUBSET Entry : /\ [g EXCEPT !.recorded = r] \in Group
                                     /\ [g EXCEPT !.recorded = r].recorded = r
           /\ \A e \in Exposures : /\ [g EXCEPT !.exposure = e] \in Group
                                   /\ [g EXCEPT !.exposure = e].recorded = g.recorded
           /\ [g EXCEPT !.deleting = TRUE] \in Group
           /\ [g EXCEPT !.deleting = TRUE].recorded = g.recorded
           /\ [g EXCEPT !.gone = TRUE] \in Group
           /\ [g EXCEPT !.gone = TRUE].recorded = g.recorded
BY DEF Group

LEMMA ServerStep ==
    ASSUME BalancerInv, [Next]_vars
    PROVE  ServerInv'
<1> USE DEF BalancerInv
<1>0. group \in Group /\ job.status \in SUBSET Entry /\ IsFiniteSet(job.status)
  BY DEF ServerInv, JobInv, JobOK, Job
<1>1. edits' \in 0 .. MaxEdits /\ fails' \in 0 .. MaxFails
  <2>0. edits \in 0 .. MaxEdits /\ fails \in 0 .. MaxFails
    BY DEF ServerInv
  <2>1. CASE UNCHANGED bounds
    BY <2>0, <2>1 DEF bounds
  <2>2. CASE User
    BY <2>0, <2>2, BalancerAssumption
    DEF User, Edit, EditExposure, EditPorts, DeleteGroup
  <2>3. CASE ApiError \/ Crash
    BY <2>0, <2>3, BalancerAssumption DEF ApiError, Crash, Fail
  <2> QED
    BY <2>1, <2>2, <2>3
    DEF Next, Operator, SyncGroup, SyncPorts, vars, bounds, BeginEnsure, BeginDelete,
      EnsureMachines, EnsureBalancer, SchemeMismatch, CreateTargetGroup, EnsureListener,
      DeleteListener, DeleteDoomedListener, DeleteTargetGroup, DeleteDoomedTarget,
      NextBalancer, AttachTargetGroups, DetachTargetGroups, FindStale, BeginDoomed,
      DetachDoomedTargets, DeleteBalancer, DoomedDone, PatchStatus, DeleteMachines,
      RemoveFinalizer
<1>2. CASE UNCHANGED <<server, caches>>
  BY <1>1, <1>2 DEF ServerInv, server, caches
<1>3. CASE User
  <2>1. UNCHANGED caches
    BY <1>3 DEF User, Edit, EditExposure, EditPorts, DeleteGroup, caches
  <2>3. group' \in Group /\ group'.recorded = group.recorded
    <3>1. CASE \E exposure \in Exposures : EditExposure(exposure)
      <4>1. PICK exposure \in Exposures : group' = [group EXCEPT !.exposure = exposure]
        BY <3>1 DEF EditExposure
      <4> QED BY <1>0, <4>1, GroupFields
    <3>2. CASE DeleteGroup
      BY <1>0, <3>2, GroupFields DEF DeleteGroup
    <3>3. CASE UNCHANGED group
      BY <1>0, <3>3
    <3> QED BY <1>3, <3>1, <3>2, <3>3 DEF User, EditPorts
  <2>2. ports' \in Ports
    BY <1>3 DEF User, Edit, EditExposure, EditPorts, DeleteGroup, ServerInv, Ports
  <2> QED BY <1>1, <2>1, <2>2, <2>3 DEF ServerInv, caches
<1>4. CASE SyncGroup \/ SyncPorts
  BY <1>1, <1>4 DEF SyncGroup, SyncPorts, ServerInv, server
<1>5. CASE PatchStatus \/ RemoveFinalizer
  <2>1. UNCHANGED <<ports, caches>>
    BY <1>5 DEF PatchStatus, RemoveFinalizer
  <2>2. group' \in Group /\ group'.recorded \in {group.recorded, job.status}
    <3>1. CASE PatchStatus
      BY <1>0, <3>1, GroupFields DEF PatchStatus
    <3>2. CASE RemoveFinalizer
      BY <1>0, <3>2, GroupFields DEF RemoveFinalizer
    <3> QED BY <1>5, <3>1, <3>2
  <2> QED BY <1>0, <1>1, <2>1, <2>2 DEF ServerInv, caches
<1> QED
  BY <1>2, <1>3, <1>4, <1>5
  DEF Next, Operator, ApiError, Crash, Fail, vars, server, caches, BeginEnsure, BeginDelete,
      EnsureMachines, EnsureBalancer, SchemeMismatch, CreateTargetGroup, EnsureListener,
      DeleteListener, DeleteDoomedListener, DeleteTargetGroup, DeleteDoomedTarget,
      NextBalancer, AttachTargetGroups, DetachTargetGroups, FindStale, BeginDoomed,
      DetachDoomedTargets, DeleteBalancer, DoomedDone, DeleteMachines

-----------------------------------------------------------------------------
(* Steps that leave AWS alone                                              *)

LEMMA SameAws == AwsInv /\ UNCHANGED <<elb, machines>> => AwsInv'
BY DEF AwsInv, BalancersInv, ListenersInv, TargetsInv, elb, machines

LEMMA SameJob == JobInv /\ UNCHANGED <<elb, machines, job>> => JobInv'
BY DEF JobInv, JobOK, ControlInv, ServeInv, DoneInv, StaleInv, StaleOK, Kept, DeleteInv, elb,
       machines, Associated, ListenersOf

LEMMA IdleFields ==
    /\ Idle.pc = "idle" /\ Idle.ok = TRUE /\ Idle.recorded = {} /\ Idle.wants = {}
    /\ Idle.todo = <<>> /\ Idle.ports = {} /\ Idle.tcp = TRUE /\ Idle.lb = <<>>
    /\ Idle.tgs = {} /\ Idle.managed = {} /\ Idle.status = {} /\ Idle.doomed = {}
    /\ Idle.then = "patch"
BY DEF Idle

LEMMA IdleOK == JobOK(Idle)
<1>1. Idle \in Job
  BY DEF Idle, Job
<1>2. IsFiniteSet({})
  BY FS_EmptySet
<1> QED BY <1>1, <1>2, IdleFields DEF JobOK

\* A reconcile that ends, or is cut short, leaves nothing to be kept.
LEMMA BecomesIdle == job' = Idle => JobInv'
<1> SUFFICES ASSUME job' = Idle PROVE JobInv'
  OBVIOUS
<1>1. /\ job'.pc = "idle" /\ job'.then = "patch" /\ JobOK(job')
  BY IdleFields, IdleOK
<1> QED
  BY <1>1
  DEF JobInv, ControlInv, ServeInv, DoneInv, StaleInv, DeleteInv, Exposing, Dooming, Deleting

\* A reconcile that fails keeps what the status was and what it is to be.
LEMMA BecomesFailed == JobOK(job) /\ job' = Failed(job) => JobInv'
<1> SUFFICES ASSUME JobOK(job), job' = Failed(job) PROVE JobInv'
  OBVIOUS
<1>0. job.recorded \in SUBSET Entry /\ job.status \in SUBSET Entry
  BY DEF JobOK, Job
<1>1. /\ job'.pc = "patch" /\ job'.then = "patch" /\ job'.ok = FALSE /\ job'.doomed = {}
      /\ job'.ports = {} /\ job'.tgs = {} /\ job'.managed = {} /\ job'.wants = {}
      /\ job'.recorded = job.recorded /\ job'.status = job.status
  BY DEF Failed, Idle
<1>2. job' \in Job
  <2>1. job' = [pc |-> "patch", ok |-> FALSE, recorded |-> job.recorded, wants |-> {},
                todo |-> <<>>, ports |-> {}, tcp |-> TRUE, lb |-> <<>>, tgs |-> {},
                managed |-> {}, status |-> job.status, doomed |-> {}, then |-> "patch"]
    BY DEF Failed, Idle
  <2> QED BY <1>0, <2>1 DEF Job
<1>3. JobOK(job')
  BY <1>1, <1>2, FS_EmptySet DEF JobOK
<1> QED
  BY <1>1, <1>3
  DEF JobInv, ControlInv, ServeInv, DoneInv, StaleInv, DeleteInv, Exposing, Dooming, Deleting

LEMMA EntriesOfList ==
    ASSUME NEW list \in Seq(Want)
    PROVE  Range(list) \in SUBSET Want /\ IsFiniteSet(Range(list))
<1>1. Len(list) \in Nat /\ DOMAIN list = 1 .. Len(list) /\ \A i \in DOMAIN list : list[i] \in Want
  OBVIOUS
<1>2. IsFiniteSet(DOMAIN list)
  BY <1>1, FS_Interval
<1>3. [i \in DOMAIN list |-> list[i]] \in Surjection(DOMAIN list, Range(list))
  BY DEF Surjection, Range
<1>4. IsFiniteSet(Range(list))
  BY <1>2, <1>3, FS_Surjection
<1> QED BY <1>1, <1>4 DEF Range

LEMMA BeginEnsureStep == BalancerInv /\ BeginEnsure => JobInv'
<1> SUFFICES ASSUME BalancerInv, BeginEnsure PROVE JobInv'
  OBVIOUS
<1> DEFINE list == NormalizeLoadBalancers(seenGroup.exposure).list
<1>1. seenGroup.exposure \in Exposures /\ seenGroup.recorded \in SUBSET Entry
  BY DEF BalancerInv, ServerInv, Group
<1>2. seenPorts.numbers \in SUBSET Port /\ seenPorts.tcp \in BOOLEAN
  BY DEF BalancerInv, ServerInv, Ports, Port
<1>3. list \in Seq(Want)
  BY <1>1, NormalizeType DEF BeginEnsure
<1>4. job' = [pc |-> "machines", ok |-> TRUE, recorded |-> seenGroup.recorded,
              wants |-> Range(list), todo |-> list, ports |-> seenPorts.numbers,
              tcp |-> seenPorts.tcp, lb |-> <<>>, tgs |-> {}, managed |-> {},
              status |-> {}, doomed |-> {}, then |-> "patch"]
  BY DEF BeginEnsure, Idle
<1> HIDE DEF list
<1>5. Range(list) \in SUBSET Want /\ IsFiniteSet(Range(list))
  BY <1>3, EntriesOfList
<1>6. job' \in Job
  BY <1>1, <1>2, <1>3, <1>4, <1>5 DEF Job
<1>7. /\ job'.pc = "machines" /\ job'.ok = TRUE /\ job'.recorded = seenGroup.recorded
      /\ job'.wants = Range(list) /\ job'.todo = list /\ job'.then = "patch"
      /\ job'.tgs = {} /\ job'.managed = {} /\ job'.status = {} /\ job'.doomed = {}
  BY <1>4
<1>8. JobOK(job')
  BY <1>5, <1>6, <1>7, FS_EmptySet DEF JobOK, BalancerInv, ServerInv
<1> QED
  BY <1>7, <1>8
  DEF JobInv, ControlInv, ServeInv, DoneInv, StaleInv, DeleteInv, Exposing, Dooming, Deleting

LEMMA BeginDeleteStep == BalancerInv /\ BeginDelete => JobInv'
<1> SUFFICES ASSUME BalancerInv, BeginDelete PROVE JobInv'
  OBVIOUS
<1> DEFINE list == NormalizeLoadBalancers(seenGroup.exposure).list
           wants == Range(list)
           named == {b.arn : b \in NamedBy(wants)}
           doomed == Arns(seenGroup.recorded) \cup named
<1>1. seenGroup.exposure \in Exposures /\ seenGroup.recorded \in SUBSET Entry
      /\ IsFiniteSet(seenGroup.recorded)
  BY DEF BalancerInv, ServerInv, Group
<1>2. UNCHANGED balancers
  BY DEF BeginDelete, elb
<1>3. list \in Seq(Want)
  BY <1>1, NormalizeType DEF BeginDelete
<1>4. job' = [pc |-> "doomed", ok |-> TRUE, recorded |-> seenGroup.recorded,
              wants |-> wants, todo |-> <<>>, ports |-> {},
              tcp |-> TRUE, lb |-> <<>>, tgs |-> {}, managed |-> {},
              status |-> {}, doomed |-> doomed, then |-> "deleteMachines"]
  BY DEF BeginDelete, Idle
<1> HIDE DEF list
<1>5. wants \in SUBSET Want /\ IsFiniteSet(wants)
  BY <1>3, EntriesOfList
<1> HIDE DEF wants
<1>6. {b.arn : b \in balancers} \in SUBSET Arn /\ IsFiniteSet({b.arn : b \in balancers})
  BY PartsFinite DEF BalancerInv, AwsInv, BalancersInv
<1>7. named \in SUBSET {b.arn : b \in balancers}
  BY DEF Named, NamedBy
<1>8. IsFiniteSet(named) /\ named \in SUBSET Arn
  BY <1>6, <1>7, FS_Subset
<1>9. doomed \in SUBSET Arn /\ IsFiniteSet(doomed)
  <2>1. IsFiniteSet(Arns(seenGroup.recorded)) /\ Arns(seenGroup.recorded) \in SUBSET Arn
    BY <1>1, PartsFinite, WantType
  <2> HIDE DEF named
  <2> QED BY <1>8, <2>1, FS_Union
<1>10. \A b \in balancers : b.arn \in Arns(seenGroup.recorded) \/ b.arn[1] \in Clouds(wants)
                            => b.arn \in doomed
  BY DEF Named, NamedBy, Clouds
<1> HIDE DEF doomed
<1>11. job' \in Job
  BY <1>1, <1>4, <1>5, <1>9 DEF Job, Dooming
<1>12. /\ job'.pc = "doomed" /\ job'.ok = TRUE /\ job'.recorded = seenGroup.recorded
       /\ job'.wants = wants /\ job'.then = "deleteMachines" /\ job'.ports = {}
       /\ job'.tgs = {} /\ job'.managed = {} /\ job'.status = {} /\ job'.doomed = doomed
  BY <1>4
<1>13. JobOK(job')
  BY <1>1, <1>5, <1>9, <1>11, <1>12, FS_EmptySet DEF JobOK
<1> QED
  BY <1>2, <1>10, <1>12, <1>13
  DEF JobInv, ControlInv, ServeInv, DoneInv, StaleInv, DeleteInv, Exposing, Dooming, Deleting

LEMMA EnsureMachinesStep == BalancerInv /\ EnsureMachines => AwsInv' /\ JobInv'
<1> SUFFICES ASSUME BalancerInv, EnsureMachines PROVE AwsInv' /\ JobInv'
  OBVIOUS
<1>0. JobOK(job) /\ job \in Job
  BY DEF BalancerInv, JobInv, JobOK
<1>1. AwsInv'
  BY DEF BalancerInv, AwsInv, BalancersInv, ListenersInv, TargetsInv, EnsureMachines, elb
<1>2. /\ asg' = TRUE /\ job.pc = "machines" /\ UNCHANGED <<balancers, listeners, attached>>
      /\ job.ok /\ job.then = "patch" /\ job.wants = Range(job.todo)
      /\ job.status = {}
  BY DEF EnsureMachines, BalancerInv, JobInv, ControlInv, elb
<1>3. CASE job' = [job EXCEPT !.pc = "doomed", !.doomed = Arns(job.recorded)]
           /\ job.todo = <<>>
  <2>0. Arns(job.recorded) \in SUBSET Arn /\ IsFiniteSet(Arns(job.recorded))
    BY <1>0, PartsFinite, WantType DEF JobOK, Job
  <2>1. job' \in Job
    BY <1>0, <1>3, <2>0 DEF Job, Dooming
  <2>2. /\ job'.pc = "doomed" /\ job'.ok = job.ok /\ job'.recorded = job.recorded
        /\ job'.wants = job.wants /\ job'.then = job.then /\ job'.tgs = job.tgs
        /\ job'.managed = job.managed /\ job'.status = job.status
        /\ job'.doomed = Arns(job.recorded)
    BY <1>0, <1>3 DEF Job
  <2>3. JobOK(job')
    BY <1>0, <2>0, <2>1, <2>2 DEF JobOK
  <2>4. job.wants = {}
    BY <1>2, <1>3 DEF Range
  <2>5. StaleOK'
    BY <2>2, <2>4 DEF StaleOK, Stale
  <2> QED
    BY <1>1, <1>2, <2>2, <2>3, <2>4, <2>5
    DEF JobInv, ControlInv, ServeInv, DoneInv, StaleInv, DeleteInv, Exposing, Dooming, Deleting
<1>4. CASE job' = Failed(job)
  BY <1>0, <1>1, <1>4, BecomesFailed
<1>5. CASE job' = [job EXCEPT !.pc = "balancer"] /\ job.todo # <<>>
  <2>1. job' \in Job
    BY <1>0, <1>5 DEF Job, Exposing
  <2>2. /\ job'.pc = "balancer" /\ job'.ok = job.ok /\ job'.recorded = job.recorded
        /\ job'.wants = job.wants /\ job'.then = job.then /\ job'.tgs = job.tgs
        /\ job'.managed = job.managed /\ job'.status = job.status
        /\ job'.doomed = job.doomed /\ job'.todo = job.todo
    BY <1>0, <1>5 DEF Job
  <2>3. JobOK(job')
    BY <1>0, <2>1, <2>2 DEF JobOK
  <2> QED
    BY <1>1, <1>2, <1>5, <2>2, <2>3
    DEF JobInv, ControlInv, ServeInv, DoneInv, StaleInv, DeleteInv, Exposing, Dooming, Deleting,
        Clouds
<1> QED BY <1>3, <1>4, <1>5 DEF EnsureMachines

LEMMA TailFacts ==
    ASSUME NEW seq \in Seq(Want), seq # <<>>
    PROVE  /\ Tail(seq) \in Seq(Want) /\ Len(seq) \in Nat
           /\ Len(seq) = 1 => Tail(seq) = <<>>
           /\ Len(seq) # 1 => Tail(seq) # <<>>
           /\ \A w \in Range(seq) : w = Head(seq) \/ w \in Range(Tail(seq))
<1>1. Len(seq) \in Nat /\ Len(seq) # 0 /\ DOMAIN seq = 1 .. Len(seq) /\ Head(seq) = seq[1]
  OBVIOUS
<1>2. Tail(seq) \in Seq(Want) /\ Len(Tail(seq)) = Len(seq) - 1
  BY <1>1
<1>3. DOMAIN Tail(seq) = 1 .. Len(seq) - 1
  BY <1>1, <1>2
<1>4. \A i \in 1 .. Len(seq) - 1 : Tail(seq)[i] = seq[i + 1]
  BY <1>1
<1>5. ASSUME NEW i \in DOMAIN seq PROVE seq[i] = Head(seq) \/ seq[i] \in Range(Tail(seq))
  <2>1. CASE i = 1
    BY <1>1, <2>1
  <2>2. CASE i # 1
    <3>1. i - 1 \in DOMAIN Tail(seq) /\ Tail(seq)[i - 1] = seq[i]
      BY <1>1, <1>3, <1>4, <2>2
    <3> QED BY <3>1 DEF Range
  <2> QED BY <2>1, <2>2
<1>6. \A w \in Range(seq) : w = Head(seq) \/ w \in Range(Tail(seq))
  BY <1>5 DEF Range
<1>7. /\ Len(seq) = 1 => Tail(seq) = <<>>
      /\ Len(seq) # 1 => Tail(seq) # <<>>
  <2> DEFINE tail == Tail(seq)
  <2>1. tail \in Seq(Want) /\ Len(tail) = Len(seq) - 1
    BY <1>2
  <2> HIDE DEF tail
  <2>2. tail # <<>> => Len(tail) \in Nat \ {0}
    BY <2>1, EmptySeq
  <2>3. tail = <<>> => Len(tail) = 0
    OBVIOUS
  <2>4. /\ Len(seq) = 1 => tail = <<>>
        /\ Len(seq) # 1 => tail # <<>>
    BY <1>1, <2>1, <2>2, <2>3
  <2> QED BY <2>4 DEF tail
<1> QED BY <1>1, <1>2, <1>6, <1>7

\* The load balancer at hand is done: it has a listener for each port wanted,
\* which forwards to the one target group of that port, and none for others.
LEMMA NextBalancerStep == BalancerInv /\ NextBalancer => JobInv'
<1> SUFFICES ASSUME BalancerInv, NextBalancer PROVE JobInv'
  OBVIOUS
<1> USE DEF BalancerInv, AwsInv, JobInv
<1>0. JobOK(job) /\ job \in Job
  BY DEF JobOK
<1>1. UNCHANGED <<balancers, listeners, targetGroups, asg, attached>>
  BY DEF NextBalancer, elb, machines
<1>2. /\ job.pc = "serve" /\ job.ok /\ job.then = "patch" /\ asg /\ job.todo # <<>>
      /\ job.todo \in Seq(Want)
  BY <1>0 DEF NextBalancer, ControlInv, Exposing, Job
<1>3. /\ Tail(job.todo) \in Seq(Want) /\ Len(job.todo) \in Nat
      /\ Len(job.todo) = 1 => Tail(job.todo) = <<>>
      /\ Len(job.todo) # 1 => Tail(job.todo) # <<>>
      /\ \A w \in Range(job.todo) : w = Head(job.todo) \/ w \in Range(Tail(job.todo))
  BY <1>2, TailFacts
<1>4. job' = [job EXCEPT !.pc = IF Len(job.todo) = 1 THEN "attach" ELSE "balancer",
                         !.todo = Tail(job.todo), !.lb = <<>>, !.tgs = {}]
  BY DEF NextBalancer
<1>5. job' \in Job
  BY <1>0, <1>3, <1>4 DEF Job, Exposing
<1>6. /\ job'.pc = IF Len(job.todo) = 1 THEN "attach" ELSE "balancer"
      /\ job'.ok = job.ok /\ job'.recorded = job.recorded
      /\ job'.wants = job.wants /\ job'.then = job.then /\ job'.tgs = {}
      /\ job'.managed = job.managed /\ job'.status = job.status
      /\ job'.doomed = job.doomed /\ job'.todo = Tail(job.todo)
      /\ job'.ports = job.ports
  BY <1>0, <1>4 DEF Job
<1>7. JobOK(job')
  BY <1>0, <1>5, <1>6, FS_EmptySet DEF JobOK
<1>8. Listens(balancers, listeners, job.ports, job.lb[1])
      /\ Forwards(listeners, job.managed, job.lb[1])
  <2>0. /\ Untargeted = {} /\ Unserved = {} /\ UnwantedListeners = {}
    BY DEF NextBalancer
  <2>1. PICK b \in balancers : b.arn = job.lb /\ b.scheme = Head(job.todo).scope
    BY <1>2 DEF ServeInv
  <2>2. \A l \in At(listeners, job.lb[1]) : l.lb = job.lb
    BY <2>1 DEF At, ListenersInv, BalancersInv
  <2>3. \A l \in At(listeners, job.lb[1]) : l.port \in job.ports
    BY <2>0, <2>2 DEF At, UnwantedListeners, ListenersOf
  <2>4. \A p \in job.ports : ListenerFor(p) \in listeners
    BY <2>0 DEF Unserved
  <2>5. \A p \in job.ports : ListenerFor(p) \in At(listeners, job.lb[1]) /\ ListenerFor(p).port = p
    BY <2>4 DEF At, ListenerFor
  <2>6. \A l \in At(listeners, job.lb[1]) : l.tg \in job.managed
    <3>1. \A l \in At(listeners, job.lb[1]) : l.tg \in Associated(job.lb)
      BY <2>2 DEF At, Associated, ListenersOf
    <3> QED BY <1>2, <3>1 DEF ServeInv
  <2>7. {l.port : l \in At(listeners, job.lb[1])} = job.ports
    BY <2>3, <2>5
  <2> QED BY <2>1, <2>6, <2>7 DEF Listens, Forwards
<1>9. ASSUME NEW n \in Clouds(job.wants), \A w \in Range(job'.todo) : Cloud(w) # n
      PROVE  /\ Listens(balancers, listeners, job.ports, n)
             /\ Forwards(listeners, job.managed, n)
  <2>1. CASE n = job.lb[1]
    BY <1>8, <2>1
  <2>2. CASE n # job.lb[1]
    <3>1. \A w \in Range(job.todo) : Cloud(w) # n
      BY <1>2, <1>3, <1>6, <1>9, <2>2 DEF ServeInv
    <3> QED BY <1>2, <3>1 DEF DoneInv, Exposing
  <2> QED BY <2>1, <2>2
<1>10. DoneInv'
  <2>1. Schemed(balancers, Head(job.todo))
    BY <1>2 DEF ServeInv, Schemed
  <2>2. \A w \in job.wants : w \in Range(Tail(job.todo)) \/ Schemed(balancers, w)
    BY <1>2, <1>3, <2>1 DEF DoneInv, Exposing
  <2> QED BY <1>1, <1>6, <1>9, <2>2 DEF DoneInv
<1> QED
  BY <1>1, <1>2, <1>3, <1>6, <1>7, <1>10
  DEF ControlInv, ServeInv, StaleInv, DeleteInv, Exposing, Dooming, Deleting

\* What the status lists is a finite set of entries.
LEMMA StatusesType ==
    ASSUME BalancersInv, NEW wants \in SUBSET Want, IsFiniteSet(wants)
    PROVE  Statuses(wants) \in SUBSET Entry /\ IsFiniteSet(Statuses(wants))
<1> DEFINE names == {w.name : w \in wants}
           arns == {b.arn : b \in balancers}
<1>1. arns \in SUBSET Arn /\ IsFiniteSet(arns)
  BY PartsFinite DEF BalancersInv
<1>2. names \in SUBSET EntryNames
  BY WantType
<1>3. IsFiniteSet(names)
  <2>1. [w \in wants |-> w.name] \in Surjection(wants, names)
    BY DEF Surjection
  <2> QED BY <2>1, FS_Surjection
<1>4. Statuses(wants) \in SUBSET (names \X arns)
  BY DEF Statuses, Named
<1> HIDE DEF names, arns
<1>5. IsFiniteSet(names \X arns) /\ names \X arns \in SUBSET Entry
  <2>1. IsFiniteSet(names \X arns)
    BY <1>1, <1>3, FS_Product
  <2> QED BY <1>1, <1>2, <2>1 DEF Entry
<1> QED BY <1>4, <1>5, FS_Subset

\* What is about to be deleted, after the exposure is complete.
LEMMA StaleType ==
    ASSUME JobOK(job)
    PROVE  /\ Arns(StaleEntries) = Stale(job.recorded, job.wants)
           /\ Stale(job.recorded, job.wants) \in SUBSET Arn
           /\ IsFiniteSet(Stale(job.recorded, job.wants))
<1>1. StaleEntries \in SUBSET job.recorded
  BY DEF StaleEntries
<1>2. StaleEntries \in SUBSET Entry /\ IsFiniteSet(StaleEntries)
  BY <1>1, FS_Subset DEF JobOK, Job
<1>3. IsFiniteSet(Arns(StaleEntries)) /\ Arns(StaleEntries) \in SUBSET Arn
  BY <1>2, PartsFinite, WantType
<1>4. Arns(StaleEntries) = Stale(job.recorded, job.wants)
  BY DEF StaleEntries, Stale
<1> QED BY <1>3, <1>4

LEMMA FindStaleStep == BalancerInv /\ FindStale => JobInv'
<1> SUFFICES ASSUME BalancerInv, FindStale PROVE JobInv'
  OBVIOUS
<1> USE DEF BalancerInv, AwsInv, JobInv
<1> DEFINE stale == Stale(job.recorded, job.wants)
           statuses == Statuses(job.wants)
<1>0. JobOK(job) /\ job \in Job /\ job.wants \in SUBSET Want /\ IsFiniteSet(job.wants)
  BY DEF JobOK, Job
<1>1. UNCHANGED <<balancers, listeners, targetGroups, asg, attached>>
  BY DEF FindStale, elb, machines
<1>2. job.pc = "exposed" /\ job.ok /\ job.then = "patch" /\ job.todo = <<>>
  BY DEF FindStale, ControlInv, Exposing
<1>3. statuses \in SUBSET Entry /\ IsFiniteSet(statuses)
  BY <1>0, StatusesType
<1>4. stale \in SUBSET Arn /\ IsFiniteSet(stale)
  BY <1>0, StaleType
<1>5. job' = [job EXCEPT !.pc = "doomed", !.managed = {}, !.status = statuses,
                         !.doomed = stale]
  BY <1>0, StaleType DEF FindStale
<1>6. \A w \in job.wants, b \in balancers : b.arn[1] = Cloud(w) => <<w.name, b.arn>> \in statuses
  BY DEF Statuses, Named
<1> HIDE DEF stale, statuses
<1>7. job' \in Job
  BY <1>0, <1>3, <1>4, <1>5 DEF Job, Dooming
<1>8. /\ job'.pc = "doomed" /\ job'.ok = job.ok /\ job'.recorded = job.recorded
      /\ job'.wants = job.wants /\ job'.then = job.then /\ job'.tgs = job.tgs
      /\ job'.managed = {} /\ job'.status = statuses
      /\ job'.doomed = stale /\ job'.ports = job.ports
  BY <1>0, <1>5 DEF Job
<1>9. JobOK(job')
  BY <1>0, <1>3, <1>4, <1>7, <1>8, FS_EmptySet DEF JobOK
<1>10. \A w \in job.wants : /\ Schemed(balancers, w)
                             /\ Listens(balancers, listeners, job.ports, Cloud(w))
                             /\ Forwards(listeners, attached, Cloud(w))
  <2>1. Range(job.todo) = {}
    BY <1>2 DEF Range
  <2> QED BY <1>2, <2>1 DEF DoneInv, Exposing, Clouds
<1>11. StaleOK'
  BY <1>1, <1>6, <1>8, <1>10 DEF StaleOK, stale
<1> QED
  BY <1>1, <1>2, <1>8, <1>9, <1>11
  DEF ControlInv, ServeInv, DoneInv, StaleInv, DeleteInv, Exposing, Dooming, Deleting

LEMMA BeginDoomedStep ==
    ASSUME BalancerInv, NEW arn \in job.doomed, BeginDoomed(arn)
    PROVE  JobInv'
<1> USE DEF BalancerInv, AwsInv, JobInv
<1>0. JobOK(job) /\ job \in Job
  BY DEF JobOK
<1>1. UNCHANGED <<balancers, listeners, targetGroups, asg, attached>>
  BY DEF BeginDoomed, elb, machines
<1>2. job' = [job EXCEPT !.pc = "unlisten", !.lb = arn, !.tgs = {}] /\ job.pc = "doomed"
  BY DEF BeginDoomed
<1>3. arn \in Arn
  BY <1>0 DEF Job
<1>4. job' \in Job
  BY <1>0, <1>2, <1>3 DEF Job, Dooming
<1>5. /\ job'.pc = "unlisten" /\ job'.ok = job.ok /\ job'.recorded = job.recorded
      /\ job'.wants = job.wants /\ job'.then = job.then /\ job'.tgs = {}
      /\ job'.managed = job.managed /\ job'.status = job.status
      /\ job'.doomed = job.doomed /\ job'.ports = job.ports /\ job'.lb = arn
  BY <1>0, <1>2 DEF Job
<1>6. JobOK(job')
  BY <1>0, <1>4, <1>5, FS_EmptySet DEF JobOK
<1>7. StaleOK => StaleOK'
  BY <1>1, <1>5 DEF StaleOK, Kept
<1> QED
  BY <1>1, <1>2, <1>5, <1>6, <1>7
  DEF ControlInv, ServeInv, DoneInv, StaleInv, DeleteInv, Exposing, Dooming, Deleting

LEMMA DoomedDoneStep == BalancerInv /\ DoomedDone => JobInv'
<1> SUFFICES ASSUME BalancerInv, DoomedDone PROVE JobInv'
  OBVIOUS
<1> USE DEF BalancerInv, AwsInv, JobInv
<1>0. JobOK(job) /\ job \in Job
  BY DEF JobOK
<1>1. UNCHANGED <<balancers, listeners, targetGroups, asg, attached>>
  BY DEF DoomedDone, elb, machines
<1>2. job' = [job EXCEPT !.pc = job.then] /\ job.pc = "doomed" /\ job.doomed = {}
  BY DEF DoomedDone
<1>3. job.then \in {"patch", "deleteMachines"}
  BY <1>0 DEF Job
<1>4. job' \in Job
  BY <1>0, <1>2, <1>3 DEF Job, Deleting
<1>5. /\ job'.pc = job.then /\ job'.ok = job.ok /\ job'.recorded = job.recorded
      /\ job'.wants = job.wants /\ job'.then = job.then /\ job'.tgs = job.tgs
      /\ job'.managed = job.managed /\ job'.status = job.status
      /\ job'.doomed = job.doomed /\ job'.ports = job.ports
  BY <1>0, <1>2 DEF Job
<1>6. JobOK(job')
  BY <1>0, <1>4, <1>5 DEF JobOK
<1>7. StaleOK => StaleOK'
  BY <1>1, <1>5 DEF StaleOK, Kept
<1> QED
  BY <1>1, <1>2, <1>3, <1>5, <1>6, <1>7
  DEF ControlInv, ServeInv, DoneInv, StaleInv, DeleteInv, Exposing, Dooming, Deleting

-----------------------------------------------------------------------------
(* Steps on the load balancer at hand                                      *)

\* What its listeners forward to: target groups that exist, one for a port.
LEMMA AssociatedFacts ==
    ASSUME AwsInv, NEW arn
    PROVE  /\ Associated(arn) \in SUBSET targetGroups /\ Associated(arn) \in SUBSET Target
           /\ IsFiniteSet(Associated(arn))
           /\ \A t, u \in Associated(arn) : t[2] = u[2] => t = u
<1>1. \A t \in Associated(arn) : \E l \in listeners : l.lb = arn /\ t = l.tg
  BY DEF Associated, ListenersOf
<1>2. Associated(arn) \in SUBSET targetGroups
  BY <1>1 DEF AwsInv, ListenersInv
<1>3. IsFiniteSet(Associated(arn)) /\ Associated(arn) \in SUBSET Target
  BY <1>2, FS_Subset DEF AwsInv, TargetsInv
<1>4. ASSUME NEW t \in Associated(arn), NEW u \in Associated(arn), t[2] = u[2] PROVE t = u
  <2>1. PICK l \in listeners : l.lb = arn /\ t = l.tg
    BY <1>1
  <2>2. PICK m \in listeners : m.lb = arn /\ u = m.tg
    BY <1>1
  <2>3. l.port = m.port
    BY <1>4, <2>1, <2>2 DEF AwsInv, ListenersInv
  <2> QED BY <2>1, <2>2, <2>3 DEF AwsInv, ListenersInv
<1> QED BY <1>2, <1>3, <1>4

\* The load balancer that is found or made.
LEMMA BalancerMade ==
    ASSUME BalancerInv, EnsureBalancer
    PROVE  \E b \in [arn : Arn, scheme : Scopes] :
              /\ b.arn[1] = Cloud(Head(job.todo)) /\ b.scheme = Head(job.todo).scope
              /\ balancers' = balancers \cup {b}
              /\ \A c \in balancers : c.arn[1] = b.arn[1] => c = b
              /\ job' = [job EXCEPT !.pc = "serve", !.lb = b.arn,
                                    !.tgs = Associated(b.arn),
                                    !.managed = job.managed \cup Associated(b.arn)]
<1> USE DEF BalancerInv, AwsInv, JobInv
<1> DEFINE want == Head(job.todo)
           cloud == Cloud(want)
           mine == {b \in KnownBalancers : b[1] = cloud}
           ks == {a[2] : a \in mine}
           arn == IF Named(cloud) # {}
                  THEN (CHOOSE b \in Named(cloud) : TRUE).arn
                  ELSE <<cloud, Fresh(ks)>>
           b == [arn |-> arn, scheme |-> want.scope]
<1>0. JobOK(job) /\ job \in Job
  BY DEF JobOK
<1>1. want \in Want
  BY <1>0, HeadTailProperties DEF EnsureBalancer, Job
<1>2. cloud \in CloudNames /\ want.scope \in Scopes
  <2> HIDE DEF want
  <2> QED BY <1>1, WantType
<1>3. /\ \A c \in Named(cloud) : c.scheme = want.scope
      /\ balancers' = balancers \cup {b}
      /\ job' = [job EXCEPT !.pc = "serve", !.lb = arn, !.tgs = Associated(arn),
                            !.managed = job.managed \cup Associated(arn)]
  BY DEF EnsureBalancer
<1>4. IsFiniteSet(ks)
  <2> DEFINE recorded == group.recorded \cup seenGroup.recorded \cup job.recorded
  <2>1. IsFiniteSet(group.recorded \cup seenGroup.recorded)
    BY FS_Union DEF ServerInv
  <2>2. IsFiniteSet(recorded)
    BY <1>0, <2>1, FS_Union DEF JobOK
  <2>3. IsFiniteSet(Arns(recorded)) /\ IsFiniteSet({c.arn : c \in balancers})
    BY <2>2, PartsFinite DEF BalancersInv
  <2>4. IsFiniteSet({c.arn : c \in balancers} \cup job.doomed)
    BY <1>0, <2>3, FS_Union DEF JobOK
  <2>5. IsFiniteSet(KnownBalancers)
    BY <2>3, <2>4, FS_Union DEF KnownBalancers
  <2>6. mine \in SUBSET KnownBalancers
    OBVIOUS
  <2>7. IsFiniteSet(mine)
    BY <2>5, <2>6, FS_Subset
  <2> HIDE DEF mine
  <2> QED BY <2>7, PartsFinite
<1>5. CASE Named(cloud) # {}
  <2>1. PICK c \in Named(cloud) : arn = c.arn
    BY <1>5
  <2> HIDE DEF arn, want, cloud
  <2>2. c \in balancers /\ c.arn[1] = cloud /\ c.scheme = want.scope
    BY <1>3 DEF Named
  <2>3. c \in [arn : Arn, scheme : Scopes]
    BY <2>2 DEF BalancersInv
  <2>4. c = b
    BY <2>1, <2>2, <2>3
  <2>5. /\ b \in [arn : Arn, scheme : Scopes] /\ b.arn = arn /\ b.arn[1] = cloud /\ b.scheme = want.scope
        /\ \A d \in balancers : d.arn[1] = b.arn[1] => d = b
    BY <2>2, <2>3, <2>4 DEF BalancersInv
  <2> HIDE DEF b
  <2> QED BY <1>3, <2>5 DEF want, cloud
<1>6. CASE Named(cloud) = {}
  <2>1. arn = <<cloud, Fresh(ks)>>
    BY <1>6
  <2>2. Fresh(ks) \in Nat
    BY <1>4, FreshNumber
  <2>3. \A d \in balancers : d.arn[1] # cloud
    BY <1>6 DEF Named
  <2> HIDE DEF arn, want, cloud, ks
  <2>4. arn \in Arn /\ arn[1] = cloud
    BY <1>2, <2>1, <2>2 DEF Arn
  <2>5. /\ b \in [arn : Arn, scheme : Scopes] /\ b.arn = arn /\ b.arn[1] = cloud /\ b.scheme = want.scope
        /\ \A d \in balancers : d.arn[1] = b.arn[1] => d = b
    BY <1>2, <2>3, <2>4
  <2> HIDE DEF b
  <2> QED BY <1>3, <2>5 DEF want, cloud
<1> QED BY <1>5, <1>6

LEMMA EnsureBalancerStep == BalancerInv /\ EnsureBalancer => AwsInv' /\ JobInv'
<1> SUFFICES ASSUME BalancerInv, EnsureBalancer PROVE AwsInv' /\ JobInv'
  OBVIOUS
<1> USE DEF BalancerInv
<1>0. JobOK(job) /\ job \in Job
  BY DEF JobOK, JobInv
<1>1. PICK b \in [arn : Arn, scheme : Scopes] :
              /\ b.arn[1] = Cloud(Head(job.todo)) /\ b.scheme = Head(job.todo).scope
              /\ balancers' = balancers \cup {b}
              /\ \A c \in balancers : c.arn[1] = b.arn[1] => c = b
              /\ job' = [job EXCEPT !.pc = "serve", !.lb = b.arn,
                                    !.tgs = Associated(b.arn),
                                    !.managed = job.managed \cup Associated(b.arn)]
  BY BalancerMade
<1>2. /\ UNCHANGED <<listeners, targetGroups, asg, attached>>
      /\ job.pc = "balancer" /\ job.todo # <<>>
  BY DEF EnsureBalancer, machines
<1>3. /\ Associated(b.arn) \in SUBSET targetGroups /\ Associated(b.arn) \in SUBSET Target
      /\ IsFiniteSet(Associated(b.arn))
      /\ \A t, u \in Associated(b.arn) : t[2] = u[2] => t = u
  BY AssociatedFacts
<1>4. AwsInv'
  <2>1. IsFiniteSet(balancers')
    BY <1>1, FS_AddElement DEF AwsInv, BalancersInv
  <2>2. BalancersInv'
    BY <1>1, <2>1 DEF AwsInv, BalancersInv
  <2>3. ListenersInv' /\ TargetsInv'
    BY <1>1, <1>2 DEF AwsInv, ListenersInv, TargetsInv
  <2> QED BY <2>2, <2>3 DEF AwsInv
<1>5. /\ job'.pc = "serve" /\ job'.ok = job.ok /\ job'.recorded = job.recorded
      /\ job'.wants = job.wants /\ job'.then = job.then /\ job'.tgs = Associated(b.arn)
      /\ job'.managed = job.managed \cup Associated(b.arn) /\ job'.status = job.status
      /\ job'.doomed = job.doomed /\ job'.ports = job.ports /\ job'.lb = b.arn
      /\ job'.todo = job.todo
  BY <1>0, <1>1 DEF Job
<1>6. JobOK(job')
  <2>1. job' \in Job
    BY <1>0, <1>1, <1>3 DEF Job, Exposing
  <2>2. IsFiniteSet(job.managed \cup Associated(b.arn))
    BY <1>0, <1>3, FS_Union DEF JobOK
  <2> QED BY <1>0, <1>3, <1>5, <2>1, <2>2 DEF JobOK
<1>7. Associated(b.arn)' = Associated(b.arn)
  BY <1>2 DEF Associated, ListenersOf
<1>8. ServeInv'
  <2>1. (\E c \in balancers : c.arn = job.lb /\ c.scheme = Head(job.todo).scope)'
    BY <1>1, <1>5
  <2>2. Associated(job.lb)' = Associated(b.arn)
    BY <1>2, <1>5 DEF Associated, ListenersOf
  <2> QED BY <1>1, <1>2, <1>3, <1>5, <2>1, <2>2 DEF ServeInv
<1>9. DoneInv'
  <2>1. ASSUME NEW n \in Clouds(job.wants), \A w \in Range(job.todo) : Cloud(w) # n
        PROVE  /\ Listens(balancers', listeners, job.ports, n)
               /\ Forwards(listeners, job'.managed, n)
    <3>1. Listens(balancers, listeners, job.ports, n) /\ Forwards(listeners, job.managed, n)
      BY <1>2, <2>1 DEF JobInv, DoneInv, Exposing
    <3> QED BY <1>1, <1>5, <3>1 DEF Listens, Forwards
  <2>2. \A w \in job.wants : w \in Range(job.todo) \/ Schemed(balancers', w)
    BY <1>1, <1>2 DEF JobInv, DoneInv, Exposing, Schemed
  <2> QED BY <1>2, <1>5, <2>1, <2>2 DEF DoneInv
<1> QED
  BY <1>2, <1>4, <1>5, <1>6, <1>8, <1>9
  DEF JobInv, ControlInv, StaleInv, DeleteInv, Exposing, Dooming, Deleting

\* The facts about the load balancer at hand, in one place.
LEMMA AtHand ==
    ASSUME BalancerInv, job.pc = "serve"
    PROVE  /\ JobOK(job) /\ job \in Job
           /\ job.lb \in Arn /\ TargetName(Head(job.todo)) \in TargetNames
           /\ job.ok /\ job.then = "patch" /\ asg
           /\ \A n \in Clouds(job.wants) : (\A w \in Range(job.todo) : Cloud(w) # n) => n # job.lb[1]
<1> USE DEF BalancerInv, AwsInv, JobInv
<1>1. JobOK(job) /\ job \in Job
  BY DEF JobOK
<1>2. job.lb \in Arn
  BY DEF ServeInv, BalancersInv
<1>4. job.ok /\ job.then = "patch" /\ asg /\ job.todo # <<>> /\ job.todo \in Seq(Want)
  BY <1>1 DEF ControlInv, Exposing, Job
<1>5. Head(job.todo) \in Range(job.todo)
  <2>1. 1 \in DOMAIN job.todo /\ Head(job.todo) = job.todo[1]
    BY <1>4
  <2> QED BY <2>1 DEF Range
<1>6. \A n \in Clouds(job.wants) : (\A w \in Range(job.todo) : Cloud(w) # n) => n # job.lb[1]
  BY <1>5 DEF ServeInv
<1>7. TargetName(Head(job.todo)) \in TargetNames
  BY <1>4, HeadTailProperties, WantType
<1> QED BY <1>1, <1>2, <1>4, <1>6, <1>7

\* A step that changes listeners of the load balancer at hand, or nothing, and
\* the target groups of no wanted port, keeps what was done before.
LEMMA ServeKeeps ==
    ASSUME BalancerInv, job.pc = "serve", UNCHANGED <<balancers, job, asg>>,
           \A l \in listeners \cup listeners' :
               (l \in listeners /\ l \in listeners') \/ l.lb = job.lb
    PROVE  DoneInv' /\ ControlInv' /\ StaleInv' /\ DeleteInv' /\ JobOK(job')
<1> USE DEF BalancerInv, JobInv
<1>1. ASSUME NEW n, n # job.lb[1] PROVE At(listeners', n) = At(listeners, n)
  BY <1>1 DEF At
<1>2. ASSUME NEW n \in Clouds(job.wants), \A w \in Range(job.todo) : Cloud(w) # n
      PROVE  /\ Listens(balancers, listeners', job.ports, n)
             /\ Forwards(listeners', job.managed, n)
  <2>1. At(listeners', n) = At(listeners, n)
    BY <1>1, <1>2, AtHand
  <2>2. Listens(balancers, listeners, job.ports, n) /\ Forwards(listeners, job.managed, n)
    BY <1>2 DEF DoneInv, Exposing
  <2> QED BY <2>1, <2>2 DEF Listens, Forwards
<1>3. DoneInv'
  BY <1>2 DEF DoneInv, Exposing
<1>4. ControlInv' /\ StaleInv' /\ DeleteInv' /\ JobOK(job')
  BY DEF ControlInv, StaleInv, DeleteInv, Exposing, Dooming, Deleting
<1> QED BY <1>3, <1>4

LEMMA CreateTargetGroupStep ==
    ASSUME BalancerInv, NEW p \in job.ports, CreateTargetGroup(p)
    PROVE  AwsInv' /\ JobInv'
<1> USE DEF BalancerInv
<1> DEFINE name == TargetName(Head(job.todo))
           same == {t \in targetGroups : t[1] = name /\ t[2] = p}
           mine == {u \in KnownTargets : u[1] = name /\ u[2] = p}
           ks == {t[3] : t \in mine}
           tg == IF same # {} THEN CHOOSE t \in same : TRUE ELSE <<name, p, Fresh(ks)>>
<1>0. /\ JobOK(job) /\ job \in Job /\ job.pc = "serve" /\ name \in TargetNames
  BY AtHand DEF CreateTargetGroup
<1>1. /\ targetGroups' = targetGroups \cup {tg}
      /\ job' = [job EXCEPT !.tgs = job.tgs \cup {tg}, !.managed = job.managed \cup {tg}]
      /\ UNCHANGED <<balancers, listeners, asg, attached>>
      /\ \A t \in job.tgs : t[2] # p
  BY DEF CreateTargetGroup, machines, Untargeted
<1>2. IsFiniteSet(ks)
  <2>1. IsFiniteSet(targetGroups \cup attached)
    BY FS_Union DEF AwsInv, TargetsInv
  <2>2. IsFiniteSet(KnownTargets)
    BY <1>0, <2>1, FS_Union DEF JobOK, KnownTargets
  <2>3. mine \in SUBSET KnownTargets
    OBVIOUS
  <2>4. IsFiniteSet(mine)
    BY <2>2, <2>3, FS_Subset
  <2> HIDE DEF mine
  <2> QED BY <2>4, PartsFinite
<1>3. tg \in Target /\ tg[1] = name /\ tg[2] = p
  <2>1. CASE same # {}
    <3>1. tg \in same
      BY <2>1
    <3> HIDE DEF tg
    <3> QED BY <3>1 DEF AwsInv, TargetsInv
  <2>2. CASE same = {}
    <3>1. tg = <<name, p, Fresh(ks)>>
      BY <2>2
    <3>2. Fresh(ks) \in Nat /\ p \in Port
      BY <1>0, <1>2, FreshNumber DEF Job
    <3> HIDE DEF tg, ks, name
    <3> QED BY <1>0, <3>1, <3>2 DEF Target
  <2> QED BY <2>1, <2>2
<1> HIDE DEF tg
<1>4. AwsInv'
  <2>1. IsFiniteSet(targetGroups')
    BY <1>1, FS_AddElement DEF AwsInv, TargetsInv
  <2>2. TargetsInv' /\ ListenersInv' /\ BalancersInv'
    BY <1>1, <1>3, <2>1 DEF AwsInv, TargetsInv, ListenersInv, BalancersInv
  <2> QED BY <2>2 DEF AwsInv
<1>5. /\ job'.pc = "serve" /\ job'.ok = job.ok /\ job'.recorded = job.recorded
      /\ job'.wants = job.wants /\ job'.then = job.then /\ job'.tgs = job.tgs \cup {tg}
      /\ job'.managed = job.managed \cup {tg} /\ job'.status = job.status
      /\ job'.doomed = job.doomed /\ job'.ports = job.ports /\ job'.lb = job.lb
      /\ job'.todo = job.todo
  BY <1>0, <1>1 DEF Job
<1>6. JobOK(job')
  <2>1. job' \in Job
    BY <1>0, <1>1, <1>3 DEF Job
  <2>2. IsFiniteSet(job.managed \cup {tg}) /\ IsFiniteSet(job.tgs \cup {tg})
    BY <1>0, FS_AddElement DEF JobOK
  <2> QED BY <1>0, <1>5, <2>1, <2>2 DEF JobOK
<1>7. ServeInv'
  <2>1. Associated(job.lb)' = Associated(job.lb)
    BY <1>1, <1>5 DEF Associated, ListenersOf
  <2>2. ServeInv
    BY DEF JobInv
  <2> QED BY <1>0, <1>1, <1>3, <1>5, <2>1, <2>2 DEF ServeInv
<1>8. DoneInv'
  <2>1. ASSUME NEW n \in Clouds(job.wants), \A w \in Range(job.todo) : Cloud(w) # n
        PROVE  /\ Listens(balancers, listeners, job.ports, n)
               /\ Forwards(listeners, job'.managed, n)
    <3>1. Listens(balancers, listeners, job.ports, n) /\ Forwards(listeners, job.managed, n)
      BY <1>0, <2>1 DEF JobInv, DoneInv, Exposing
    <3> QED BY <1>5, <3>1 DEF Forwards
  <2>2. \A w \in job.wants : w \in Range(job.todo) \/ Schemed(balancers, w)
    BY <1>0 DEF JobInv, DoneInv, Exposing
  <2> QED BY <1>1, <1>5, <2>1, <2>2 DEF DoneInv
<1> QED
  BY <1>0, <1>1, <1>4, <1>5, <1>6, <1>7, <1>8
  DEF JobInv, ControlInv, StaleInv, DeleteInv, Exposing, Dooming, Deleting

\* The listener of a wanted port that has a target group.
LEMMA ListenerForFacts ==
    ASSUME BalancerInv, job.pc = "serve", Untargeted = {}, NEW p \in job.ports
    PROVE  /\ ListenerFor(p).lb = job.lb /\ ListenerFor(p).port = p
           /\ ListenerFor(p).tg \in job.tgs /\ ListenerFor(p).tg \in targetGroups
           /\ ListenerFor(p).tg[2] = p
           /\ ListenerFor(p) \in [lb : Arn, port : Port, tg : Target]
<1> DEFINE tg == CHOOSE t \in job.tgs : t[2] = p
<1>1. tg \in job.tgs /\ tg[2] = p
  BY DEF Untargeted
<1>2. ListenerFor(p) = [lb |-> job.lb, port |-> p, tg |-> tg]
  BY DEF ListenerFor
<1> HIDE DEF tg
<1>3. job.lb \in Arn /\ p \in Port /\ tg \in Target
  BY <1>1, AtHand DEF Job
<1>4. tg \in targetGroups
  BY <1>1 DEF BalancerInv, JobInv, ServeInv
<1> QED BY <1>1, <1>2, <1>3, <1>4

LEMMA EnsureListenerStep ==
    ASSUME BalancerInv, NEW p \in job.ports, EnsureListener(p)
    PROVE  AwsInv' /\ JobInv'
<1> DEFINE new == ListenerFor(p)
<1>1. /\ job.pc = "serve" /\ UNCHANGED <<balancers, targetGroups, asg, attached>>
      /\ Untargeted = {}
  BY DEF EnsureListener, machines
<1>2. /\ new.lb = job.lb /\ new.port = p /\ new.tg \in job.tgs /\ new.tg \in targetGroups
      /\ new.tg[2] = p /\ new \in [lb : Arn, port : Port, tg : Target]
  BY <1>1, ListenerForFacts
<1>3. ServeInv
  BY DEF BalancerInv, JobInv
<1>4. CASE TakenElsewhere(new.tg)
  <2>1. UNCHANGED <<elb, machines>> /\ job' = Failed(job)
    BY <1>4 DEF EnsureListener, elb
  <2> QED BY <1>1, <2>1, SameAws, BecomesFailed, AtHand DEF BalancerInv
<1>5. CASE ~TakenElsewhere(new.tg)
  <2>1. /\ listeners' = {l \in listeners : ~(l.lb = job.lb /\ l.port = p)} \cup {new}
        /\ UNCHANGED job
    BY <1>5 DEF EnsureListener
  <2>2. \A l \in listeners : l.tg = new.tg => l.lb = job.lb
    BY <1>5 DEF TakenElsewhere
  <2> HIDE DEF new
  <2>3. AwsInv'
    <3>1. listeners' \in SUBSET [lb : Arn, port : Port, tg : Target]
      BY <1>2, <2>1 DEF BalancerInv, AwsInv, ListenersInv
    <3>2. \A l \in listeners' : /\ \E b \in balancers' : b.arn = l.lb
                                /\ l.tg \in targetGroups' /\ l.tg[2] = l.port
      BY <1>1, <1>2, <1>3, <2>1 DEF BalancerInv, AwsInv, ListenersInv, ServeInv
    <3>3. \A l, m \in listeners' : l.lb = m.lb /\ l.port = m.port => l = m
      BY <1>2, <2>1 DEF BalancerInv, AwsInv, ListenersInv
    <3>4. \A l, m \in listeners' : l.tg = m.tg => l.lb = m.lb
      BY <1>2, <2>1, <2>2 DEF BalancerInv, AwsInv, ListenersInv
    <3>5. ListenersInv'
      BY <3>1, <3>2, <3>3, <3>4 DEF ListenersInv
    <3>6. BalancersInv' /\ TargetsInv'
      BY <1>1 DEF BalancerInv, AwsInv, BalancersInv, TargetsInv
    <3> QED BY <3>5, <3>6 DEF AwsInv
  <2>4. ServeInv'
    <3>1. Associated(job.lb)' \subseteq job.tgs
      BY <1>1, <1>2, <1>3, <2>1 DEF Associated, ListenersOf, ServeInv
    <3> QED BY <1>1, <1>3, <2>1, <3>1 DEF ServeInv
  <2>5. DoneInv' /\ ControlInv' /\ StaleInv' /\ DeleteInv' /\ JobOK(job')
    BY <1>1, <1>2, <2>1, ServeKeeps
  <2> QED BY <2>3, <2>4, <2>5 DEF JobInv
<1> QED BY <1>4, <1>5

LEMMA DeleteListenerStep ==
    ASSUME BalancerInv, NEW l \in listeners, DeleteListener(l)
    PROVE  AwsInv' /\ JobInv'
<1>1. /\ job.pc = "serve" /\ UNCHANGED <<balancers, targetGroups, asg, attached, job>>
      /\ listeners' = listeners \ {l} /\ l.lb = job.lb
  BY DEF DeleteListener, machines, UnwantedListeners, ListenersOf
<1>2. AwsInv'
  BY <1>1 DEF BalancerInv, AwsInv, BalancersInv, ListenersInv, TargetsInv
<1>3. ServeInv'
  <2>1. Associated(job.lb)' \subseteq Associated(job.lb)
    BY <1>1 DEF Associated, ListenersOf
  <2> QED BY <1>1, <2>1 DEF BalancerInv, JobInv, ServeInv
<1>4. DoneInv' /\ ControlInv' /\ StaleInv' /\ DeleteInv' /\ JobOK(job')
  BY <1>1, ServeKeeps
<1> QED BY <1>2, <1>3, <1>4 DEF JobInv

\* A target group that no listener forwards to is deleted.
LEMMA TargetGone ==
    ASSUME AwsInv, NEW t, ~InUse(t), targetGroups' = targetGroups \ {t},
           UNCHANGED <<balancers, listeners, asg, attached>>
    PROVE  AwsInv'
<1>1. IsFiniteSet(targetGroups')
  BY FS_RemoveElement DEF AwsInv, TargetsInv
<1> QED BY <1>1 DEF AwsInv, BalancersInv, ListenersInv, TargetsInv, InUse

LEMMA DeleteTargetGroupStep ==
    ASSUME BalancerInv, NEW t \in job.tgs, DeleteTargetGroup(t)
    PROVE  AwsInv' /\ JobInv'
<1>1. /\ job.pc = "serve" /\ UNCHANGED <<balancers, listeners, asg, attached>>
      /\ t[2] \notin job.ports
  BY DEF DeleteTargetGroup, machines, UnwantedTargets
<1>2. CASE InUse(t)
  <2>1. UNCHANGED <<elb, machines>> /\ job' = Failed(job)
    BY <1>2 DEF DeleteTargetGroup, elb
  <2> QED BY <1>1, <2>1, SameAws, BecomesFailed, AtHand DEF BalancerInv
<1>3. CASE ~InUse(t)
  <2>1. targetGroups' = targetGroups \ {t} /\ UNCHANGED job
    BY <1>3 DEF DeleteTargetGroup
  <2>2. AwsInv'
    BY <1>1, <1>3, <2>1, TargetGone DEF BalancerInv
  <2>3. ServeInv'
    <3>1. Associated(job.lb)' = Associated(job.lb)
      BY <1>1, <2>1 DEF Associated, ListenersOf
    <3> QED BY <1>1, <2>1, <3>1 DEF BalancerInv, JobInv, ServeInv
  <2>4. DoneInv' /\ ControlInv' /\ StaleInv' /\ DeleteInv' /\ JobOK(job')
    BY <1>1, <2>1, ServeKeeps
  <2> QED BY <2>2, <2>3, <2>4 DEF JobInv
<1> QED BY <1>2, <1>3

-----------------------------------------------------------------------------
(* Attachments                                                             *)

\* Once no load balancer is left to be worked on, whatever one of them
\* forwards to is among the desired target groups.
LEMMA ForwardsToDesired ==
    ASSUME BalancerInv, job.pc \in {"attach", "detach"},
           NEW n \in Clouds(job.wants), NEW l \in At(listeners, n)
    PROVE  l.tg \in Desired
<1> USE DEF BalancerInv, AwsInv, JobInv
<1>1. Range(job.todo) = {}
  BY DEF ControlInv, Range
<1>2. Listens(balancers, listeners, job.ports, n) /\ Forwards(listeners, job.managed, n)
  BY <1>1 DEF DoneInv, Exposing
<1>3. l.port \in job.ports /\ l.tg \in job.managed /\ l \in listeners
  BY <1>2 DEF Listens, Forwards, At
<1>4. l.tg[2] = l.port
  BY <1>3 DEF ListenersInv
<1> QED BY <1>3, <1>4 DEF Desired

\* A step of reconcileASGTargetGroups that leaves attached what is desired.
LEMMA AttachmentsStep ==
    ASSUME BalancerInv, job.pc \in {"attach", "detach"},
           NEW pc \in {"detach", "exposed"}, job' = [job EXCEPT !.pc = pc],
           attached' \in SUBSET Target, IsFiniteSet(attached'),
           UNCHANGED <<elb, asg>>,
           \A n \in Clouds(job.wants) : Forwards(listeners, attached', n)
    PROVE  AwsInv' /\ JobInv'
<1> USE DEF BalancerInv, AwsInv, JobInv
<1>0. JobOK(job) /\ job \in Job
  BY DEF JobOK
<1>1. UNCHANGED <<balancers, listeners, targetGroups, asg>>
  BY DEF elb
<1>2. job.ok /\ job.then = "patch" /\ asg /\ job.todo = <<>>
  BY DEF ControlInv, Exposing
<1>3. AwsInv'
  BY <1>1, <1>2 DEF BalancersInv, ListenersInv, TargetsInv
<1>4. job' \in Job
  BY <1>0 DEF Job, Exposing
<1>5. /\ job'.pc = pc /\ job'.ok = job.ok /\ job'.recorded = job.recorded
      /\ job'.wants = job.wants /\ job'.then = job.then /\ job'.tgs = job.tgs
      /\ job'.managed = job.managed /\ job'.status = job.status
      /\ job'.doomed = job.doomed /\ job'.ports = job.ports /\ job'.todo = job.todo
  BY <1>0 DEF Job
<1>6. JobOK(job')
  BY <1>0, <1>4, <1>5 DEF JobOK
<1>7. DoneInv'
  BY <1>1, <1>5 DEF DoneInv, Exposing
<1> QED
  BY <1>1, <1>2, <1>3, <1>5, <1>6, <1>7
  DEF ControlInv, ServeInv, StaleInv, DeleteInv, Exposing, Dooming, Deleting

LEMMA AttachTargetGroupsStep == BalancerInv /\ AttachTargetGroups => AwsInv' /\ JobInv'
<1> SUFFICES ASSUME BalancerInv, AttachTargetGroups PROVE AwsInv' /\ JobInv'
  OBVIOUS
<1> USE DEF BalancerInv, AwsInv, JobInv
<1>1. Desired \in SUBSET job.managed
  BY DEF Desired
<1>2. Desired \in SUBSET Target /\ IsFiniteSet(Desired)
  BY <1>1, FS_Subset DEF JobOK, Job
<1>3. attached' \in SUBSET Target
  BY <1>2 DEF AttachTargetGroups, TargetsInv
<1>4. IsFiniteSet(attached')
  BY <1>2, FS_Union DEF AttachTargetGroups, TargetsInv
<1>5. job.pc = "attach" /\ job' = [job EXCEPT !.pc = "detach"] /\ UNCHANGED <<elb, asg>>
  BY DEF AttachTargetGroups
<1>6. \A n \in Clouds(job.wants) : Forwards(listeners, attached', n)
  BY <1>5, ForwardsToDesired DEF Forwards, AttachTargetGroups
<1> QED BY <1>3, <1>4, <1>5, <1>6, AttachmentsStep

LEMMA DetachTargetGroupsStep == BalancerInv /\ DetachTargetGroups => AwsInv' /\ JobInv'
<1> SUFFICES ASSUME BalancerInv, DetachTargetGroups PROVE AwsInv' /\ JobInv'
  OBVIOUS
<1> USE DEF BalancerInv, AwsInv, JobInv
<1>1. attached' \in SUBSET attached
  BY DEF DetachTargetGroups
<1>2. attached' \in SUBSET Target /\ IsFiniteSet(attached')
  BY <1>1, FS_Subset DEF TargetsInv
<1>3. job.pc = "detach" /\ job' = [job EXCEPT !.pc = "exposed"] /\ UNCHANGED <<elb, asg>>
  BY DEF DetachTargetGroups
<1>4. \A n \in Clouds(job.wants) : Forwards(listeners, attached, n)
  BY <1>3 DEF DoneInv
<1>5. \A n \in Clouds(job.wants) : Forwards(listeners, attached', n)
  BY <1>3, <1>4, ForwardsToDesired DEF Forwards, DetachTargetGroups
<1> QED BY <1>2, <1>3, <1>5, AttachmentsStep

-----------------------------------------------------------------------------
(* Steps on the load balancer to be deleted                                *)

\* The entries whose load balancers are not to be deleted: none of them is the
\* load balancer at hand.
LEMMA DoomedNotKept ==
    ASSUME BalancerInv, job.pc \in {"unlisten", "untarget"}, job.then = "patch",
           NEW w \in job.wants, Kept(w)
    PROVE  job.lb[1] # Cloud(w)
<1>1. job.lb \in job.doomed /\ job.doomed \subseteq Stale(job.recorded, job.wants)
  BY DEF BalancerInv, JobInv, StaleInv, StaleOK, Dooming
<1> QED BY <1>1 DEF Kept

\* A step that takes away listeners, attachments or the load balancer of the
\* ARN at hand keeps what is wanted, and what is not doomed.
LEMMA DoomedKeeps ==
    ASSUME BalancerInv, job.pc \in {"unlisten", "untarget"}, job'.pc \in Dooming,
           job'.recorded = job.recorded, job'.wants = job.wants,
           job'.then = job.then, job'.ports = job.ports, job'.status = job.status,
           balancers' \in SUBSET balancers, listeners' \in SUBSET listeners,
           attached' \in SUBSET attached, job'.doomed \in SUBSET job.doomed,
           \A b \in balancers : b \notin balancers' => b.arn = job.lb,
           \A l \in listeners : l \notin listeners' => l.lb = job.lb,
           \A t \in attached : t \notin attached' => t \in job.tgs,
           \A a \in job.doomed : a \notin job'.doomed => \A b \in balancers' : b.arn # a
    PROVE  (job.then = "patch" => StaleOK') /\ DeleteInv'
<1> USE DEF BalancerInv, AwsInv, JobInv
<1>0. /\ job.ok /\ job.lb \in job.doomed
      /\ \A t \in job.tgs, l \in listeners : l.tg = t => l.lb = job.lb
  BY DEF StaleInv, Dooming
<1>1. DeleteInv'
  <2>1. \A b \in balancers' : job.then = "deleteMachines" /\
            (b.arn \in Arns(job.recorded) \/ b.arn[1] \in Clouds(job.wants))
            => b.arn \in job'.doomed
    BY DEF DeleteInv
  <2> QED BY <2>1 DEF DeleteInv, Dooming
<1>2. ASSUME job.then = "patch" PROVE StaleOK'
  <2>0. StaleOK
    BY <1>0, <1>2 DEF StaleInv, Dooming
  <2>1. ASSUME NEW w \in job.wants, Kept(w)
        PROVE  /\ Schemed(balancers', w)
               /\ Listens(balancers', listeners', job.ports, Cloud(w))
               /\ Forwards(listeners', attached', Cloud(w))
    <3>0. job.lb[1] # Cloud(w)
      BY <1>2, <2>1, DoomedNotKept
    <3>1. /\ Schemed(balancers, w)
          /\ Listens(balancers, listeners, job.ports, Cloud(w))
          /\ Forwards(listeners, attached, Cloud(w))
      BY <2>0, <2>1 DEF StaleOK
    <3>2. At(listeners', Cloud(w)) = At(listeners, Cloud(w))
      BY <3>0 DEF At
    <3>3. Schemed(balancers', w) /\ \E b \in balancers' : b.arn[1] = Cloud(w)
      BY <3>0, <3>1 DEF Schemed
    <3>4. \A l \in At(listeners, Cloud(w)) : l.tg \notin job.tgs
      BY <1>0, <3>0 DEF At
    <3>5. Forwards(listeners', attached', Cloud(w))
      BY <3>1, <3>2, <3>4 DEF Forwards
    <3>6. Listens(balancers', listeners', job.ports, Cloud(w))
      BY <3>1, <3>2, <3>3 DEF Listens
    <3> QED BY <3>3, <3>5, <3>6
  <2>2. \A w \in job.wants : Kept(w)' => Kept(w)
    BY DEF Kept
  <2> QED BY <2>0, <2>1, <2>2 DEF StaleOK
<1> QED BY <1>1, <1>2

LEMMA DeleteDoomedListenerStep ==
    ASSUME BalancerInv, NEW l \in listeners, DeleteDoomedListener(l)
    PROVE  AwsInv' /\ JobInv'
<1> USE DEF BalancerInv, AwsInv, JobInv
<1>0. JobOK(job) /\ job \in Job
  BY DEF JobOK
<1>1. /\ job.pc = "unlisten" /\ l.lb = job.lb
      /\ listeners' = listeners \ {l} /\ job' = [job EXCEPT !.tgs = job.tgs \cup {l.tg}]
      /\ UNCHANGED <<balancers, targetGroups, asg, attached>>
  BY DEF DeleteDoomedListener, ListenersOf, machines
<1>2. AwsInv'
  BY <1>1 DEF BalancersInv, ListenersInv, TargetsInv
<1>3. l.tg \in Target /\ \A m \in listeners : m.tg = l.tg => m.lb = job.lb
  BY <1>1 DEF ListenersInv
<1>4. job' \in Job
  BY <1>0, <1>1, <1>3 DEF Job
<1>5. /\ job'.pc = "unlisten" /\ job'.ok = job.ok /\ job'.recorded = job.recorded
      /\ job'.wants = job.wants /\ job'.then = job.then /\ job'.tgs = job.tgs \cup {l.tg}
      /\ job'.managed = job.managed /\ job'.status = job.status
      /\ job'.doomed = job.doomed /\ job'.ports = job.ports /\ job'.lb = job.lb
  BY <1>0, <1>1 DEF Job
<1>6. JobOK(job')
  <2>1. IsFiniteSet(job.tgs \cup {l.tg})
    BY <1>0, FS_AddElement DEF JobOK
  <2> QED BY <1>0, <1>4, <1>5, <2>1 DEF JobOK
<1>7. job'.pc \in Dooming /\ job.pc \in Dooming
  BY <1>1, <1>5 DEF Dooming
<1>8. (job.then = "patch" => StaleOK') /\ DeleteInv'
  BY <1>1, <1>5, <1>7, DoomedKeeps
<1>9. StaleInv'
  <2>1. /\ job.ok /\ job.lb \in job.doomed
        /\ \A t \in job.tgs, m \in listeners : m.tg = t => m.lb = job.lb
    BY <1>1, <1>7 DEF StaleInv
  <2>2. /\ job'.lb \in job'.doomed
        /\ \A t \in job'.tgs, m \in listeners' : m.tg = t => m.lb = job'.lb
    BY <1>1, <1>3, <1>5, <2>1
  <2> QED BY <1>5, <1>8, <2>1, <2>2 DEF StaleInv, Deleting
<1> QED
  BY <1>1, <1>2, <1>5, <1>6, <1>8, <1>9
  DEF ControlInv, ServeInv, DoneInv, Exposing, Deleting

LEMMA DetachDoomedTargetsStep ==
    ASSUME BalancerInv, NEW found \in {{}, job.tgs}, DetachDoomedTargets(found)
    PROVE  AwsInv' /\ JobInv'
<1> USE DEF BalancerInv, AwsInv, JobInv
<1>0. JobOK(job) /\ job \in Job
  BY DEF JobOK
<1>1. /\ job.pc = "unlisten" /\ attached' = attached \ found
      /\ job' = [job EXCEPT !.pc = "untarget", !.tgs = found]
      /\ UNCHANGED <<balancers, listeners, targetGroups, asg>>
  BY DEF DetachDoomedTargets, elb
<1>2. AwsInv'
  <2>1. attached' \in SUBSET attached
    BY <1>1
  <2>2. IsFiniteSet(attached')
    BY <2>1, FS_Subset DEF TargetsInv
  <2> QED BY <1>1, <2>1, <2>2 DEF BalancersInv, ListenersInv, TargetsInv
<1>3. /\ found \in SUBSET Target /\ IsFiniteSet(found) /\ found \in SUBSET job.tgs
  BY <1>0, <1>1, FS_EmptySet DEF JobOK, Job, StaleInv
<1>4. job' \in Job
  BY <1>0, <1>1, <1>3 DEF Job, Dooming
<1>5. /\ job'.pc = "untarget" /\ job'.ok = job.ok /\ job'.recorded = job.recorded
      /\ job'.wants = job.wants /\ job'.then = job.then /\ job'.tgs = found
      /\ job'.managed = job.managed /\ job'.status = job.status
      /\ job'.doomed = job.doomed /\ job'.ports = job.ports /\ job'.lb = job.lb
  BY <1>0, <1>1 DEF Job
<1>6. JobOK(job')
  BY <1>0, <1>3, <1>4, <1>5 DEF JobOK
<1>7. job'.pc \in Dooming /\ job.pc \in Dooming
  BY <1>1, <1>5 DEF Dooming
<1>8. (job.then = "patch" => StaleOK') /\ DeleteInv'
  BY <1>1, <1>3, <1>5, <1>7, DoomedKeeps
<1> QED
  BY <1>1, <1>2, <1>3, <1>5, <1>6, <1>8
  DEF ControlInv, ServeInv, DoneInv, StaleInv, Exposing, Dooming, Deleting

LEMMA DeleteDoomedTargetStep ==
    ASSUME BalancerInv, NEW t \in job.tgs, DeleteDoomedTarget(t)
    PROVE  AwsInv' /\ JobInv'
<1> USE DEF BalancerInv, JobInv
<1>0. JobOK(job) /\ job \in Job
  BY DEF JobOK
<1>1. /\ job.pc = "untarget" /\ ~InUse(t) /\ targetGroups' = targetGroups \ {t}
      /\ job' = [job EXCEPT !.tgs = job.tgs \ {t}]
      /\ UNCHANGED <<balancers, listeners, asg, attached>>
  BY DEF DeleteDoomedTarget, machines
<1>2. AwsInv'
  BY <1>1, TargetGone
<1>4. job' \in Job
  BY <1>0, <1>1 DEF Job
<1>5. /\ job'.pc = "untarget" /\ job'.ok = job.ok /\ job'.recorded = job.recorded
      /\ job'.wants = job.wants /\ job'.then = job.then /\ job'.tgs = job.tgs \ {t}
      /\ job'.managed = job.managed /\ job'.status = job.status
      /\ job'.doomed = job.doomed /\ job'.ports = job.ports /\ job'.lb = job.lb
  BY <1>0, <1>1 DEF Job
<1>6. JobOK(job')
  <2>1. IsFiniteSet(job.tgs \ {t})
    BY <1>0, FS_RemoveElement DEF JobOK
  <2> QED BY <1>0, <1>4, <1>5, <2>1 DEF JobOK
<1>7. job'.pc \in Dooming /\ job.pc \in Dooming
  BY <1>1, <1>5 DEF Dooming
<1>8. (job.then = "patch" => StaleOK') /\ DeleteInv'
  BY <1>1, <1>5, <1>7, DoomedKeeps
<1> QED
  BY <1>1, <1>2, <1>5, <1>6, <1>8
  DEF ControlInv, ServeInv, DoneInv, StaleInv, Exposing, Dooming, Deleting

LEMMA DeleteBalancerStep == BalancerInv /\ DeleteBalancer => AwsInv' /\ JobInv'
<1> SUFFICES ASSUME BalancerInv, DeleteBalancer PROVE AwsInv' /\ JobInv'
  OBVIOUS
<1> USE DEF BalancerInv, AwsInv, JobInv
<1>0. JobOK(job) /\ job \in Job
  BY DEF JobOK
<1>1. /\ job.pc = "untarget" /\ balancers' = {b \in balancers : b.arn # job.lb}
      /\ listeners' = {l \in listeners : l.lb # job.lb}
      /\ job' = [job EXCEPT !.pc = "doomed", !.doomed = job.doomed \ {job.lb}, !.lb = <<>>]
      /\ UNCHANGED <<targetGroups, asg, attached>>
  BY DEF DeleteBalancer, machines, ListenersOf
<1>2. AwsInv'
  <2>1. balancers' \in SUBSET balancers
    BY <1>1
  <2>2. IsFiniteSet(balancers')
    BY <2>1, FS_Subset DEF BalancersInv
  <2>3. BalancersInv'
    BY <2>1, <2>2 DEF BalancersInv
  <2>4. ListenersInv' /\ TargetsInv'
    BY <1>1 DEF ListenersInv, TargetsInv
  <2> QED BY <2>3, <2>4
<1>4. job' \in Job
  BY <1>0, <1>1 DEF Job, Dooming
<1>5. /\ job'.pc = "doomed" /\ job'.ok = job.ok /\ job'.recorded = job.recorded
      /\ job'.wants = job.wants /\ job'.then = job.then /\ job'.tgs = job.tgs
      /\ job'.managed = job.managed /\ job'.status = job.status
      /\ job'.doomed = job.doomed \ {job.lb} /\ job'.ports = job.ports
  BY <1>0, <1>1 DEF Job
<1>6. JobOK(job')
  <2>1. IsFiniteSet(job.doomed \ {job.lb})
    BY <1>0, FS_RemoveElement DEF JobOK
  <2> QED BY <1>0, <1>4, <1>5, <2>1 DEF JobOK
<1>7. job'.pc \in Dooming /\ job.pc \in Dooming
  BY <1>1, <1>5 DEF Dooming
<1>8. (job.then = "patch" => StaleOK') /\ DeleteInv'
  BY <1>1, <1>5, <1>7, DoomedKeeps
<1> QED
  BY <1>1, <1>2, <1>5, <1>6, <1>8
  DEF ControlInv, ServeInv, DoneInv, StaleInv, Exposing, Dooming, Deleting

LEMMA DeleteMachinesStep == BalancerInv /\ DeleteMachines => AwsInv' /\ JobInv'
<1> SUFFICES ASSUME BalancerInv, DeleteMachines PROVE AwsInv' /\ JobInv'
  OBVIOUS
<1> USE DEF BalancerInv, AwsInv, JobInv
<1>0. JobOK(job) /\ job \in Job
  BY DEF JobOK
<1>1. /\ job.pc = "deleteMachines" /\ asg' = FALSE /\ attached' = {}
      /\ job' = [job EXCEPT !.pc = "finalizer"]
      /\ UNCHANGED <<balancers, listeners, targetGroups>>
  BY DEF DeleteMachines, elb
<1>2. AwsInv'
  BY <1>1, FS_EmptySet DEF BalancersInv, ListenersInv, TargetsInv
<1>4. job' \in Job
  BY <1>0, <1>1 DEF Job, Deleting
<1>5. /\ job'.pc = "finalizer" /\ job'.ok = job.ok /\ job'.recorded = job.recorded
      /\ job'.wants = job.wants /\ job'.then = job.then /\ job'.tgs = job.tgs
      /\ job'.managed = job.managed /\ job'.status = job.status
      /\ job'.doomed = job.doomed /\ job'.ports = job.ports
  BY <1>0, <1>1 DEF Job
<1>6. JobOK(job')
  BY <1>0, <1>4, <1>5 DEF JobOK
<1> QED
  BY <1>1, <1>2, <1>5, <1>6
  DEF ControlInv, ServeInv, DoneInv, StaleInv, DeleteInv, Exposing, Dooming, Deleting

-----------------------------------------------------------------------------
(* The invariant                                                           *)

LEMMA InitBalancerInv == Init => BalancerInv
<1> SUFFICES ASSUME Init PROVE BalancerInv
  OBVIOUS
<1>0. IsFiniteSet({})
  BY FS_EmptySet
<1>1. group \in Group /\ group.recorded = {} /\ ports \in Ports
  BY BalancerAssumption DEF Init, Group, Ports
<1>2. ServerInv
  BY <1>0, <1>1, BalancerAssumption DEF Init, ServerInv
<1>3. AwsInv
  BY <1>0 DEF Init, AwsInv, BalancersInv, ListenersInv, TargetsInv
<1>4. job = Idle /\ job.pc = "idle" /\ job.then = "patch" /\ JobOK(job)
  BY IdleFields, IdleOK DEF Init
<1>5. JobInv
  BY <1>4
  DEF JobInv, ControlInv, ServeInv, DoneInv, StaleInv, DeleteInv, Exposing, Dooming, Deleting
<1> QED BY <1>2, <1>3, <1>5 DEF BalancerInv

LEMMA BalancerInvInductive == BalancerInv /\ [Next]_vars => BalancerInv'
<1> SUFFICES ASSUME BalancerInv, [Next]_vars PROVE BalancerInv'
  OBVIOUS
<1>0. AwsInv /\ JobInv /\ JobOK(job)
  BY DEF BalancerInv, JobInv
<1>1. CASE BeginEnsure
  BY <1>0, <1>1, BeginEnsureStep, SameAws, ServerStep DEF BalancerInv, BeginEnsure
<1>2. CASE BeginDelete
  BY <1>0, <1>2, BeginDeleteStep, SameAws, ServerStep DEF BalancerInv, BeginDelete
<1>3. CASE EnsureMachines
  BY <1>3, EnsureMachinesStep, ServerStep DEF BalancerInv
<1>4. CASE EnsureBalancer
  BY <1>4, EnsureBalancerStep, ServerStep DEF BalancerInv
<1>5. CASE SchemeMismatch
  BY <1>0, <1>5, BecomesFailed, SameAws, ServerStep DEF BalancerInv, SchemeMismatch
<1>6. CASE \E p \in job.ports : CreateTargetGroup(p)
  BY <1>6, CreateTargetGroupStep, ServerStep DEF BalancerInv
<1>7. CASE \E p \in job.ports : EnsureListener(p)
  BY <1>7, EnsureListenerStep, ServerStep DEF BalancerInv
<1>8. CASE \E l \in listeners : DeleteListener(l)
  BY <1>8, DeleteListenerStep, ServerStep DEF BalancerInv
<1>9. CASE \E l \in listeners : DeleteDoomedListener(l)
  BY <1>9, DeleteDoomedListenerStep, ServerStep DEF BalancerInv
<1>10. CASE \E t \in job.tgs : DeleteTargetGroup(t)
  BY <1>10, DeleteTargetGroupStep, ServerStep DEF BalancerInv
<1>11. CASE \E t \in job.tgs : DeleteDoomedTarget(t)
  BY <1>11, DeleteDoomedTargetStep, ServerStep DEF BalancerInv
<1>12. CASE NextBalancer
  BY <1>0, <1>12, NextBalancerStep, SameAws, ServerStep DEF BalancerInv, NextBalancer
<1>13. CASE AttachTargetGroups
  BY <1>13, AttachTargetGroupsStep, ServerStep DEF BalancerInv
<1>14. CASE DetachTargetGroups
  BY <1>14, DetachTargetGroupsStep, ServerStep DEF BalancerInv
<1>15. CASE FindStale
  BY <1>0, <1>15, FindStaleStep, SameAws, ServerStep DEF BalancerInv, FindStale
<1>16. CASE \E arn \in job.doomed : BeginDoomed(arn)
  BY <1>0, <1>16, BeginDoomedStep, SameAws, ServerStep DEF BalancerInv, BeginDoomed
<1>17. CASE \E found \in {{}, job.tgs} : DetachDoomedTargets(found)
  BY <1>17, DetachDoomedTargetsStep, ServerStep DEF BalancerInv
<1>18. CASE DeleteBalancer
  BY <1>18, DeleteBalancerStep, ServerStep DEF BalancerInv
<1>19. CASE DoomedDone
  BY <1>0, <1>19, DoomedDoneStep, SameAws, ServerStep DEF BalancerInv, DoomedDone
<1>20. CASE DeleteMachines
  BY <1>20, DeleteMachinesStep, ServerStep DEF BalancerInv
<1>21. CASE PatchStatus \/ RemoveFinalizer \/ Crash
  BY <1>0, <1>21, BecomesIdle, SameAws, ServerStep
  DEF BalancerInv, PatchStatus, RemoveFinalizer, Crash, Fail
<1>22. CASE ApiError
  BY <1>0, <1>22, BecomesFailed, SameAws, ServerStep DEF BalancerInv, ApiError, Fail
<1>23. CASE User \/ SyncGroup \/ SyncPorts \/ UNCHANGED vars
  <2>1. UNCHANGED <<elb, machines, job>>
    BY <1>23
    DEF User, EditExposure, EditPorts, DeleteGroup, Edit, SyncGroup, SyncPorts, vars, elb,
        machines
  <2> QED BY <1>0, <2>1, SameAws, SameJob, ServerStep DEF BalancerInv
<1> QED
  BY <1>1, <1>2, <1>3, <1>4, <1>5, <1>6, <1>7, <1>8, <1>9, <1>10, <1>11, <1>12, <1>13,
     <1>14, <1>15, <1>16, <1>17, <1>18, <1>19, <1>20, <1>21, <1>22, <1>23
  DEF Next, Operator

\* The inductive invariant of the load balancers.
THEOREM AlwaysBalancerInv == Spec => []BalancerInv
BY InitBalancerInv, BalancerInvInductive, PTL DEF Spec

-----------------------------------------------------------------------------
(* What it shows                                                           *)

\* Names, ports and ARNs stay what they are, a listener belongs to a load
\* balancer that exists, and only an Auto Scaling group that exists has target
\* groups attached (the types of aws/manager.go).
THEOREM AlwaysTypeOK == Spec => []TypeOK
<1>1. /\ \A a \in Arn : IsBalancer(a)
      /\ \A r \in Entry : r[1] \in EntryNames /\ IsBalancer(r[2])
  <2>1. \A a \in Arn : IsBalancer(a)
    BY DEF Arn, IsBalancer
  <2>2. \A r \in Entry : r[1] \in EntryNames /\ r[2] \in Arn
    BY DEF Entry
  <2> QED BY <2>1, <2>2
<1>2. \A t \in Target : IsTarget(t)
  BY DEF Target, Port, IsTarget
<1>3. BalancerInv => TypeOK
  <2> SUFFICES ASSUME BalancerInv PROVE TypeOK
    OBVIOUS
  <2> USE DEF BalancerInv, AwsInv, JobInv
  <2>1. /\ group.exposure \in Exposures /\ group.deleting \in BOOLEAN
        /\ group.recorded \in SUBSET Entry
        /\ ports \in [numbers : PortSets, tcp : BOOLEAN]
        /\ edits \in 0 .. MaxEdits /\ fails \in 0 .. MaxFails
    BY DEF ServerInv, Group, Ports
  <2>2. /\ job.recorded \in SUBSET Entry /\ job.doomed \in SUBSET Arn
        /\ job.status \in SUBSET Entry
        /\ job.tgs \in SUBSET Target /\ job.managed \in SUBSET Target
    BY DEF JobOK, Job
  <2>3. \A b \in balancers : IsBalancer(b.arn) /\ b.scheme \in Scopes
    BY <1>1 DEF BalancersInv
  <2>4. \A l \in listeners : /\ l.lb \in {b.arn : b \in balancers}
                             /\ l.port \in UNION PortSets /\ IsTarget(l.tg)
    BY <1>2 DEF ListenersInv, Port
  <2>5. \A t \in targetGroups \cup attached \cup job.tgs \cup job.managed : IsTarget(t)
    BY <1>2, <2>2 DEF TargetsInv
  <2>6. asg \in BOOLEAN /\ (attached # {} => asg)
    BY DEF TargetsInv
  <2>7. /\ \A r \in group.recorded \cup job.recorded \cup job.status :
              r[1] \in EntryNames /\ IsBalancer(r[2])
        /\ \A a \in job.doomed : IsBalancer(a)
    BY <1>1, <2>1, <2>2
  <2> QED BY <2>1, <2>3, <2>4, <2>5, <2>6, <2>7 DEF TypeOK
<1> QED BY <1>3, AlwaysBalancerInv, PTL

\* The listeners of the load balancer of a name.
LEMMA ListenersOfNamed ==
    ASSUME AwsInv, NEW b \in balancers
    PROVE  ListenersOf(b.arn) = At(listeners, b.arn[1])
BY DEF AwsInv, BalancersInv, ListenersInv, ListenersOf, At

\* The entries whose load balancers are not deleted are those not renamed.
LEMMA KeptOrRenamed == \A w : Kept(w) <=> ~Renamed(w)
BY DEF Kept, Renamed, Stale, StaleEntries, Arns

\* When EnsureMachineGroup succeeds, every load balancer it was asked for has
\* its scheme, serves every allocated port and listens on no other, unless the
\* entry was renamed and AWS knows the old and the new entry by one name; the
\* new status lists those that exist, and none exists that the status it read
\* has under the name of an entry that is gone.
THEOREM AlwaysEnsuredMeansExposed == Spec => []EnsuredMeansExposed
<1>1. BalancerInv => EnsuredMeansExposed
  <2> SUFFICES ASSUME BalancerInv, job.pc = "patch", job.ok PROVE EnsuredMeansExposed
    BY DEF EnsuredMeansExposed
  <2> USE DEF BalancerInv, AwsInv, JobInv
  <2>1. job.then = "patch" /\ job.doomed = {} /\ StaleOK
    BY DEF ControlInv, StaleInv
  <2>2. ASSUME NEW w \in job.wants, Kept(w)
        PROVE  Exposed(w, job.ports)
    <3>0. /\ Schemed(balancers, w)
          /\ Listens(balancers, listeners, job.ports, Cloud(w))
          /\ Forwards(listeners, attached, Cloud(w))
      BY <2>1, <2>2 DEF StaleOK
    <3>1. PICK b \in balancers : b.arn[1] = Cloud(w) /\ b.scheme = w.scope
      BY <3>0 DEF Schemed
    <3>2. ListenersOf(b.arn) = At(listeners, Cloud(w)) /\ b \in Named(Cloud(w))
      BY <3>1, ListenersOfNamed DEF Named
    <3>3. {l.port : l \in ListenersOf(b.arn)} = job.ports
      BY <3>0, <3>2 DEF Listens
    <3>4. ASSUME NEW p \in job.ports PROVE Serving(Cloud(w), p)
      <4>1. PICK l \in ListenersOf(b.arn) : l.port = p
        BY <3>3
      <4>2. l.tg \in attached /\ l.tg \in targetGroups /\ l.tg[2] = p
        BY <3>0, <3>2, <4>1 DEF Forwards, At, ListenersInv
      <4> QED BY <3>2, <4>1, <4>2 DEF Serving
    <3> QED BY <3>1, <3>2, <3>3, <3>4 DEF Exposed
  <2>3. \A w \in job.wants : Exposed(w, job.ports) \/ Renamed(w)
    BY <2>2, KeptOrRenamed
  <2>4. \A w \in job.wants : \A b \in Named(Cloud(w)) : <<w.name, b.arn>> \in job.status
    BY <2>1 DEF StaleOK, Named
  <2>5. \A b \in balancers : b.arn \notin Arns(StaleEntries)
    BY <2>1, StaleType DEF StaleOK
  <2> QED BY <2>3, <2>4, <2>5 DEF EnsuredMeansExposed
<1> QED BY <1>1, AlwaysBalancerInv, PTL

\* When the finalizer is about to go, there is no Auto Scaling group, and no
\* load balancer that the spec or the status of the group names, if it was these
\* that the deletion had read.
THEOREM AlwaysDeletedMeansGone == Spec => []DeletedMeansGone
<1>1. BalancerInv => DeletedMeansGone
  <2> SUFFICES ASSUME BalancerInv, job.pc = "finalizer" PROVE DeletedMeansGone
    BY DEF DeletedMeansGone
  <2>1. ~asg /\ \A b \in balancers : /\ b.arn \notin Arns(job.recorded)
                                     /\ b.arn[1] \notin Clouds(job.wants)
    BY DEF BalancerInv, JobInv, ControlInv, StaleInv, DeleteInv, Deleting
  <2>2. \A b \in balancers : b \notin NamedBy(job.wants)
    BY <2>1 DEF NamedBy, Named, Clouds
  <2> QED BY <2>1, <2>2 DEF DeletedMeansGone, ReadCurrent
<1> QED BY <1>1, AlwaysBalancerInv, PTL

-----------------------------------------------------------------------------
(* What is served stays served                                             *)

\* A listener of load balancer n for port p, among ls, forwards to one of as.
Reaches(ls, as, n, p) == \E l \in ls : l.lb[1] = n /\ l.port = p /\ l.tg \in as

LEMMA ServingReaches ==
    ASSUME NEW n, NEW p
    PROVE  /\ AwsInv => (Serving(n, p) <=> Reaches(listeners, attached, n, p))
           /\ AwsInv' => (Serving(n, p)' <=> Reaches(listeners', attached', n, p))
<1>1. ASSUME AwsInv PROVE Serving(n, p) <=> Reaches(listeners, attached, n, p)
  BY <1>1 DEF AwsInv, ListenersInv, Serving, Named, ListenersOf, Reaches
<1>2. ASSUME AwsInv' PROVE Serving(n, p)' <=> Reaches(listeners', attached', n, p)
  BY <1>2 DEF AwsInv, ListenersInv, Serving, Named, ListenersOf, Reaches
<1> QED BY <1>1, <1>2

\* A port that is served already has the listener ensureListener wants: the
\* load balancer has one target group for a port, so none is replaced by another.
LEMMA EnsureListenerKeeps ==
    ASSUME BalancerInv, NEW q \in job.ports, EnsureListener(q),
           NEW n, NEW p, Reaches(listeners, attached, n, p)
    PROVE  Reaches(listeners', attached', n, p)
<1> USE DEF BalancerInv, AwsInv, JobInv
<1>1. PICK l \in listeners : l.lb[1] = n /\ l.port = p /\ l.tg \in attached
  BY DEF Reaches
<1>2. /\ job.pc = "serve" /\ Untargeted = {} /\ UNCHANGED attached
      /\ \A m \in listeners : ~(m.lb = job.lb /\ m.port = q) => m \in listeners'
      /\ ListenerFor(q) \notin listeners
  BY DEF EnsureListener, machines, Unserved
<1>3. ASSUME l.lb = job.lb, l.port = q PROVE FALSE
  <2>1. l.tg \in job.tgs /\ l.tg[2] = q
    BY <1>2, <1>3 DEF ServeInv, Associated, ListenersOf, ListenersInv
  <2>2. /\ ListenerFor(q).lb = job.lb /\ ListenerFor(q).port = q
        /\ ListenerFor(q).tg \in job.tgs /\ ListenerFor(q).tg[2] = q
        /\ ListenerFor(q) \in [lb : Arn, port : Port, tg : Target]
    BY <1>2, ListenerForFacts
  <2>3. ListenerFor(q).tg = l.tg
    BY <1>2, <2>1, <2>2 DEF ServeInv
  <2>4. l \in [lb : Arn, port : Port, tg : Target]
    BY DEF ListenersInv
  <2>5. ListenerFor(q) = l
    BY <1>3, <2>2, <2>3, <2>4
  <2> QED BY <1>2, <2>5
<1>4. l \in listeners'
  BY <1>2, <1>3
<1> QED BY <1>1, <1>2, <1>4 DEF Reaches

\* What a deletion of stale load balancers takes away belongs to none wanted.
LEMMA DoomedNotWanted ==
    ASSUME BalancerInv, job.pc \in {"unlisten", "untarget"},
           NEW w \in job.wants, Kept(w), NEW p \in job.ports
    PROVE  job.lb[1] # Cloud(w)
<1>1. job.then = "patch"
  BY DEF BalancerInv, JobInv, ControlInv, JobOK, Job
<1> QED BY <1>1, DoomedNotKept

LEMMA StepKeepsServing ==
    ASSUME BalancerInv, Next, NEW w \in job.wants, Kept(w), NEW p \in job.ports,
           Reaches(listeners, attached, Cloud(w), p)
    PROVE  Reaches(listeners', attached', Cloud(w), p)
<1>0. PICK l \in listeners : l.lb[1] = Cloud(w) /\ l.port = p /\ l.tg \in attached
  BY DEF Reaches
<1>1. SUFFICES ASSUME ~(l \in listeners' /\ l.tg \in attached'),
                      ~(\E q \in job.ports : EnsureListener(q))
               PROVE  FALSE
  BY <1>0, EnsureListenerKeeps DEF Reaches
<1>2. CASE UNCHANGED <<listeners, attached>>
  BY <1>0, <1>1, <1>2
<1>3. CASE \E m \in listeners : DeleteListener(m)
  BY <1>0, <1>1, <1>3 DEF DeleteListener, UnwantedListeners, machines
<1>4. CASE \E m \in listeners : DeleteDoomedListener(m)
  BY <1>0, <1>1, <1>4, DoomedNotWanted DEF DeleteDoomedListener, ListenersOf, machines
<1>5. CASE AttachTargetGroups
  BY <1>0, <1>1, <1>5 DEF AttachTargetGroups, elb
<1>6. CASE DetachTargetGroups
  <2>1. l.tg \in Desired
    BY <1>0, <1>6, ForwardsToDesired DEF DetachTargetGroups, At, Clouds
  <2> QED BY <1>0, <1>1, <1>6, <2>1 DEF DetachTargetGroups, elb
<1>7. CASE \E found \in {{}, job.tgs} : DetachDoomedTargets(found)
  <2>1. PICK found \in {{}, job.tgs} : DetachDoomedTargets(found)
    BY <1>7
  <2>2. job.pc = "unlisten" /\ attached' = attached \ found /\ UNCHANGED listeners
    BY <2>1 DEF DetachDoomedTargets, elb
  <2>3. \A t \in found, m \in listeners : m.tg = t => m.lb = job.lb
    BY <2>2 DEF BalancerInv, JobInv, StaleInv
  <2> QED BY <1>0, <1>1, <2>2, <2>3, DoomedNotWanted
<1>8. CASE DeleteBalancer
  BY <1>0, <1>1, <1>8, DoomedNotWanted DEF DeleteBalancer, ListenersOf, machines
<1>9. CASE DeleteMachines
  BY <1>9 DEF DeleteMachines, BalancerInv, JobInv, ControlInv, Deleting
<1> QED
  BY <1>1, <1>2, <1>3, <1>4, <1>5, <1>6, <1>7, <1>8, <1>9
  DEF Next, Operator, User, EditExposure, EditPorts, DeleteGroup, Edit, SyncGroup, SyncPorts,
      ApiError, Crash, Fail, BeginEnsure, BeginDelete, EnsureMachines, EnsureBalancer,
      SchemeMismatch, CreateTargetGroup, DeleteTargetGroup, DeleteDoomedTarget, NextBalancer,
      FindStale, BeginDoomed, DoomedDone, PatchStatus, RemoveFinalizer, elb, machines

\* A port that is served and that the running reconcile wants stays served
\* through all of its steps, failures and restarts included: neither the work
\* on one port or load balancer nor the deletion of a stale one interrupts
\* another, unless the entry was renamed and AWS knows the old and the new one
\* by one name (aws/manager.go, EnsureMachineGroup).
THEOREM WantedStaysServed == Spec => KeepsServing
<1> DEFINE A == \A w \in job.wants, p \in job.ports :
                    Serving(Cloud(w), p) => Serving(Cloud(w), p)' \/ Renamed(w)
<1>1. BalancerInv /\ [Next]_vars => [A]_vars
  <2> SUFFICES ASSUME BalancerInv, Next PROVE A
    OBVIOUS
  <2>1. BalancerInv'
    BY BalancerInvInductive
  <2>2. AwsInv /\ AwsInv'
    BY <2>1 DEF BalancerInv
  <2> SUFFICES ASSUME NEW w \in job.wants, NEW p \in job.ports, Serving(Cloud(w), p),
                      Kept(w)
               PROVE  Serving(Cloud(w), p)'
    BY KeptOrRenamed
  <2>3. Reaches(listeners, attached, Cloud(w), p)
    BY <2>2, ServingReaches
  <2>4. Reaches(listeners', attached', Cloud(w), p)
    BY <2>3, StepKeepsServing
  <2> QED BY <2>2, <2>4, ServingReaches
<1> QED BY <1>1, AlwaysBalancerInv, PTL DEF KeepsServing, Spec

=============================================================================
