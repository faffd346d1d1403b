-------------------- MODULE MachineGroupControllerProofs --------------------
(***************************************************************************)
(* The finalizer protects the cloud resources: Spec => []MachinesGuarded   *)
(* for any number of objects, edits, failures and restarts.                *)
(***************************************************************************)
EXTENDS MachineGroupController, TLAPS

-----------------------------------------------------------------------------
(* The inductive invariant                                                 *)

\* In use: the controller may create machines for it.
InUse(g) == g.alive /\ ~g.deleting /\ g.finalizer

\* Deleted by the user and kept by the API server.
Dying(g) == g.alive /\ g.deleting

GroupFields == {"alive", "deleting", "finalizer", "gen", "spec", "observed",
                "alloc", "resolved", "cloud", "ready", "machines"}

\* The part of a group's type that the argument needs.
IsGroup(g) ==
    /\ g = [f \in GroupFields |-> g[f]]
    /\ g.alive \in BOOLEAN /\ g.deleting \in BOOLEAN /\ g.finalizer \in BOOLEAN
    /\ g.spec \in Specs

Shapes ==
    /\ IsGroup(group) /\ IsGroup(groupCache)
    /\ machines \in BOOLEAN
    /\ pc = "delete" => seen.group.spec \in Specs
    /\ pc = "delete" => seen.group.spec.provider # "unsupported"

\* A copy that shows the group in use is not contradicted by the server: the
\* finalizer is only taken off by a reconcile that read a dying group, and the
\* cache never goes back behind that.
CacheInv ==
    /\ InUse(groupCache) => group.alive /\ group.finalizer
    /\ Dying(groupCache) => ~InUse(group)
    /\ pc = "addFinalizer" /\ Dying(groupCache) => Dying(group)

\* What the calls of a running reconcile rely on.
CallInv ==
    /\ pc = "ensure" => group.alive /\ group.finalizer
    /\ pc \in {"delete", "removeFinalizer"} => ~InUse(group) /\ ~InUse(groupCache)
    /\ pc = "removeFinalizer" => ~machines

GuardInv == Shapes /\ CacheInv /\ CallInv /\ MachinesGuarded

-----------------------------------------------------------------------------
(* Steps that do not concern the finalizer                                 *)

SameFlags(g, h) ==
    /\ h.alive = g.alive /\ h.deleting = g.deleting /\ h.finalizer = g.finalizer

\* The calls for which the invariant asks nothing.
Harmless == {"idle", "patchGroup", "patchObjects", "fail"}

\* A step that leaves the flags of the group, the cache and the machines as
\* they are, and does not start a call that matters, keeps the invariant.
LEMMA QuietStep ==
    ASSUME GuardInv, IsGroup(group'), SameFlags(group, group'),
           groupCache' = groupCache, machines' = machines,
           (pc' = pc /\ seen' = seen) \/ pc' \in Harmless
    PROVE  GuardInv'
<1>1. Shapes'
  BY DEF GuardInv, Shapes, Harmless, IsGroup
<1>2. CacheInv'
  BY DEF GuardInv, Shapes, CacheInv, SameFlags, Harmless, InUse, Dying, IsGroup
<1>3. CallInv'
  BY DEF GuardInv, Shapes, CallInv, SameFlags, Harmless, InUse, Dying, IsGroup
<1>4. MachinesGuarded'
  BY DEF GuardInv, MachinesGuarded, SameFlags
<1>. QED  BY <1>1, <1>2, <1>3, <1>4 DEF GuardInv

\* What the updates of a group's record do to the fields the argument uses.
LEMMA FinalizerField ==
    ASSUME NEW g, IsGroup(g), NEW b \in BOOLEAN
    PROVE  LET h == [g EXCEPT !.finalizer = b] IN
           /\ IsGroup(h)
           /\ h.alive = g.alive /\ h.deleting = g.deleting /\ h.finalizer = b
BY DEF IsGroup, GroupFields

LEMMA NewGroupFields ==
    ASSUME NEW spec \in Specs, NEW gen
    PROVE  LET h == NewGroup(spec, gen) IN
           /\ IsGroup(h)
           /\ h.alive = TRUE /\ h.deleting = FALSE /\ h.finalizer = FALSE
BY DEF IsGroup, GroupFields, NewGroup

LEMMA SpecField ==
    ASSUME NEW g, IsGroup(g), NEW spec \in Specs, NEW gen
    PROVE  LET h == [g EXCEPT !.spec = spec, !.gen = gen] IN
           /\ IsGroup(h) /\ SameFlags(g, h)
BY DEF IsGroup, GroupFields, SameFlags

\* The status patch and the error condition write status fields only.
LEMMA StatusPatch ==
    ASSUME IsGroup(group), PatchGroup \/ MarkError
    PROVE  IsGroup(group') /\ SameFlags(group, group')
<1>1. CASE PatchGroup
  BY <1>1 DEF PatchGroup, IsGroup, GroupFields, SameFlags
<1>2. CASE MarkError
  BY <1>2 DEF MarkError, IsGroup, GroupFields, SameFlags
<1>. QED  BY <1>1, <1>2

LEMMA HeartbeatField ==
    ASSUME IsGroup(group), NEW m \in Machine, Heartbeat(m)
    PROVE  IsGroup(group') /\ SameFlags(group, group')
BY DEF Heartbeat, IsGroup, GroupFields, SameFlags

-----------------------------------------------------------------------------
(* Users, informers, reconciles and failures keep the invariant            *)

LEMMA InitGuardInv == Init => GuardInv
<1>. SUFFICES ASSUME Init PROVE GuardInv
  OBVIOUS
<1>. /\ group = NewGroup(InitialSpec, 1) /\ groupCache = group
     /\ pc = "idle" /\ machines = FALSE
  BY DEF Init
<1>. InitialSpec \in Specs
  BY ControllerAssumption
<1>. QED
  BY NewGroupFields
  DEF GuardInv, Shapes, CacheInv, CallInv, MachinesGuarded, InUse, Dying

LEMMA UserGuardInv == GuardInv /\ UserNext => GuardInv'
<1>. SUFFICES ASSUME GuardInv, UserNext PROVE GuardInv'
  OBVIOUS
<1>g. IsGroup(group) /\ IsGroup(groupCache)
  BY DEF GuardInv, Shapes
<1>. SameFlags(group, group)
  BY DEF SameFlags
<1>1. ASSUME NEW u \in PortUID, NEW p \in Pins, CreatePort(u, p) PROVE GuardInv'
  BY <1>1, <1>g, QuietStep DEF CreatePort, UserEdit, caches, local, cloud
<1>2. ASSUME NEW u \in PortUID, NEW p \in Pins, EditPort(u, p) PROVE GuardInv'
  BY <1>2, <1>g, QuietStep DEF EditPort, UserEdit, caches, local, cloud
<1>3. ASSUME NEW u \in PortUID, DeletePort(u) PROVE GuardInv'
  BY <1>3, <1>g, QuietStep DEF DeletePort, UserEdit, caches, local, cloud
<1>4. ASSUME NEW l \in LinkUID, NEW t \in Targets, CreateLink(l, t) PROVE GuardInv'
  BY <1>4, <1>g, QuietStep DEF CreateLink, UserEdit, caches, local, cloud
<1>5. ASSUME NEW l \in LinkUID, NEW t \in Targets, NEW b \in BOOLEAN, EditLink(l, t, b)
      PROVE  GuardInv'
  BY <1>5, <1>g, QuietStep DEF EditLink, UserEdit, caches, local, cloud
<1>6. ASSUME NEW l \in LinkUID, DeleteLink(l) PROVE GuardInv'
  BY <1>6, <1>g, QuietStep DEF DeleteLink, UserEdit, caches, local, cloud
<1>7. ASSUME NEW s \in Specs, EditSpec(s) PROVE GuardInv'
  <2>1. IsGroup(group') /\ SameFlags(group, group')
    BY <1>7, <1>g, SpecField DEF EditSpec
  <2>. QED
    BY <1>7, <2>1, QuietStep DEF EditSpec, UserEdit, caches, local, cloud
<1>8. ASSUME NEW s \in Specs, CreateGroup(s) PROVE GuardInv'
  <2>1. /\ IsGroup(group') /\ group'.alive = TRUE
        /\ group'.deleting = FALSE /\ group'.finalizer = FALSE
    BY <1>8, NewGroupFields DEF CreateGroup
  <2>2. /\ UNCHANGED <<groupCache, pc, seen, machines>>
        /\ ~group.alive
    BY <1>8 DEF CreateGroup, UserEdit, caches, local, cloud
  <2>. QED
    BY <2>1, <2>2, <1>g
    DEF GuardInv, Shapes, CacheInv, CallInv, MachinesGuarded, InUse, Dying, IsGroup
<1>9. ASSUME DeleteGroup PROVE GuardInv'
  <2>1. /\ UNCHANGED <<groupCache, pc, seen, machines>>
        /\ group.alive /\ ~group.deleting
    BY <1>9 DEF DeleteGroup, UserEdit, caches, local, cloud
  <2>2. /\ IsGroup(group')
        /\ group'.finalizer = group.finalizer
        /\ IF group.finalizer THEN Dying(group') ELSE ~group'.alive
    BY <1>9, <1>g, <2>1 DEF DeleteGroup, IsGroup, GroupFields, Dying
  <2>. QED
    BY <2>1, <2>2, <1>g
    DEF GuardInv, Shapes, CacheInv, CallInv, MachinesGuarded, InUse, Dying, IsGroup
<1>10. ASSUME NEW m \in Machine, Heartbeat(m) PROVE GuardInv'
  <2>1. IsGroup(group') /\ SameFlags(group, group')
    BY <1>10, <1>g, HeartbeatField
  <2>. QED
    BY <1>10, <2>1, QuietStep DEF Heartbeat, UserEdit, caches, local, cloud
<1>11. ASSUME Tick PROVE GuardInv'
  BY <1>11, <1>g, QuietStep DEF Tick, server, caches, local, cloud
<1>. QED
  BY <1>1, <1>2, <1>3, <1>4, <1>5, <1>6, <1>7, <1>8, <1>9, <1>10, <1>11 DEF UserNext

\* An informer hands over the server's group, or another kind of object.
LEMMA SyncGuardInv == GuardInv /\ SyncNext => GuardInv'
<1>. SUFFICES ASSUME GuardInv, SyncNext PROVE GuardInv'
  OBVIOUS
<1>g. IsGroup(group) /\ IsGroup(groupCache)
  BY DEF GuardInv, Shapes
<1>. SameFlags(group, group)
  BY DEF SameFlags
<1>1. CASE SyncGroup
  BY <1>1, <1>g
  DEF SyncGroup, server, local, cloud, GuardInv, Shapes, CacheInv, CallInv,
      MachinesGuarded, InUse, Dying, IsGroup
<1>2. CASE SyncPorts
  BY <1>2, <1>g, QuietStep DEF SyncPorts, server, local, cloud
<1>3. CASE SyncLinks
  BY <1>3, <1>g, QuietStep DEF SyncLinks, server, local, cloud
<1>. QED  BY <1>1, <1>2, <1>3 DEF SyncNext

\* A reconcile begins with what the cache shows.
LEMMA BeginGuardInv == GuardInv /\ BeginNext => GuardInv'
<1>. SUFFICES ASSUME GuardInv, BeginNext PROVE GuardInv'
  OBVIOUS
<1>g. IsGroup(group) /\ IsGroup(groupCache)
  BY DEF GuardInv, Shapes
<1>. SameFlags(group, group)
  BY DEF SameFlags
<1>b. ASSUME NEW call, NEW objects, Begin(call, objects)
      PROVE  /\ UNCHANGED <<group, groupCache, machines>>
             /\ pc' = call /\ seen'.group = groupCache
  BY <1>b DEF Begin, server, caches, cloud
<1>1. CASE BeginNothing
  BY <1>1, <1>g, QuietStep DEF BeginNothing, server, caches, local, cloud
<1>2. CASE BeginAddFinalizer
  BY <1>2, <1>g, <1>b
  DEF BeginAddFinalizer, GuardInv, Shapes, CacheInv, CallInv, MachinesGuarded, Dying, IsGroup
<1>3. CASE BeginDelete
  BY <1>3, <1>g, <1>b
  DEF BeginDelete, Undeletable, GuardInv, Shapes, CacheInv, CallInv, MachinesGuarded, InUse, Dying, IsGroup
<1>4. CASE BeginInvalidSpec
  BY <1>4, <1>g, <1>b, QuietStep DEF BeginInvalidSpec, Harmless
<1>5. CASE BeginNoPorts
  BY <1>5, <1>g, <1>b, QuietStep DEF BeginNoPorts, Harmless
<1>6. CASE BeginEnsure
  BY <1>6, <1>g, <1>b
  DEF BeginEnsure, Validated, GuardInv, Shapes, CacheInv, CallInv, MachinesGuarded,
      InUse, Dying, IsGroup
<1>7. CASE BeginError
  BY <1>7, <1>g, QuietStep DEF BeginError, vars, server, caches, local, cloud
<1>. QED  BY <1>1, <1>2, <1>3, <1>4, <1>5, <1>6, <1>7 DEF BeginNext

\* The calls of a reconcile. DeleteMachineGroup of the aws manager is what
\* makes it safe to take the finalizer off.
LEMMA CallGuardInv ==
    ASSUME \A s \in Specs : s.provider # "noop"
    PROVE  GuardInv /\ StepNext => GuardInv'
<1>. SUFFICES ASSUME GuardInv, StepNext PROVE GuardInv'
  OBVIOUS
<1>g. IsGroup(group) /\ IsGroup(groupCache)
  BY DEF GuardInv, Shapes
<1>. SameFlags(group, group)
  BY DEF SameFlags
<1>1. CASE AddFinalizer
  <2>1. /\ UNCHANGED <<groupCache, machines>>
        /\ pc = "addFinalizer" /\ pc' = "idle"
    BY <1>1 DEF AddFinalizer, End, caches, cloud
  <2>2. /\ IsGroup(group') /\ group'.alive = group.alive
        /\ group'.deleting = group.deleting
        /\ group.finalizer => group'.finalizer
    BY <1>1, <1>g, FinalizerField DEF AddFinalizer
  <2>. QED
    BY <2>1, <2>2, <1>g
    DEF GuardInv, Shapes, CacheInv, CallInv, MachinesGuarded, InUse, Dying, IsGroup
<1>2. CASE DeleteCloud
  <2>1. /\ UNCHANGED <<group, groupCache, seen>>
        /\ pc = "delete" /\ pc' = "removeFinalizer"
    BY <1>2 DEF DeleteCloud, server, caches
  <2>2. seen.group.spec.provider = "aws"
    BY <2>1, ControllerAssumption DEF GuardInv, Shapes, SpecType
  <2>3. machines' = FALSE
    BY <1>2, <2>2 DEF DeleteCloud
  <2>. QED
    BY <2>1, <2>3, <1>g
    DEF GuardInv, Shapes, CacheInv, CallInv, MachinesGuarded, InUse, Dying, IsGroup
<1>3. CASE DeleteCloudError
  <2>1. /\ UNCHANGED <<group, groupCache>> /\ pc' = "idle"
    BY <1>3 DEF DeleteCloudError, End, server, caches
  <2>2. machines' = machines \/ machines' = FALSE
    BY <1>3 DEF DeleteCloudError
  <2>3. CASE machines' = machines
    BY <2>1, <2>3, <1>g, QuietStep DEF Harmless
  <2>4. CASE machines' = FALSE
    BY <2>1, <2>4, <1>g
    DEF GuardInv, Shapes, CacheInv, CallInv, MachinesGuarded, IsGroup
  <2>. QED  BY <2>2, <2>3, <2>4
<1>4. CASE RemoveFinalizer
  <2>1. /\ UNCHANGED <<groupCache, machines>>
        /\ pc = "removeFinalizer" /\ pc' = "idle"
    BY <1>4 DEF RemoveFinalizer, End, caches, cloud
  <2>2. IsGroup(group') /\ group'.finalizer = FALSE
    BY <1>4, <1>g DEF RemoveFinalizer, IsGroup, GroupFields
  <2>3. ~machines /\ ~InUse(groupCache)
    BY <2>1 DEF GuardInv, CallInv
  <2>. QED
    BY <2>1, <2>2, <2>3, <1>g
    DEF GuardInv, Shapes, CacheInv, CallInv, MachinesGuarded, InUse, Dying, IsGroup
<1>5. CASE Ensure \/ EnsureError
  <2>1. /\ UNCHANGED <<group, groupCache>>
        /\ pc = "ensure" /\ pc' = "patchGroup"
    BY <1>5 DEF Ensure, EnsureError, server, caches
  <2>2. machines' \in BOOLEAN
    BY <1>5 DEF Ensure, EnsureError, GuardInv, Shapes
  <2>. QED
    BY <2>1, <2>2, <1>g
    DEF GuardInv, Shapes, CacheInv, CallInv, MachinesGuarded, IsGroup
<1>6. CASE PatchGroup
  <2>1. /\ UNCHANGED <<groupCache, machines>> /\ pc' = "patchObjects"
    BY <1>6 DEF PatchGroup, caches, cloud
  <2>. QED  BY <1>6, <2>1, <1>g, StatusPatch, QuietStep DEF Harmless
<1>7. CASE MarkError
  <2>1. /\ UNCHANGED <<groupCache, machines>> /\ pc' = "idle"
    BY <1>7 DEF MarkError, End, caches, cloud
  <2>. QED  BY <1>7, <2>1, <1>g, StatusPatch, QuietStep DEF Harmless
<1>8. CASE \E u \in PortUID : PatchPort(u) \/ FailPort(u)
  BY <1>8, <1>g, QuietStep DEF PatchPort, FailPort, caches, cloud
<1>9. CASE \E l \in LinkUID : PatchLink(l) \/ FailLink(l)
  BY <1>9, <1>g, QuietStep DEF PatchLink, FailLink, caches, cloud
<1>10. CASE Finish \/ NotFound
  BY <1>10, <1>g, QuietStep DEF Finish, NotFound, End, Harmless, server, caches, cloud
<1>. QED
  BY <1>1, <1>2, <1>3, <1>4, <1>5, <1>6, <1>7, <1>8, <1>9, <1>10 DEF StepNext

\* A failed call ends the reconcile; a restart also lists everything afresh.
LEMMA FailGuardInv == GuardInv /\ FailNext => GuardInv'
<1>. SUFFICES ASSUME GuardInv, FailNext PROVE GuardInv'
  OBVIOUS
<1>g. IsGroup(group) /\ IsGroup(groupCache)
  BY DEF GuardInv, Shapes
<1>. SameFlags(group, group)
  BY DEF SameFlags
<1>1. CASE ApiError
  BY <1>1, <1>g, QuietStep DEF ApiError, End, Harmless, server, caches, cloud
<1>2. CASE Restart
  BY <1>2, <1>g
  DEF Restart, server, cloud, GuardInv, Shapes, CacheInv, CallInv,
      MachinesGuarded, InUse, Dying, IsGroup
<1>. QED  BY <1>1, <1>2 DEF FailNext

-----------------------------------------------------------------------------

LEMMA GuardInvInductive ==
    ASSUME \A s \in Specs : s.provider # "noop"
    PROVE  GuardInv /\ [Next]_vars => GuardInv'
<1>. SUFFICES ASSUME GuardInv, [Next]_vars PROVE GuardInv'
  OBVIOUS
<1>1. CASE Next
  BY <1>1, UserGuardInv, SyncGuardInv, BeginGuardInv, CallGuardInv, FailGuardInv
  DEF Next
<1>2. CASE UNCHANGED vars
  <2>1. IsGroup(group') /\ SameFlags(group, group')
    BY <1>2 DEF vars, server, GuardInv, Shapes, SameFlags
  <2>. QED
    BY <1>2, <2>1, QuietStep DEF vars, server, caches, local, cloud
<1>. QED  BY <1>1, <1>2

\* MachinesGuarded: as long as there are machines in the cloud, the
\* TiProxyMachineGroup exists and has the finalizer of machinegroup_controller.go,
\* so deleting it will run DeleteMachineGroup. For every number of objects,
\* users' changes, failed calls and restarts, and caches that lag by any amount;
\* for groups whose provider is never the noop manager, which deletes nothing.
THEOREM FinalizerGuards ==
    ASSUME \A s \in Specs : s.provider # "noop"
    PROVE  Spec => []MachinesGuarded
<1>1. Init => GuardInv
  BY InitGuardInv
<1>2. GuardInv /\ [Next]_vars => GuardInv'
  BY GuardInvInductive
<1>3. GuardInv => MachinesGuarded
  BY DEF GuardInv
<1>. QED  BY <1>1, <1>2, <1>3, PTL DEF Spec

-----------------------------------------------------------------------------
(* The controller implements GroupLifecycle                                *)

\* A step that changes neither the flags of the group nor the machines is a
\* stuttering step of the life cycle.
LEMMA QuietLifecycle ==
    ASSUME SameFlags(group, group'), machines' = machines
    PROVE  [Lifecycle!Next]_(Lifecycle!vars)
<1>1. Phase' = Phase
  BY DEF Phase, SameFlags
<1>. QED  BY <1>1 DEF Lifecycle!vars

LEMMA UserLifecycle == GuardInv /\ UserNext => [Lifecycle!Next]_(Lifecycle!vars)
<1>. SUFFICES ASSUME GuardInv, UserNext PROVE [Lifecycle!Next]_(Lifecycle!vars)
  OBVIOUS
<1>g. IsGroup(group) /\ SameFlags(group, group)
  BY DEF GuardInv, Shapes, SameFlags
<1>1. ASSUME NEW s \in Specs, EditSpec(s) PROVE [Lifecycle!Next]_(Lifecycle!vars)
  BY <1>1, <1>g, SpecField, QuietLifecycle DEF EditSpec, UserEdit, cloud
<1>2. ASSUME NEW m \in Machine, Heartbeat(m) PROVE [Lifecycle!Next]_(Lifecycle!vars)
  BY <1>2, <1>g, HeartbeatField, QuietLifecycle DEF Heartbeat, UserEdit, cloud
<1>3. ASSUME NEW s \in Specs, CreateGroup(s) PROVE Lifecycle!Create
  <2>1. Phase = "absent" /\ machines' = machines
    BY <1>3 DEF CreateGroup, UserEdit, cloud, Phase
  <2>2. Phase' = "new"
    BY <1>3, NewGroupFields DEF CreateGroup, Phase
  <2>. QED  BY <2>1, <2>2 DEF Lifecycle!Create
<1>4. ASSUME DeleteGroup PROVE Lifecycle!Delete
  <2>1. machines' = machines /\ group.alive /\ ~group.deleting
    BY <1>4 DEF DeleteGroup, UserEdit, cloud
  <2>2. CASE group.finalizer
    <3>1. group'.alive = group.alive /\ group'.deleting = TRUE
      BY <1>4, <1>g, <2>2 DEF DeleteGroup, IsGroup, GroupFields
    <3>. QED  BY <2>1, <2>2, <3>1 DEF Phase, Lifecycle!Delete
  <2>3. CASE ~group.finalizer
    <3>1. group'.alive = FALSE
      BY <1>4, <1>g, <2>3 DEF DeleteGroup, IsGroup, GroupFields
    <3>. QED  BY <2>1, <2>3, <3>1 DEF Phase, Lifecycle!Delete
  <2>. QED  BY <2>2, <2>3
<1>5. ASSUME UNCHANGED <<group, machines>> PROVE [Lifecycle!Next]_(Lifecycle!vars)
  BY <1>5, <1>g, QuietLifecycle
<1>. QED
  BY <1>1, <1>2, <1>3, <1>4, <1>5
  DEF UserNext, CreatePort, EditPort, DeletePort, CreateLink, EditLink, DeleteLink,
      Tick, UserEdit, server, cloud, Lifecycle!Next

LEMMA CallLifecycle ==
    ASSUME \A s \in Specs : s.provider # "noop"
    PROVE  GuardInv /\ StepNext => [Lifecycle!Next]_(Lifecycle!vars)
<1>. SUFFICES ASSUME GuardInv, StepNext PROVE [Lifecycle!Next]_(Lifecycle!vars)
  OBVIOUS
<1>g. IsGroup(group) /\ SameFlags(group, group)
  BY DEF GuardInv, Shapes, SameFlags
<1>1. CASE AddFinalizer
  <2>1. machines' = machines
    BY <1>1 DEF AddFinalizer, cloud
  <2>2. CASE ~group.alive
    BY <1>1, <1>g, <2>1, <2>2, QuietLifecycle DEF AddFinalizer
  <2>3. CASE group.alive
    <3>1. /\ group'.alive = group.alive /\ group'.deleting = group.deleting
          /\ group'.finalizer = TRUE
      BY <1>1, <1>g, <2>3, FinalizerField DEF AddFinalizer
    <3>. QED
      BY <2>1, <2>3, <3>1 DEF Phase, Lifecycle!Next, Lifecycle!Guard, Lifecycle!vars
  <2>. QED  BY <2>2, <2>3
\* Machines are torn down by a reconcile that read a dying group. By then the
\* group may be gone or made anew, and there are no machines to tear down.
<1>2. CASE DeleteCloud \/ DeleteCloudError
  <2>1. group' = group /\ (machines' = machines \/ machines' = FALSE)
    BY <1>2 DEF DeleteCloud, DeleteCloudError, server
  <2>2. pc = "delete"
    BY <1>2 DEF DeleteCloud, DeleteCloudError
  <2>3. CASE machines
    <3>1. group.alive /\ group.deleting
      BY <2>2, <2>3, <1>g DEF GuardInv, CallInv, MachinesGuarded, InUse, IsGroup
    <3>. QED
      BY <2>1, <3>1 DEF Phase, Lifecycle!Next, Lifecycle!TearDown, Lifecycle!vars
  <2>4. CASE machines' = machines
    BY <2>1, <2>4, <1>g, QuietLifecycle
  <2>. QED  BY <2>1, <2>3, <2>4 DEF GuardInv, Shapes
<1>3. CASE RemoveFinalizer
  <2>1. /\ machines' = machines /\ ~machines
        /\ ~InUse(group)
    BY <1>3 DEF RemoveFinalizer, cloud, GuardInv, CallInv
  <2>2. CASE group.deleting
    <3>1. group'.alive = FALSE
      BY <1>3, <1>g, <2>2 DEF RemoveFinalizer, IsGroup, GroupFields
    <3>. QED
      BY <2>1, <2>2, <3>1 DEF Phase, Lifecycle!Next, Lifecycle!Release, Lifecycle!vars
  <2>3. CASE ~group.deleting
    <3>1. /\ group'.alive = group.alive /\ group'.deleting = group.deleting
          /\ group'.finalizer = FALSE
      BY <1>3, <1>g, <2>3, FinalizerField DEF RemoveFinalizer
    <3>. QED  BY <2>1, <2>3, <3>1 DEF Phase, InUse, Lifecycle!vars
  <2>. QED  BY <2>2, <2>3
<1>4. CASE Ensure \/ EnsureError
  <2>1. group' = group /\ (machines' = machines \/ machines' = TRUE)
    BY <1>4 DEF Ensure, EnsureError, server, GuardInv, Shapes
  <2>2. group.alive /\ group.finalizer
    BY <1>4 DEF Ensure, EnsureError, GuardInv, CallInv
  <2>3. Phase \in {"guarded", "condemned"} /\ Phase' = Phase
    BY <2>1, <2>2 DEF Phase
  <2>. QED
    BY <2>1, <2>3 DEF Lifecycle!Next, Lifecycle!Build, Lifecycle!vars
<1>5. CASE PatchGroup \/ MarkError
  BY <1>5, <1>g, StatusPatch, QuietLifecycle DEF PatchGroup, MarkError, cloud
<1>6. CASE \/ \E u \in PortUID : PatchPort(u) \/ FailPort(u)
           \/ \E l \in LinkUID : PatchLink(l) \/ FailLink(l)
           \/ Finish \/ NotFound
  BY <1>6, <1>g, QuietLifecycle
  DEF PatchPort, FailPort, PatchLink, FailLink, Finish, NotFound, server, cloud
<1>. QED  BY <1>1, <1>2, <1>3, <1>4, <1>5, <1>6 DEF StepNext

\* FollowsLifecycle: seen through the phase of its group and the machines in
\* the cloud, every step of the controller, its informers, users and failures is
\* a step of the life cycle or none: the finalizer is never taken from a group
\* in use, and a late reconcile of a deleted group never touches the machines of
\* one created again under its name.
THEOREM ImplementsLifecycle ==
    ASSUME \A s \in Specs : s.provider # "noop"
    PROVE  Spec => FollowsLifecycle
<1>1. Init => GuardInv /\ Lifecycle!Init
  <2>1. Init => Lifecycle!Init
    <3>. SUFFICES ASSUME Init PROVE Lifecycle!Init
      OBVIOUS
    <3>1. InitialSpec \in Specs
      BY ControllerAssumption
    <3>2. /\ group.alive = TRUE /\ group.deleting = FALSE /\ group.finalizer = FALSE
          /\ machines = FALSE
      BY <3>1, NewGroupFields DEF Init
    <3>. QED  BY <3>2 DEF Phase, Lifecycle!Init
  <2>. QED  BY <2>1, InitGuardInv
<1>2. GuardInv /\ [Next]_vars => GuardInv'
  BY GuardInvInductive
<1>3. GuardInv /\ [Next]_vars => [Lifecycle!Next]_(Lifecycle!vars)
  <2>. SUFFICES ASSUME GuardInv, [Next]_vars PROVE [Lifecycle!Next]_(Lifecycle!vars)
    OBVIOUS
  <2>1. ASSUME UNCHANGED <<group, machines>> PROVE [Lifecycle!Next]_(Lifecycle!vars)
    BY <2>1, QuietLifecycle DEF SameFlags
  <2>2. CASE UserNext \/ StepNext
    BY <2>2, UserLifecycle, CallLifecycle
  <2>3. CASE BeginNext
    BY <2>3, <2>1
    DEF BeginNext, BeginNothing, BeginAddFinalizer, BeginDelete, BeginInvalidSpec,
        BeginNoPorts, BeginEnsure, BeginError, Begin, vars, server, cloud
  <2>4. CASE SyncNext \/ FailNext
    BY <2>4, <2>1
    DEF SyncNext, SyncGroup, SyncPorts, SyncLinks, FailNext, ApiError, Restart,
        server, cloud
  <2>5. CASE UNCHANGED vars
    BY <2>5, <2>1 DEF vars, server, cloud
  <2>. QED  BY <2>2, <2>3, <2>4, <2>5 DEF Next
<1>. QED  BY <1>1, <1>2, <1>3, PTL DEF Spec, FollowsLifecycle, Lifecycle!Spec

=============================================================================
