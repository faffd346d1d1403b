----------------------- MODULE ControllerStatusProofs -----------------------
(***************************************************************************)
(* What the controller writes: the allocations it hands to the cloud       *)
(* manager, the resolved links and the Ready condition, for any number of  *)
(* objects, edits, failures and restarts and for caches that lag by any    *)
(* amount.                                                                 *)
(***************************************************************************)
EXTENDS MachineGroupControllerProofs, PortAllocatorProofs

-----------------------------------------------------------------------------
(* The inductive invariant. A merge patch leaves a field as the server has *)
(* it or as the reconcile computed it from an old copy: what is to hold of *)
(* the server's group must hold of every copy of it, too.                  *)

\* With IsGroup, the type of a group.
FieldsOK(g) ==
    /\ g.gen \in Nat /\ g.observed \in Nat
    /\ IsMap(g.alloc, PortUID, PortNumber)
    /\ IsMap(g.resolved, LinkUID, [port : PortNumber, target : Targets])
    /\ g.cloud \in {"none", "noop", "aws"}
    /\ g.ready.reason \in Reasons /\ g.ready.gen \in Nat
    /\ IsMap(g.machines, Machine, 0 .. MaxNow)

ResolvedOK(g) ==
    \A k, l \in DOMAIN g.resolved : g.resolved[k].port = g.resolved[l].port => k = l

\* gens: the generations EnsureMachineGroup succeeded for.
ReadyOK(g, gens) == g.ready.reason = "Ready" => g.ready.gen \in gens

GroupOK(g, gens) == IsGroup(g) /\ FieldsOK(g) /\ ResolvedOK(g) /\ ReadyOK(g, gens)

PortType == [pin : Pins, assigned : PortNumber,
             phase : {"None", "Allocated", "Ready", "Error"},
             exposed : {"None", "ExposureDisabled", "CloudEnsureFailed",
                        "Ready", "PortAllocationFailed"}]

LinkType == [managed : BOOLEAN, target : Targets, phase : {"None", "Ready", "Error"}]

ObjectsOK(p, l) == PortsTypeOK(p) /\ LinksTypeOK(l) /\ NamesDiffer(DOMAIN l)

ServerOK == GroupOK(group, ensured) /\ ObjectsOK(ports, links)
CachesOK == GroupOK(groupCache, ensured) /\ ObjectsOK(portCache, linkCache)
SeenOK == GroupOK(seen.group, ensured) /\ ObjectsOK(seen.ports, seen.links)

ControlOK ==
    /\ pc \in {"idle", "addFinalizer", "delete", "removeFinalizer", "ensure",
               "patchGroup", "patchObjects", "fail"}
    /\ todo \subseteq DOMAIN seen.ports \cup DOMAIN seen.links
    /\ queued \in BOOLEAN /\ cloudErr \in BOOLEAN /\ machines \in BOOLEAN
    /\ now \in 0 .. MaxNow
    /\ reason \in Reasons \ {"Ready"}

\* What the calls after the allocation rely on.
PlanOK ==
    /\ pc \in {"ensure", "patchGroup", "patchObjects"} =>
          /\ AllocationOK(seen.group, seen.ports)
          /\ seen.group.spec.provider \in {"noop", "aws"}
    /\ pc \in {"patchGroup", "patchObjects"} /\ ~cloudErr => seen.group.gen \in ensured

StatusInv == ServerOK /\ CachesOK /\ SeenOK /\ ControlOK /\ PlanOK

-----------------------------------------------------------------------------
(* Copies                                                                  *)

LEMMA TypeOfGroup ==
    ASSUME NEW g, IsGroup(g), FieldsOK(g)
    PROVE  GroupTypeOK(g)
<1>1. {g.alive, g.deleting, g.finalizer} \subseteq BOOLEAN
  BY Zenon DEF IsGroup
<1>2. g.spec \in Specs
  BY DEF IsGroup
<1>. QED  BY <1>1, <1>2 DEF FieldsOK, GroupTypeOK

\* A success for another generation takes nothing back.
LEMMA GroupOKGrows ==
    ASSUME NEW g, NEW gens, NEW more, GroupOK(g, gens), gens \subseteq more
    PROVE  GroupOK(g, more)
BY DEF GroupOK, ReadyOK

LEMMA NewGroupOK ==
    ASSUME NEW spec \in Specs, NEW gen \in Nat, NEW gens
    PROVE  GroupOK(NewGroup(spec, gen), gens)
<1>. DEFINE g == NewGroup(spec, gen)
<1>1. /\ g.alive = TRUE /\ g.deleting = FALSE /\ g.finalizer = FALSE
      /\ g.gen = gen /\ g.spec = spec /\ g.observed = 0
      /\ g.alloc = EmptyMap /\ g.resolved = EmptyMap /\ g.machines = EmptyMap
      /\ g.cloud = "none" /\ g.ready = NoCondition
      /\ g = [f \in GroupFields |-> g[f]]
  BY DEF NewGroup, GroupFields
<1>2. DOMAIN EmptyMap = {}
  BY DEF EmptyMap
<1>. HIDE DEF g
<1>3. IsGroup(g)
  BY <1>1 DEF IsGroup
<1>4. FieldsOK(g)
  BY <1>1, <1>2 DEF FieldsOK, IsMap, NoCondition, Reasons
<1>5. ResolvedOK(g) /\ ReadyOK(g, gens)
  BY <1>1, <1>2 DEF ResolvedOK, ReadyOK, NoCondition
<1>. QED  BY <1>3, <1>4, <1>5 DEF GroupOK, g

\* Merge patches stay within a type.
LEMMA PatchMapType ==
    ASSUME NEW S, NEW T, NEW map, NEW base, NEW modified,
           IsMap(map, S, T), IsMap(modified, S, T)
    PROVE  IsMap(PatchMap(map, base, modified), S, T)
BY DEF IsMap, PatchMap, Changed

-----------------------------------------------------------------------------
(* The server: users and agents                                            *)

SameStatus(g, h) ==
    /\ h.observed = g.observed /\ h.alloc = g.alloc /\ h.resolved = g.resolved
    /\ h.cloud = g.cloud /\ h.ready = g.ready /\ h.machines = g.machines

\* Writing spec, metadata and nothing of the status keeps the invariant.
LEMMA SameStatusOK ==
    ASSUME NEW g, NEW h, NEW gens, GroupOK(g, gens), IsGroup(h),
           SameStatus(g, h), h.gen \in Nat
    PROVE  GroupOK(h, gens)
BY DEF GroupOK, FieldsOK, ResolvedOK, ReadyOK, SameStatus

LEMMA FlagFields ==
    ASSUME NEW g, IsGroup(g), NEW b \in BOOLEAN
    PROVE  /\ LET h == [g EXCEPT !.finalizer = b] IN
              IsGroup(h) /\ SameStatus(g, h) /\ h.gen = g.gen
           /\ LET h == [g EXCEPT !.deleting = b] IN
              IsGroup(h) /\ SameStatus(g, h) /\ h.gen = g.gen
           /\ LET h == [g EXCEPT !.alive = b] IN
              IsGroup(h) /\ SameStatus(g, h) /\ h.gen = g.gen
           /\ LET h == [g EXCEPT !.finalizer = FALSE, !.alive = FALSE] IN
              IsGroup(h) /\ SameStatus(g, h) /\ h.gen = g.gen
<1>1. LET h == [g EXCEPT !.finalizer = b] IN
      IsGroup(h) /\ SameStatus(g, h) /\ h.gen = g.gen
  BY DEF IsGroup, GroupFields, SameStatus
<1>2. LET h == [g EXCEPT !.deleting = b] IN
      IsGroup(h) /\ SameStatus(g, h) /\ h.gen = g.gen
  BY DEF IsGroup, GroupFields, SameStatus
<1>3. LET h == [g EXCEPT !.alive = b] IN
      IsGroup(h) /\ SameStatus(g, h) /\ h.gen = g.gen
  BY DEF IsGroup, GroupFields, SameStatus
<1>4. LET h == [g EXCEPT !.finalizer = FALSE, !.alive = FALSE] IN
      IsGroup(h) /\ SameStatus(g, h) /\ h.gen = g.gen
  BY DEF IsGroup, GroupFields, SameStatus
<1>. QED  BY <1>1, <1>2, <1>3, <1>4

\* What an idle controller remembers of its last reconcile.
LEMMA NothingOK ==
    ASSUME NEW gens
    PROVE  /\ GroupOK(Nothing.group, gens)
           /\ ObjectsOK(Nothing.ports, Nothing.links)
<1>1. InitialSpec \in Specs /\ 0 \in Nat
  BY ControllerAssumption
<1>2. GroupOK(Nothing.group, gens)
  <2>1. GroupOK(NewGroup(InitialSpec, 0), gens)
    BY <1>1, NewGroupOK
  <2>2. /\ IsGroup(Nothing.group) /\ Nothing.group.gen \in Nat
        /\ SameStatus(NewGroup(InitialSpec, 0), Nothing.group)
    BY <2>1, FlagFields DEF Nothing, GroupOK, FieldsOK
  <2>. QED  BY <2>1, <2>2, SameStatusOK
<1>3. DOMAIN Nothing.ports = {} /\ DOMAIN Nothing.links = {}
  BY DEF Nothing, EmptyMap
<1>4. ObjectsOK(Nothing.ports, Nothing.links)
  BY <1>3 DEF ObjectsOK, PortsTypeOK, LinksTypeOK, IsMap, NamesDiffer
<1>. QED  BY <1>2, <1>4

\* Users: objects appear under free names, and nobody but the controller and the
\* agents writes a status.
LEMMA UserServerOK == StatusInv /\ UserNext => ServerOK'
<1>. SUFFICES ASSUME StatusInv, UserNext PROVE ServerOK'
  OBVIOUS
<1>1. GroupOK(group, ensured) /\ ObjectsOK(ports, links) /\ now \in 0 .. MaxNow
  BY DEF StatusInv, ServerOK, ControlOK
<1>2. ensured' = ensured
  BY DEF UserNext, CreatePort, EditPort, DeletePort, CreateLink, EditLink, DeleteLink,
         EditSpec, CreateGroup, DeleteGroup, Heartbeat, Tick, UserEdit, cloud
<1>3. IsGroup(group) /\ group.gen \in Nat
  BY <1>1 DEF GroupOK, FieldsOK
<1>4. ASSUME NEW u \in PortUID, NEW p \in Pins, CreatePort(u, p) PROVE ServerOK'
  <2>1. NewPort(p) \in PortType
    BY ControllerAssumption DEF NewPort, PortType, PortNumber
  <2>2. PortsTypeOK(ports')
    BY <1>1, <1>4, <2>1 DEF CreatePort, With, ObjectsOK, PortsTypeOK, PortType, IsMap
  <2>. QED  BY <1>1, <1>2, <1>4, <2>2 DEF CreatePort, ServerOK, ObjectsOK
<1>5. ASSUME NEW u \in PortUID, NEW p \in Pins, EditPort(u, p) PROVE ServerOK'
  <2>1. PortsTypeOK(ports')
    BY <1>1, <1>5 DEF EditPort, ObjectsOK, PortsTypeOK, IsMap
  <2>. QED  BY <1>1, <1>2, <1>5, <2>1 DEF EditPort, ServerOK, ObjectsOK
<1>6. ASSUME NEW u \in PortUID, DeletePort(u) PROVE ServerOK'
  <2>1. PortsTypeOK(ports')
    BY <1>1, <1>6 DEF DeletePort, Without, ObjectsOK, PortsTypeOK, IsMap
  <2>. QED  BY <1>1, <1>2, <1>6, <2>1 DEF DeletePort, ServerOK, ObjectsOK
<1>7. ASSUME NEW l \in LinkUID, NEW t \in Targets, CreateLink(l, t) PROVE ServerOK'
  <2>1. NewLink(t) \in LinkType
    BY DEF NewLink, LinkType
  <2>2. links' = With(links, l, NewLink(t)) /\ NameFree(l, links)
    BY <1>7 DEF CreateLink
  <2>3. LinksTypeOK(links')
    BY <1>1, <2>1, <2>2 DEF With, ObjectsOK, LinksTypeOK, LinkType, IsMap
  <2>4. NamesDiffer(DOMAIN links')
    BY <1>1, <2>2 DEF With, NameFree, ObjectsOK, NamesDiffer
  <2>. QED  BY <1>1, <1>2, <1>7, <2>3, <2>4 DEF CreateLink, ServerOK, ObjectsOK
<1>8. ASSUME NEW l \in LinkUID, NEW t \in Targets, NEW b \in BOOLEAN, EditLink(l, t, b)
      PROVE  ServerOK'
  <2>1. DOMAIN links' = DOMAIN links
    BY <1>8 DEF EditLink
  <2>2. LinksTypeOK(links')
    BY <1>1, <1>8 DEF EditLink, ObjectsOK, LinksTypeOK, IsMap
  <2>. QED  BY <1>1, <1>2, <1>8, <2>1, <2>2 DEF EditLink, ServerOK, ObjectsOK, NamesDiffer
<1>9. ASSUME NEW l \in LinkUID, DeleteLink(l) PROVE ServerOK'
  <2>1. LinksTypeOK(links') /\ NamesDiffer(DOMAIN links')
    BY <1>1, <1>9 DEF DeleteLink, Without, ObjectsOK, LinksTypeOK, IsMap, NamesDiffer
  <2>. QED  BY <1>1, <1>2, <1>9, <2>1 DEF DeleteLink, ServerOK, ObjectsOK
<1>10. ASSUME NEW s \in Specs, EditSpec(s) PROVE ServerOK'
  <2>1. group' = [group EXCEPT !.spec = s, !.gen = group.gen + 1]
    BY <1>10 DEF EditSpec
  <2>2. IsGroup(group') /\ SameStatus(group, group') /\ group'.gen = group.gen + 1
    BY <1>3, <2>1 DEF IsGroup, GroupFields, SameStatus
  <2>3. GroupOK(group', ensured)
    BY <1>1, <1>3, <2>2, SameStatusOK
  <2>. QED  BY <1>1, <1>2, <1>10, <2>3 DEF EditSpec, ServerOK
<1>11. ASSUME NEW s \in Specs, CreateGroup(s) PROVE ServerOK'
  <2>1. group.gen + 1 \in Nat /\ group' = NewGroup(s, group.gen + 1)
    BY <1>3, <1>11 DEF CreateGroup
  <2>2. GroupOK(group', ensured)
    BY <2>1, NewGroupOK
  <2>. QED  BY <1>1, <1>2, <1>11, <2>2 DEF CreateGroup, ServerOK
<1>12. ASSUME DeleteGroup PROVE ServerOK'
  <2>1. IsGroup(group') /\ SameStatus(group, group') /\ group'.gen = group.gen
    BY <1>3, <1>12, FlagFields DEF DeleteGroup
  <2>2. GroupOK(group', ensured)
    BY <1>1, <1>3, <2>1, SameStatusOK
  <2>. QED  BY <1>1, <1>2, <1>12, <2>2 DEF DeleteGroup, ServerOK
<1>13. ASSUME NEW m \in Machine, Heartbeat(m) PROVE ServerOK'
  <2>1. group' = [group EXCEPT !.machines = With(group.machines, m, now)]
    BY <1>13 DEF Heartbeat
  <2>2. /\ IsGroup(group') /\ group'.gen = group.gen /\ group'.observed = group.observed
        /\ group'.alloc = group.alloc /\ group'.resolved = group.resolved
        /\ group'.cloud = group.cloud /\ group'.ready = group.ready
        /\ group'.machines = With(group.machines, m, now)
    BY <1>3, <2>1 DEF IsGroup, GroupFields
  <2>3. IsMap(With(group.machines, m, now), Machine, 0 .. MaxNow)
    BY <1>1 DEF GroupOK, FieldsOK, IsMap, With
  <2>4. GroupOK(group', ensured)
    BY <1>1, <2>2, <2>3 DEF GroupOK, FieldsOK, ResolvedOK, ReadyOK
  <2>. QED  BY <1>1, <1>2, <1>13, <2>4 DEF Heartbeat, ServerOK
<1>14. ASSUME Tick PROVE ServerOK'
  BY <1>1, <1>2, <1>14 DEF Tick, server, ServerOK
<1>. QED
  BY <1>4, <1>5, <1>6, <1>7, <1>8, <1>9, <1>10, <1>11, <1>12, <1>13, <1>14 DEF UserNext

-----------------------------------------------------------------------------
(* What a reconcile computes                                               *)

\* The map for the cloud manager: every machine port the reconcile read, each
\* with a port of its own.
LEMMA AllocatedOK ==
    ASSUME SeenOK, AllocationOK(seen.group, seen.ports)
    PROVE  /\ DOMAIN Allocated = DOMAIN seen.ports
           /\ IsMap(Allocated, PortUID, PortNumber)
           /\ Injective(Allocated)
<1>. DEFINE pins == PinsOf(seen.ports)
            spec == seen.group.spec
<1>1. DOMAIN pins = DOMAIN seen.ports
  BY DEF PinsOf
<1>2. DOMAIN seen.ports \subseteq PortUID /\ spec \in Specs
  BY DEF SeenOK, ObjectsOK, PortsTypeOK, IsMap, GroupOK, IsGroup
<1>3. DOMAIN pins \subseteq UID
  BY <1>1, <1>2, ControllerAssumption
<1>4. /\ DOMAIN Allocated = DOMAIN pins
      /\ \A u \in DOMAIN Allocated : Allocated[u] \in spec.start .. spec.end
      /\ Injective(Allocated)
  BY <1>3, ReconcilePortsCorrect DEF AllocationOK, Allocated, Allocation
<1>5. \A u \in DOMAIN Allocated : Allocated[u] \in PortNumber
  BY <1>2, <1>4 DEF PortNumber
<1>. QED  BY <1>1, <1>2, <1>4, <1>5 DEF IsMap

\* buildResolvedLinks, however it pairs links and ports.
LEMMA ResolvedLinksOK ==
    ASSUME SeenOK, AllocationOK(seen.group, seen.ports)
    PROVE  /\ IsMap(ResolvedLinks, LinkUID, [port : PortNumber, target : Targets])
           /\ \A k, l \in DOMAIN ResolvedLinks :
                 ResolvedLinks[k].port = ResolvedLinks[l].port => k = l
<1>1. SeenLinks \subseteq LinkUID /\ NamesDiffer(SeenLinks)
  BY DEF SeenOK, ObjectsOK, LinksTypeOK, IsMap, SeenLinks
<1>2. SeenLinks \in SUBSET UID
  BY <1>1, ControllerAssumption
<1>3. /\ DOMAIN LinkPorts \subseteq SeenLinks
      /\ \A l \in DOMAIN LinkPorts : LinkPorts[l] \in PortsOf(Allocated)
      /\ Injective(LinkPorts)
  BY <1>1, <1>2, AllocatedOK, LinksGetDistinctPorts DEF LinkPorts
<1>4. PortsOf(Allocated) \subseteq PortNumber
  BY AllocatedOK DEF PortsOf, IsMap
<1>5. \A l \in SeenLinks : seen.links[l].target \in Targets
  BY DEF SeenOK, ObjectsOK, LinksTypeOK, IsMap, SeenLinks
<1>6. /\ DOMAIN ResolvedLinks = DOMAIN LinkPorts
      /\ \A l \in DOMAIN LinkPorts :
            ResolvedLinks[l] = [port |-> LinkPorts[l], target |-> seen.links[l].target]
  BY DEF ResolvedLinks
<1>7. IsMap(ResolvedLinks, LinkUID, [port : PortNumber, target : Targets])
  BY <1>1, <1>3, <1>4, <1>5, <1>6 DEF IsMap
<1>. QED  BY <1>3, <1>6, <1>7 DEF Injective

LEMMA PrunedOK ==
    ASSUME NEW statuses, IsMap(statuses, Machine, 0 .. MaxNow)
    PROVE  IsMap(Pruned(statuses), Machine, 0 .. MaxNow)
BY DEF Pruned, IsMap

-----------------------------------------------------------------------------
(* The server: status patches                                              *)

\* Every field is the server's or the one the reconcile computed.
LEMMA PatchGroupFields ==
    ASSUME IsGroup(group), IsGroup(seen.group), PatchGroup
    PROVE  /\ IsGroup(group')
           /\ group'.gen = group.gen
           /\ group'.observed \in {group.observed, seen.group.gen}
           /\ group'.alloc = PatchMap(group.alloc, seen.group.alloc, Allocated)
           /\ group'.resolved \in {group.resolved, ResolvedLinks}
           /\ group'.cloud \in {group.cloud} \cup CloudStatuses
           /\ group'.ready \in
                 {group.ready, [reason |-> ReadyReason, gen |-> seen.group.gen]}
           /\ group'.machines = PatchMap(group.machines, Pruned(seen.group.machines),
                                         Pruned(seen.group.machines))
<1>. DEFINE old == [seen.group EXCEPT !.machines = Pruned(seen.group.machines)]
<1>1. /\ old.observed = seen.group.observed /\ old.gen = seen.group.gen
      /\ old.alloc = seen.group.alloc /\ old.machines = Pruned(seen.group.machines)
  BY DEF IsGroup, GroupFields
<1>2. PICK returned \in CloudStatuses :
        group' = [group EXCEPT
          !.observed = PatchField(group.observed, old.observed, old.gen),
          !.alloc = PatchMap(group.alloc, old.alloc, Allocated),
          !.resolved = PatchField(group.resolved, old.resolved, ResolvedLinks),
          !.cloud = PatchField(group.cloud, old.cloud, returned),
          !.ready = PatchField(group.ready, old.ready,
                               [reason |-> ReadyReason, gen |-> old.gen]),
          !.machines = PatchMap(group.machines, old.machines, old.machines)]
  BY DEF PatchGroup
<1>. HIDE DEF old
<1>3. /\ group'.gen = group.gen
      /\ group'.observed = PatchField(group.observed, old.observed, old.gen)
      /\ group'.alloc = PatchMap(group.alloc, old.alloc, Allocated)
      /\ group'.resolved = PatchField(group.resolved, old.resolved, ResolvedLinks)
      /\ group'.cloud = PatchField(group.cloud, old.cloud, returned)
      /\ group'.ready = PatchField(group.ready, old.ready,
                                   [reason |-> ReadyReason, gen |-> old.gen])
      /\ group'.machines = PatchMap(group.machines, old.machines, old.machines)
  BY <1>2 DEF IsGroup, GroupFields
<1>. QED  BY <1>1, <1>3, StatusPatch DEF PatchField

LEMMA PatchGroupOK == StatusInv /\ PatchGroup => ServerOK'
<1>. SUFFICES ASSUME StatusInv, PatchGroup PROVE ServerOK'
  OBVIOUS
<1>1. /\ GroupOK(group, ensured) /\ GroupOK(seen.group, ensured) /\ SeenOK
      /\ ObjectsOK(ports, links) /\ cloudErr \in BOOLEAN
  BY DEF StatusInv, ServerOK, SeenOK, ControlOK
<1>2. /\ AllocationOK(seen.group, seen.ports)
      /\ seen.group.spec.provider \in {"noop", "aws"}
      /\ ~cloudErr => seen.group.gen \in ensured
  BY DEF StatusInv, PlanOK, PatchGroup
<1>3. ensured' = ensured /\ ports' = ports /\ links' = links
  BY DEF PatchGroup, cloud
<1>4. IsGroup(group) /\ IsGroup(seen.group) /\ FieldsOK(group) /\ FieldsOK(seen.group)
  BY <1>1 DEF GroupOK
<1>. DEFINE condition == [reason |-> ReadyReason, gen |-> seen.group.gen]
<1>5. /\ IsGroup(group') /\ group'.gen = group.gen
      /\ group'.observed \in {group.observed, seen.group.gen}
      /\ group'.alloc = PatchMap(group.alloc, seen.group.alloc, Allocated)
      /\ group'.resolved \in {group.resolved, ResolvedLinks}
      /\ group'.cloud \in {group.cloud} \cup CloudStatuses
      /\ group'.ready \in {group.ready, condition}
      /\ group'.machines = PatchMap(group.machines, Pruned(seen.group.machines),
                                    Pruned(seen.group.machines))
  BY <1>4, PatchGroupFields
<1>6. /\ condition.reason \in Reasons /\ condition.gen = seen.group.gen
      /\ condition.reason = "Ready" => ~cloudErr
  BY DEF ReadyReason, Reasons
<1>. HIDE DEF condition
<1>7. IsMap(group'.alloc, PortUID, PortNumber)
  BY <1>1, <1>2, <1>4, <1>5, AllocatedOK, PatchMapType DEF FieldsOK
<1>8. /\ IsMap(group'.resolved, LinkUID, [port : PortNumber, target : Targets])
      /\ ResolvedOK(group')
  BY <1>1, <1>2, <1>5, ResolvedLinksOK DEF GroupOK, FieldsOK, ResolvedOK
<1>9. IsMap(group'.machines, Machine, 0 .. MaxNow)
  BY <1>4, <1>5, PrunedOK, PatchMapType DEF FieldsOK
<1>10. group'.cloud \in {"none", "noop", "aws"}
  BY <1>2, <1>4, <1>5 DEF CloudStatuses, FieldsOK
<1>11. group'.gen \in Nat /\ group'.observed \in Nat
  BY <1>4, <1>5 DEF FieldsOK
<1>12. group'.ready.reason \in Reasons /\ group'.ready.gen \in Nat
  BY <1>4, <1>5, <1>6 DEF FieldsOK
<1>13. ReadyOK(group', ensured)
  BY <1>1, <1>2, <1>5, <1>6 DEF GroupOK, ReadyOK
<1>14. GroupOK(group', ensured')
  BY <1>3, <1>5, <1>7, <1>8, <1>9, <1>10, <1>11, <1>12, <1>13 DEF GroupOK, FieldsOK
<1>. QED  BY <1>1, <1>3, <1>14 DEF ServerOK

\* A patch that lands on a machine port, whichever object has its name by now.
LEMMA PatchPortOK ==
    ASSUME ServerOK, SeenOK, NEW u,
           NEW assigned \in PortNumber,
           NEW phase \in {"None", "Allocated", "Ready", "Error"},
           NEW exposed \in {"None", "ExposureDisabled", "CloudEnsureFailed",
                            "Ready", "PortAllocationFailed"},
           PatchPortStatus(u, assigned, phase, exposed)
    PROVE  PortsTypeOK(ports')
<1>1. PortsTypeOK(ports)
  BY DEF ServerOK, ObjectsOK
<1>2. PICK v \in DOMAIN ports :
        ports' = [ports EXCEPT
            ![v].assigned = PatchField(ports[v].assigned, seen.ports[u].assigned, assigned),
            ![v].phase = PatchField(ports[v].phase, seen.ports[u].phase, phase),
            ![v].exposed = PatchField(ports[v].exposed, seen.ports[u].exposed, exposed)]
  BY <1>1 DEF PatchPortStatus, Addressed, PortsTypeOK, IsMap
<1>3. ports[v] \in PortType /\ DOMAIN ports \subseteq PortUID
  BY <1>1 DEF PortsTypeOK, PortType, IsMap
<1>4. /\ DOMAIN ports' = DOMAIN ports
      /\ \A w \in DOMAIN ports : w # v => ports'[w] = ports[w]
      /\ ports'[v].pin = ports[v].pin
      /\ ports'[v].assigned \in PortNumber
      /\ ports'[v].phase \in {"None", "Allocated", "Ready", "Error"}
      /\ ports'[v].exposed \in {"None", "ExposureDisabled", "CloudEnsureFailed",
                                "Ready", "PortAllocationFailed"}
      /\ ports'[v] \in PortType
  BY <1>2, <1>3 DEF PatchField, PortType
<1>. QED  BY <1>1, <1>3, <1>4 DEF PortsTypeOK, PortType, IsMap

LEMMA PatchLinkOK ==
    ASSUME ServerOK, SeenOK, NEW l, NEW phase \in {"None", "Ready", "Error"},
           PatchLinkStatus(l, phase)
    PROVE  LinksTypeOK(links') /\ DOMAIN links' = DOMAIN links
<1>1. LinksTypeOK(links)
  BY DEF ServerOK, ObjectsOK
<1>2. PICK v \in DOMAIN links :
        links' = [links EXCEPT ![v].phase =
                     PatchField(links[v].phase, seen.links[l].phase, phase)]
  BY DEF PatchLinkStatus, Addressed
<1>3. links[v] \in LinkType /\ DOMAIN links \subseteq LinkUID
  BY <1>1 DEF LinksTypeOK, LinkType, IsMap
<1>4. /\ DOMAIN links' = DOMAIN links
      /\ \A w \in DOMAIN links : w # v => links'[w] = links[w]
      /\ links'[v] \in LinkType
  BY <1>2, <1>3 DEF PatchField, LinkType
<1>. QED  BY <1>1, <1>3, <1>4 DEF LinksTypeOK, LinkType, IsMap

LEMMA MarkErrorOK == StatusInv /\ MarkError => ServerOK'
<1>. SUFFICES ASSUME StatusInv, MarkError PROVE ServerOK'
  OBVIOUS
<1>. DEFINE condition == [reason |-> reason, gen |-> seen.group.gen]
<1>1. /\ GroupOK(group, ensured) /\ GroupOK(seen.group, ensured)
      /\ ObjectsOK(ports, links) /\ reason \in Reasons \ {"Ready"}
  BY DEF StatusInv, ServerOK, SeenOK, ControlOK
<1>2. /\ group' = [group EXCEPT !.ready =
                      PatchField(group.ready, seen.group.ready, condition)]
      /\ ensured' = ensured /\ ports' = ports /\ links' = links
  BY DEF MarkError, cloud
<1>3. condition.reason = reason /\ condition.gen = seen.group.gen
  OBVIOUS
<1>. HIDE DEF condition
<1>4. IsGroup(group) /\ IsGroup(group')
  BY <1>1, StatusPatch DEF GroupOK
<1>5. /\ group'.gen = group.gen /\ group'.observed = group.observed
      /\ group'.alloc = group.alloc /\ group'.resolved = group.resolved
      /\ group'.cloud = group.cloud /\ group'.machines = group.machines
      /\ group'.ready = PatchField(group.ready, seen.group.ready, condition)
  BY <1>2, <1>4 DEF IsGroup, GroupFields
<1>6. group'.ready \in {group.ready, condition}
  BY <1>5 DEF PatchField
<1>7. GroupOK(group', ensured)
  BY <1>1, <1>3, <1>4, <1>5, <1>6 DEF GroupOK, FieldsOK, ResolvedOK, ReadyOK
<1>. QED  BY <1>1, <1>2, <1>7 DEF ServerOK

\* The calls of a reconcile.
LEMMA StepServerOK == StatusInv /\ StepNext => ServerOK'
<1>. SUFFICES ASSUME StatusInv, StepNext PROVE ServerOK'
  OBVIOUS
<1>1. /\ ServerOK /\ SeenOK /\ GroupOK(group, ensured) /\ ObjectsOK(ports, links)
      /\ IsGroup(group) /\ group.gen \in Nat
  BY DEF StatusInv, ServerOK, GroupOK, FieldsOK
<1>2. ASSUME ensured \subseteq ensured', UNCHANGED server PROVE ServerOK'
  BY <1>1, <1>2, GroupOKGrows DEF ServerOK, server
<1>3. ASSUME AddFinalizer PROVE ServerOK'
  <2>1. /\ group' = group \/ group' = [group EXCEPT !.finalizer = TRUE]
        /\ ensured' = ensured /\ ports' = ports /\ links' = links
    BY <1>3 DEF AddFinalizer, cloud
  <2>2. CASE group' = group
    BY <1>1, <2>1, <2>2 DEF ServerOK
  <2>3. CASE group' = [group EXCEPT !.finalizer = TRUE]
    <3>1. IsGroup(group') /\ SameStatus(group, group') /\ group'.gen = group.gen
      BY <1>1, <2>3, FlagFields
    <3>2. GroupOK(group', ensured)
      BY <1>1, <3>1, SameStatusOK
    <3>. QED  BY <1>1, <2>1, <3>2 DEF ServerOK
  <2>. QED  BY <2>1, <2>2, <2>3
<1>4. ASSUME RemoveFinalizer PROVE ServerOK'
  <2>1. /\ \/ group' = [group EXCEPT !.finalizer = FALSE]
           \/ group' = [group EXCEPT !.finalizer = FALSE, !.alive = FALSE]
        /\ ensured' = ensured /\ ports' = ports /\ links' = links
    BY <1>4 DEF RemoveFinalizer, cloud
  <2>2. IsGroup(group') /\ SameStatus(group, group') /\ group'.gen = group.gen
    BY <1>1, <2>1, FlagFields
  <2>3. GroupOK(group', ensured)
    BY <1>1, <2>2, SameStatusOK
  <2>. QED  BY <1>1, <2>1, <2>3 DEF ServerOK
<1>5. ASSUME Ensure PROVE ServerOK'
  BY <1>2, <1>5 DEF Ensure
<1>6. ASSUME NEW u \in PortUID, PatchPort(u) \/ FailPort(u) PROVE ServerOK'
  <2>1. /\ group' = group /\ links' = links /\ ensured' = ensured
        /\ u \in todo /\ pc \in {"patchObjects", "fail"}
    BY <1>6 DEF PatchPort, FailPort, cloud, First
  <2>2. CASE PatchPort(u)
    <3>1. u \in DOMAIN seen.ports
      BY <2>1, ControllerAssumption
      DEF StatusInv, ControlOK, SeenOK, ObjectsOK, LinksTypeOK, IsMap
    <3>2. AllocationOK(seen.group, seen.ports)
      BY <2>2 DEF StatusInv, PlanOK, PatchPort
    <3>3. Allocated[u] \in PortNumber
      BY <1>1, <3>1, <3>2, AllocatedOK DEF IsMap
    <3>4. Exposed \in {"ExposureDisabled", "CloudEnsureFailed", "Ready"}
      BY DEF Exposed
    <3>5. PortsTypeOK(ports')
      BY <1>1, <2>2, <3>3, <3>4, PatchPortOK DEF PatchPort
    <3>. QED  BY <1>1, <2>1, <3>5 DEF ServerOK, ObjectsOK
  <2>3. CASE FailPort(u)
    <3>1. NoPort \in PortNumber
      BY ControllerAssumption DEF PortNumber
    <3>2. PortsTypeOK(ports')
      BY <1>1, <2>3, <3>1, PatchPortOK DEF FailPort
    <3>. QED  BY <1>1, <2>1, <3>2 DEF ServerOK, ObjectsOK
  <2>. QED  BY <1>6, <2>2, <2>3
<1>7. ASSUME NEW l \in LinkUID, PatchLink(l) \/ FailLink(l) PROVE ServerOK'
  <2>1. group' = group /\ ports' = ports /\ ensured' = ensured
    BY <1>7 DEF PatchLink, FailLink, cloud
  <2>2. PICK phase \in {"Ready", "Error"} : PatchLinkStatus(l, phase)
    BY <1>7 DEF PatchLink, FailLink
  <2>3. LinksTypeOK(links') /\ DOMAIN links' = DOMAIN links
    BY <1>1, <2>2, PatchLinkOK
  <2>. QED  BY <1>1, <2>1, <2>3 DEF ServerOK, ObjectsOK
<1>8. ASSUME \/ DeleteCloud \/ DeleteCloudError \/ EnsureError \/ Finish \/ NotFound
      PROVE  ServerOK'
  BY <1>2, <1>8 DEF DeleteCloud, DeleteCloudError, EnsureError, Finish, NotFound, cloud
<1>. QED
  BY <1>3, <1>4, <1>5, <1>6, <1>7, <1>8, PatchGroupOK, MarkErrorOK DEF StepNext

-----------------------------------------------------------------------------
(* Caches and the running reconcile                                        *)

LEMMA KeepCaches ==
    ASSUME CachesOK, UNCHANGED caches, ensured \subseteq ensured'
    PROVE  CachesOK'
BY GroupOKGrows DEF CachesOK, caches

LEMMA KeepSeen ==
    ASSUME SeenOK, UNCHANGED seen, ensured \subseteq ensured'
    PROVE  SeenOK'
BY GroupOKGrows DEF SeenOK

\* A reconcile that is over leaves nothing behind.
LEMMA IdleOK ==
    ASSUME pc' = "idle", seen' = Nothing, todo' = {}, cloudErr' = FALSE, reason' = "None",
           queued' \in BOOLEAN, machines' \in BOOLEAN, now' \in 0 .. MaxNow
    PROVE  SeenOK' /\ ControlOK' /\ PlanOK'
<1>1. SeenOK'
  BY NothingOK DEF SeenOK
<1>2. ControlOK' /\ PlanOK'
  BY DEF ControlOK, PlanOK, Reasons
<1>. QED  BY <1>1, <1>2

\* Begin copies the caches; of the links those that are managed.
LEMMA BeginOK ==
    ASSUME StatusInv, NEW call, NEW objects, Begin(call, objects),
           objects \in {{}, ManagedObjects},
           \/ call \in {"addFinalizer", "delete", "fail"}
           \/ /\ call = "ensure"
              /\ AllocationOK(groupCache, portCache)
              /\ groupCache.spec.provider # "unsupported",
           reason' \in Reasons \ {"Ready"}
    PROVE  StatusInv'
<1>1. ServerOK /\ CachesOK /\ ControlOK
  BY DEF StatusInv
<1>2. /\ UNCHANGED <<server, caches, cloud, bounds>>
      /\ pc' = call /\ todo' = objects /\ queued' = FALSE /\ cloudErr' = FALSE
      /\ seen' = [group |-> groupCache, ports |-> portCache, links |-> ManagedLinks]
  BY DEF Begin
<1>3. ServerOK' /\ CachesOK'
  BY <1>1, <1>2, KeepCaches DEF ServerOK, server, caches, cloud
<1>4. seen'.group = groupCache /\ seen'.ports = portCache /\ seen'.links = ManagedLinks
  BY <1>2
<1>5. LinksTypeOK(ManagedLinks) /\ NamesDiffer(DOMAIN ManagedLinks)
  BY <1>1 DEF CachesOK, ObjectsOK, LinksTypeOK, ManagedLinks, IsMap, NamesDiffer
<1>6. SeenOK'
  BY <1>1, <1>2, <1>4, <1>5 DEF CachesOK, ObjectsOK, SeenOK, cloud
<1>7. ControlOK'
  BY <1>1, <1>2, <1>4 DEF ControlOK, ManagedObjects, cloud, bounds
<1>8. groupCache.spec.provider \in {"noop", "aws", "unsupported"}
  BY <1>1, ControllerAssumption DEF CachesOK, GroupOK, IsGroup, SpecType
<1>9. PlanOK'
  BY <1>2, <1>4, <1>8 DEF PlanOK, AllocationOK
<1>. QED  BY <1>3, <1>6, <1>7, <1>9 DEF StatusInv

LEMMA BeginInv == StatusInv /\ BeginNext => StatusInv'
<1>. SUFFICES ASSUME StatusInv, BeginNext PROVE StatusInv'
  OBVIOUS
<1>1. reason \in Reasons \ {"Ready"}
  BY DEF StatusInv, ControlOK
<1>2. ASSUME UNCHANGED <<server, caches, local, cloud, bounds>>, queued' \in BOOLEAN
      PROVE  StatusInv'
  BY <1>2 DEF server, caches, local, cloud, bounds, StatusInv, ServerOK, CachesOK, SeenOK,
              ControlOK, PlanOK, AllocationOK
<1>3. ASSUME BeginNothing PROVE StatusInv'
  BY <1>2, <1>3 DEF BeginNothing
<1>4. ASSUME BeginError PROVE StatusInv'
  BY <1>2, <1>4 DEF BeginError, vars, StatusInv, ControlOK
<1>5. ASSUME BeginAddFinalizer PROVE StatusInv'
  BY <1>1, <1>5, BeginOK DEF BeginAddFinalizer
<1>6. ASSUME BeginDelete PROVE StatusInv'
  BY <1>1, <1>6, BeginOK DEF BeginDelete
<1>7. ASSUME BeginInvalidSpec PROVE StatusInv'
  BY <1>7, BeginOK DEF BeginInvalidSpec, Reasons
<1>8. ASSUME BeginNoPorts PROVE StatusInv'
  BY <1>8, BeginOK DEF BeginNoPorts, Reasons
<1>9. ASSUME BeginEnsure PROVE StatusInv'
  BY <1>1, <1>9, BeginOK DEF BeginEnsure
<1>. QED  BY <1>3, <1>4, <1>5, <1>6, <1>7, <1>8, <1>9 DEF BeginNext

LEMMA UserInv == StatusInv /\ UserNext => StatusInv'
<1>. SUFFICES ASSUME StatusInv, UserNext PROVE StatusInv'
  OBVIOUS
<1>1. UNCHANGED <<caches, queued, local, cloud>>
  BY DEF UserNext, CreatePort, EditPort, DeletePort, CreateLink, EditLink, DeleteLink,
         EditSpec, CreateGroup, DeleteGroup, Heartbeat, Tick, UserEdit
<1>2. now' \in 0 .. MaxNow
  <2>1. now' = now \/ Tick
    BY DEF UserNext, CreatePort, EditPort, DeletePort, CreateLink, EditLink, DeleteLink,
           EditSpec, CreateGroup, DeleteGroup, Heartbeat, UserEdit
  <2>. QED  BY <2>1, ControllerAssumption DEF Tick, StatusInv, ControlOK
<1>3. CachesOK' /\ SeenOK'
  BY <1>1, KeepCaches, KeepSeen DEF StatusInv, local, cloud
<1>4. ControlOK' /\ PlanOK'
  BY <1>1, <1>2 DEF StatusInv, ControlOK, PlanOK, AllocationOK, local, cloud
<1>. QED  BY <1>3, <1>4, UserServerOK DEF StatusInv

LEMMA SyncInv == StatusInv /\ SyncNext => StatusInv'
<1>. SUFFICES ASSUME StatusInv, SyncNext PROVE StatusInv'
  OBVIOUS
<1>1. UNCHANGED <<server, local, cloud, bounds>> /\ queued' = TRUE
  BY DEF SyncNext, SyncGroup, SyncPorts, SyncLinks
<1>2. /\ groupCache' \in {group, groupCache} /\ portCache' \in {ports, portCache}
      /\ linkCache' \in {links, linkCache}
  BY DEF SyncNext, SyncGroup, SyncPorts, SyncLinks
<1>3. ServerOK' /\ SeenOK' /\ ControlOK' /\ PlanOK'
  BY <1>1 DEF StatusInv, ServerOK, SeenOK, ControlOK, PlanOK, AllocationOK, server, local,
              cloud, bounds
<1>4. CachesOK'
  BY <1>1, <1>2 DEF StatusInv, ServerOK, CachesOK, ObjectsOK, cloud
<1>. QED  BY <1>3, <1>4 DEF StatusInv

LEMMA FailInv == StatusInv /\ FailNext => StatusInv'
<1>. SUFFICES ASSUME StatusInv, FailNext PROVE StatusInv'
  OBVIOUS
<1>1. /\ UNCHANGED <<server, cloud, now>> /\ queued' \in BOOLEAN
      /\ pc' = "idle" /\ seen' = Nothing /\ todo' = {} /\ cloudErr' = FALSE
      /\ reason' = "None"
  BY DEF FailNext, ApiError, Restart, End
<1>2. SeenOK' /\ ControlOK' /\ PlanOK'
  BY <1>1, IdleOK DEF StatusInv, ControlOK, cloud
<1>3. ServerOK'
  BY <1>1 DEF StatusInv, ServerOK, server, cloud
<1>4. CachesOK'
  <2>1. CASE ApiError
    BY <1>1, <2>1, KeepCaches DEF ApiError, StatusInv, cloud
  <2>2. CASE Restart
    BY <1>1, <2>2 DEF Restart, StatusInv, ServerOK, CachesOK, cloud
  <2>. QED  BY <2>1, <2>2 DEF FailNext
<1>. QED  BY <1>2, <1>3, <1>4 DEF StatusInv

LEMMA StepInv == StatusInv /\ StepNext => StatusInv'
<1>. SUFFICES ASSUME StatusInv, StepNext PROVE StatusInv'
  OBVIOUS
<1>1. SeenOK /\ CachesOK /\ ControlOK /\ PlanOK
  BY DEF StatusInv
<1>2. UNCHANGED <<caches, now>> /\ ensured \subseteq ensured'
  BY DEF StepNext, AddFinalizer, DeleteCloud, DeleteCloudError, RemoveFinalizer, Ensure,
         EnsureError, PatchGroup, PatchPort, FailPort, PatchLink, FailLink, Finish,
         MarkError, NotFound, cloud, bounds
<1>3. ServerOK' /\ CachesOK'
  BY <1>1, <1>2, StepServerOK, KeepCaches
<1>. SUFFICES SeenOK' /\ ControlOK' /\ PlanOK'
  BY <1>3 DEF StatusInv
<1>4. ASSUME \/ AddFinalizer \/ DeleteCloudError \/ RemoveFinalizer \/ Finish
             \/ MarkError \/ NotFound
      PROVE  SeenOK' /\ ControlOK' /\ PlanOK'
  <2>1. /\ pc' = "idle" /\ seen' = Nothing /\ todo' = {} /\ cloudErr' = FALSE
        /\ reason' = "None" /\ queued' \in BOOLEAN
    BY <1>4 DEF AddFinalizer, DeleteCloudError, RemoveFinalizer, Finish, MarkError,
                NotFound, End
  <2>2. machines' \in BOOLEAN
    BY <1>1, <1>4 DEF AddFinalizer, DeleteCloudError, RemoveFinalizer, Finish, MarkError,
                      NotFound, cloud, ControlOK
  <2>. QED  BY <1>1, <1>2, <2>1, <2>2, IdleOK DEF ControlOK
<1>5. ASSUME UNCHANGED seen, todo' \subseteq todo, UNCHANGED reason,
             pc' \in {"removeFinalizer", "patchGroup", "patchObjects", "fail"},
             queued' \in BOOLEAN, cloudErr' \in BOOLEAN, machines' \in BOOLEAN
      PROVE  SeenOK' /\ ControlOK'
  BY <1>1, <1>2, <1>5, KeepSeen DEF ControlOK
<1>6. ASSUME DeleteCloud PROVE SeenOK' /\ ControlOK' /\ PlanOK'
  <2>1. machines' \in BOOLEAN
    BY <1>1, <1>6 DEF DeleteCloud, ControlOK
  <2>. QED  BY <1>1, <1>5, <1>6, <2>1 DEF DeleteCloud, PlanOK, ControlOK
<1>7. ASSUME Ensure PROVE SeenOK' /\ ControlOK' /\ PlanOK'
  <2>1. machines' \in BOOLEAN
    BY <1>7 DEF Ensure
  <2>2. SeenOK' /\ ControlOK'
    BY <1>1, <1>5, <1>7, <2>1 DEF Ensure, ControlOK
  <2>3. PlanOK'
    BY <1>1, <1>7 DEF Ensure, PlanOK, AllocationOK
  <2>. QED  BY <2>2, <2>3
<1>8. ASSUME EnsureError PROVE SeenOK' /\ ControlOK' /\ PlanOK'
  <2>1. machines' \in BOOLEAN
    BY <1>1, <1>8 DEF EnsureError, ControlOK
  <2>2. SeenOK' /\ ControlOK'
    BY <1>1, <1>5, <1>8, <2>1 DEF EnsureError, ControlOK
  <2>3. PlanOK'
    BY <1>1, <1>8 DEF EnsureError, PlanOK, AllocationOK
  <2>. QED  BY <2>2, <2>3
<1>9. ASSUME PatchGroup PROVE SeenOK' /\ ControlOK' /\ PlanOK'
  <2>1. queued' \in BOOLEAN
    BY <1>9 DEF PatchGroup
  <2>2. SeenOK' /\ ControlOK'
    BY <1>1, <1>5, <1>9, <2>1 DEF PatchGroup, ControlOK, cloud
  <2>3. PlanOK'
    BY <1>1, <1>9 DEF PatchGroup, PlanOK, AllocationOK, cloud
  <2>. QED  BY <2>2, <2>3
<1>10. ASSUME NEW u, PatchPort(u) \/ FailPort(u) \/ PatchLink(u) \/ FailLink(u)
       PROVE  SeenOK' /\ ControlOK' /\ PlanOK'
  <2>1. /\ UNCHANGED <<seen, reason, queued, cloudErr, machines, ensured, pc>>
        /\ todo' = todo \ {u} /\ pc \in {"patchObjects", "fail"}
    BY <1>10 DEF PatchPort, FailPort, PatchLink, FailLink, cloud
  <2>2. SeenOK' /\ ControlOK'
    BY <1>1, <1>5, <2>1 DEF ControlOK
  <2>3. PlanOK'
    BY <1>1, <2>1 DEF PlanOK, AllocationOK
  <2>. QED  BY <2>2, <2>3
<1>. QED  BY <1>4, <1>6, <1>7, <1>8, <1>9, <1>10 DEF StepNext

-----------------------------------------------------------------------------

LEMMA InitStatusInv == Init => StatusInv
<1>. SUFFICES ASSUME Init PROVE StatusInv
  OBVIOUS
<1>1. GroupOK(group, ensured)
  BY NewGroupOK, ControllerAssumption DEF Init
<1>2. NewPort(NoPort) \in PortType
  BY ControllerAssumption DEF NewPort, PortType, PortNumber
<1>3. PortsTypeOK(ports)
  BY <1>2, ControllerAssumption DEF Init, PortsTypeOK, PortType, IsMap
<1>4. \A t \in Targets : NewLink(t) \in LinkType
  BY DEF NewLink, LinkType
<1>5. DOMAIN links = InitialLinks /\ \A l \in InitialLinks : links[l] \in LinkType
  BY <1>4 DEF Init
<1>6. LinksTypeOK(links) /\ NamesDiffer(DOMAIN links)
  BY <1>5, ControllerAssumption DEF LinksTypeOK, LinkType, IsMap, NamesDiffer
<1>7. ServerOK /\ CachesOK
  BY <1>1, <1>3, <1>6 DEF Init, ServerOK, CachesOK, ObjectsOK
<1>8. SeenOK
  BY NothingOK DEF Init, SeenOK
<1>9. /\ pc = "idle" /\ todo = {} /\ reason = "None" /\ now = 0
      /\ queued = TRUE /\ cloudErr = FALSE /\ machines = FALSE
  BY DEF Init
<1>10. now \in 0 .. MaxNow /\ reason \in Reasons \ {"Ready"}
  BY <1>9, ControllerAssumption DEF Reasons
<1>11. ControlOK /\ PlanOK
  BY <1>9, <1>10, Zenon DEF ControlOK, PlanOK
<1>. QED  BY <1>7, <1>8, <1>11 DEF StatusInv

LEMMA StatusInvInductive == StatusInv /\ [Next]_vars => StatusInv'
<1>. SUFFICES ASSUME StatusInv, [Next]_vars PROVE StatusInv'
  OBVIOUS
<1>1. CASE UNCHANGED vars
  BY <1>1 DEF vars, server, caches, local, cloud, bounds, StatusInv, ServerOK, CachesOK,
              SeenOK, ControlOK, PlanOK, AllocationOK
<1>. QED  BY <1>1, UserInv, BeginInv, StepInv, SyncInv, FailInv DEF Next

LEMMA AlwaysStatusInv == Spec => []StatusInv
BY InitStatusInv, StatusInvInductive, PTL DEF Spec

\* Objects, caches and the copies of a reconcile keep the types of the API,
\* although merge patches mix what two of them say.
THEOREM AlwaysTypeOK == Spec => []TypeOK
<1>1. ASSUME StatusInv PROVE TypeOK
  <2>1. GroupTypeOK(group) /\ GroupTypeOK(groupCache) /\ GroupTypeOK(seen.group)
    BY <1>1, TypeOfGroup, Zenon DEF StatusInv, ServerOK, CachesOK, SeenOK, GroupOK
  <2>2. /\ PortsTypeOK(ports) /\ LinksTypeOK(links)
        /\ PortsTypeOK(portCache) /\ LinksTypeOK(linkCache)
        /\ PortsTypeOK(seen.ports) /\ LinksTypeOK(seen.links)
    BY <1>1, Zenon DEF StatusInv, ServerOK, CachesOK, SeenOK, ObjectsOK
  <2>. QED  BY <1>1, <2>1, <2>2, Zenon DEF StatusInv, ControlOK, TypeOK
<1>. QED  BY <1>1, AlwaysStatusInv, PTL

\* EnsureMachineGroup is never given a map in which two machine ports share a
\* frontend port, whatever status.allocatedPorts said.
THEOREM AlwaysHandedDistinct == Spec => []HandedDistinct
<1>1. StatusInv => HandedDistinct
  BY AllocatedOK DEF StatusInv, PlanOK, HandedDistinct
<1>. QED  BY <1>1, AlwaysStatusInv, PTL

\* status.resolvedLinks never has two links on one frontend port.
THEOREM AlwaysResolvedDistinct == Spec => []ResolvedDistinct
<1>1. StatusInv => ResolvedDistinct
  BY DEF StatusInv, ServerOK, GroupOK, ResolvedOK, ResolvedDistinct
<1>. QED  BY <1>1, AlwaysStatusInv, PTL

\* Ready=True names a generation that EnsureMachineGroup succeeded for.
THEOREM AlwaysReadyIsEnsured == Spec => []ReadyIsEnsured
<1>1. StatusInv => ReadyIsEnsured
  BY DEF StatusInv, ServerOK, GroupOK, ReadyOK, ReadyIsEnsured
<1>. QED  BY <1>1, AlwaysStatusInv, PTL

-----------------------------------------------------------------------------
(* What a patch does to the allocations                                    *)

\* Of the steps of a reconcile only the status patch goes on to the objects.
LEMMA OnlyPatchGroup ==
    ASSUME Next, pc = "patchGroup", pc' = "patchObjects"
    PROVE  PatchGroup
<1>1. ~UserNext /\ ~SyncNext
  BY DEF UserNext, CreatePort, EditPort, DeletePort, CreateLink, EditLink, DeleteLink,
         EditSpec, CreateGroup, DeleteGroup, Heartbeat, Tick, UserEdit, SyncNext,
         SyncGroup, SyncPorts, SyncLinks, local
<1>2. ~BeginNext /\ ~FailNext
  BY DEF BeginNext, BeginNothing, BeginAddFinalizer, BeginDelete, BeginInvalidSpec,
         BeginNoPorts, BeginEnsure, BeginError, Begin, FailNext, ApiError, Restart, End
<1>3. StepNext => PatchGroup
  BY DEF StepNext, AddFinalizer, DeleteCloud, DeleteCloudError, RemoveFinalizer, Ensure,
         EnsureError, PatchPort, FailPort, PatchLink, FailLink, Finish, MarkError, NotFound,
         End
<1>. QED  BY <1>1, <1>2, <1>3 DEF Next

\* The status patch of a reconcile that read the server's allocations moves no
\* machine port whose allocation is valid.
THEOREM PatchKeepsValid == Spec => CurrentReadKeeps
<1>. DEFINE Keeps ==
       pc = "patchGroup" /\ pc' = "patchObjects" /\ seen.group.alloc = group.alloc =>
        \A u \in DOMAIN seen.ports :
            ValidAllocation(u, seen.group, seen.ports) =>
                u \in DOMAIN group'.alloc /\ group'.alloc[u] = group.alloc[u]
<1>1. ASSUME StatusInv, Next PROVE Keeps
  <2>. SUFFICES ASSUME pc = "patchGroup", pc' = "patchObjects",
                       seen.group.alloc = group.alloc,
                       NEW u \in DOMAIN seen.ports,
                       ValidAllocation(u, seen.group, seen.ports)
                PROVE  u \in DOMAIN group'.alloc /\ group'.alloc[u] = group.alloc[u]
    OBVIOUS
  <2>. DEFINE pins == PinsOf(seen.ports)
              existing == seen.group.alloc
              spec == seen.group.spec
  <2>1. SeenOK /\ IsGroup(group) /\ IsGroup(seen.group)
    BY <1>1 DEF StatusInv, ServerOK, SeenOK, GroupOK
  <2>2. AllocationOK(seen.group, seen.ports)
    BY <1>1 DEF StatusInv, PlanOK
  <2>3. DOMAIN pins = DOMAIN seen.ports /\ \A v \in DOMAIN pins : pins[v] = seen.ports[v].pin
    BY DEF PinsOf
  <2>4. DOMAIN pins \subseteq UID
    BY <2>1, <2>3, ControllerAssumption DEF SeenOK, ObjectsOK, PortsTypeOK, IsMap
  <2>5. /\ u \in DOMAIN pins \cap DOMAIN existing
        /\ pins[u] \in {NoPort, existing[u]}
        /\ existing[u] \in spec.start .. spec.end
        /\ \A v \in DOMAIN pins \ {u} :
              /\ pins[v] # existing[u]
              /\ v \in DOMAIN existing => existing[v] # existing[u]
    BY <2>3 DEF ValidAllocation
  <2>. HIDE DEF pins, existing, spec
  <2>6. ReconcilePorts(existing, pins, spec.start, spec.end)[u] = existing[u]
    BY <2>4, <2>5, ReconcilePortsKeeps
  <2>7. Allocated[u] = existing[u]
    BY <2>6 DEF Allocated, Allocation, pins, existing, spec
  <2>8. u \in DOMAIN Allocated
    BY <2>1, <2>2, AllocatedOK
  <2>9. group'.alloc = PatchMap(group.alloc, existing, Allocated)
    BY <1>1, <2>1, OnlyPatchGroup, PatchGroupFields DEF existing
  <2>10. u \in DOMAIN group.alloc
    BY <2>5 DEF existing
  <2>. QED  BY <2>7, <2>8, <2>9, <2>10 DEF PatchMap, Changed, Removed, existing
<1>2. StatusInv /\ [Next]_vars => [Keeps]_vars
  BY <1>1
<1>. QED  BY <1>2, AlwaysStatusInv, PTL DEF Spec, CurrentReadKeeps

=============================================================================
