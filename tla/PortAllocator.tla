--------------------------- MODULE PortAllocator ---------------------------
(***************************************************************************)
(* portallocator.ReconcilePorts: the pure function that gives every        *)
(* TiProxyMachinePort of a group one frontend port of spec.portRange.      *)
(*                                                                         *)
(* The function is stated here by what its three loops compute; module     *)
(* PortAllocatorLoop steps through the loops themselves and its run shows  *)
(* that the two agree.                                                     *)
(*                                                                         *)
(* Kubernetes objects are known by their UID, a natural number; NameOf     *)
(* gives the rank of an object's "namespace/name" key in string order, so  *)
(* that two objects with the same rank have the same name (an object       *)
(* deleted and created again keeps its name and gets a new UID).           *)
(***************************************************************************)
EXTENDS Integers, FiniteSets

CONSTANTS UID,      \* the UIDs of the objects
          NameOf    \* NameOf[u]: the position of u's namespace/name key

ASSUME UIDAssumption ==
    /\ UID \subseteq Nat
    /\ IsFiniteSet(UID)
    /\ NameOf \in [UID -> Nat]

\* The nil RequestedPort. (An explicit 0 is out of every valid range and is
\* treated as any other number outside it.)
NoPort == 0

\* The order of sort.Slice in ReconcilePorts: by name, then by UID.
Before(u, v) ==
    \/ NameOf[u] < NameOf[v]
    \/ NameOf[u] = NameOf[v] /\ u < v

EmptyMap == [u \in {} |-> NoPort]

PortsOf(map) == {map[u] : u \in DOMAIN map}

Injective(map) == \A u, v \in DOMAIN map : map[u] = map[v] => u = v

-----------------------------------------------------------------------------
(* Handing out ports in order: the k-th object, in key order, gets the     *)
(* k-th smallest port.                                                     *)

Earlier(u, objects) == {v \in objects : Before(v, u)}
Lower(p, ports) == {q \in ports : q < p}

Paired(u, objects, p, ports) ==
    Cardinality(Earlier(u, objects)) = Cardinality(Lower(p, ports))

\* The objects that some port is left for, with that port.
InOrder(objects, ports) ==
    [u \in {o \in objects : \E p \in ports : Paired(o, objects, p, ports)} |->
        CHOOSE p \in ports : Paired(u, objects, p, ports)]

-----------------------------------------------------------------------------
(* existing:  status.allocatedPorts, a map from UIDs to ports              *)
(* requested: the TiProxyMachinePorts of the group, each with its          *)
(*            spec.requestedPort (NoPort when nil)                         *)

PinnedBy(requested) == {u \in DOMAIN requested : requested[u] # NoPort}

\* First loop: a requested port is used as it is, or the call fails.
PinsValid(requested, start, end) ==
    LET pinned == PinnedBy(requested) IN
    /\ \A u \in pinned : requested[u] \in start..end
    /\ \A u, v \in pinned : requested[u] = requested[v] => u = v

\* Mutant: nobody keeps its port.
KeptByNone(existing, requested, start, end) == {}

\* Mutant: the port is kept even though a pin took it.
KeptByOverPins(existing, requested, start, end) ==
    LET holders == (DOMAIN requested \ PinnedBy(requested)) \cap DOMAIN existing
    IN  {u \in holders :
            /\ existing[u] \in start..end
            /\ \A v \in holders : existing[v] = existing[u] => ~Before(v, u)}

\* Second loop: the others keep the port they have when it is still in the
\* range, no pin took it, and no earlier request kept it.
KeptBy(existing, requested, start, end) ==
    LET pinned == PinnedBy(requested)
        holders == (DOMAIN requested \ pinned) \cap DOMAIN existing
    IN  {u \in holders :
            /\ existing[u] \in start..end
            /\ \A v \in pinned : requested[v] # existing[u]
            /\ \A v \in holders : existing[v] = existing[u] => ~Before(v, u)}

\* The ports fixed by the first two loops.
Settled(existing, requested, start, end) ==
    LET pinned == PinnedBy(requested)
        kept == KeptBy(existing, requested, start, end)
    IN  [u \in pinned \cup kept |->
            IF u \in pinned THEN requested[u] ELSE existing[u]]

\* Third loop: what is left of the range, in order, for those without a port.
Filled(existing, requested, start, end) ==
    LET settled == Settled(existing, requested, start, end) IN
    InOrder(DOMAIN requested \ DOMAIN settled, (start..end) \ PortsOf(settled))

\* ReconcilePorts returns a map and no error ...
ReconcilePortsOK(existing, requested, start, end) ==
    LET settled == Settled(existing, requested, start, end)
        filled == Filled(existing, requested, start, end)
    IN  /\ start > 0 /\ end >= start
        /\ PinsValid(requested, start, end)
        /\ DOMAIN filled = DOMAIN requested \ DOMAIN settled

\* ... and this is the map.
ReconcilePorts(existing, requested, start, end) ==
    LET settled == Settled(existing, requested, start, end)
        filled == Filled(existing, requested, start, end)
    IN  [u \in DOMAIN requested |->
            IF u \in DOMAIN settled THEN settled[u] ELSE filled[u]]

=============================================================================
