------------------------ MODULE PortAllocatorProofs ------------------------
(***************************************************************************)
(* What ReconcilePorts and assignPortsToLinks return, for every map of     *)
(* existing allocations, all requests and every range: the facts that the  *)
(* proofs about the controller and about the loops use.                    *)
(***************************************************************************)
EXTENDS LinkAssignment, TLAPS, FiniteSetTheorems

-----------------------------------------------------------------------------
(* The order of the objects                                                *)

\* sort.Slice gets a strict total order: by name, then by UID.
LEMMA BeforeIsOrder ==
    ASSUME NEW u \in UID, NEW v \in UID, NEW w \in UID
    PROVE  /\ ~Before(u, u)
           /\ Before(u, v) /\ Before(v, w) => Before(u, w)
           /\ u # v => Before(u, v) \/ Before(v, u)
BY UIDAssumption DEF Before

\* Of two objects, the later one has more objects before it.
LEMMA EarlierGrows ==
    ASSUME NEW objects \in SUBSET UID,
           NEW u \in objects, NEW v \in objects, Before(u, v)
    PROVE  /\ Cardinality(Earlier(u, objects)) \in Nat
           /\ Cardinality(Earlier(v, objects)) \in Nat
           /\ Cardinality(Earlier(u, objects)) < Cardinality(Earlier(v, objects))
<1>1. IsFiniteSet(objects)
  BY UIDAssumption, FS_Subset
<1>2. IsFiniteSet(Earlier(v, objects)) /\ IsFiniteSet(Earlier(u, objects))
  BY <1>1, FS_Subset DEF Earlier
<1>3. Earlier(u, objects) \subseteq Earlier(v, objects)
  BY BeforeIsOrder DEF Earlier
<1>4. u \in Earlier(v, objects) /\ u \notin Earlier(u, objects)
  BY BeforeIsOrder DEF Earlier
<1>. QED  BY <1>2, <1>3, <1>4, FS_Subset, FS_CardinalityType

\* Different objects have different numbers of objects before them.
LEMMA EarlierCounts ==
    ASSUME NEW objects \in SUBSET UID,
           NEW u \in objects, NEW v \in objects,
           Cardinality(Earlier(u, objects)) = Cardinality(Earlier(v, objects))
    PROVE  u = v
<1>. SUFFICES ASSUME u # v PROVE FALSE
  OBVIOUS
<1>1. CASE Before(u, v)
  BY <1>1, EarlierGrows
<1>2. CASE Before(v, u)
  BY <1>2, EarlierGrows
<1>. QED  BY <1>1, <1>2, BeforeIsOrder

\* What is left of a finite set.
LEMMA RestCardinality ==
    ASSUME NEW S, IsFiniteSet(S), NEW T, T \subseteq S
    PROVE  /\ IsFiniteSet(S \ T)
           /\ Cardinality(S \ T) = Cardinality(S) - Cardinality(T)
<1>1. S \cap T = T
  OBVIOUS
<1>2. IsFiniteSet(S \ T) /\ Cardinality(S \ T) = Cardinality(S) - Cardinality(S \cap T)
  BY FS_Difference, Zenon
<1>. QED  BY <1>1, <1>2

\* The same of ports: the rank of a port among all of them tells them apart,
\* and is below their number.
LEMMA LowerCounts ==
    ASSUME NEW ports \in SUBSET Int, IsFiniteSet(ports),
           NEW p \in ports, NEW q \in ports
    PROVE  /\ Cardinality(Lower(p, ports)) \in 0 .. Cardinality(ports) - 1
           /\ Cardinality(Lower(p, ports)) = Cardinality(Lower(q, ports)) => p = q
<1>1. ASSUME NEW a \in ports
      PROVE  /\ IsFiniteSet(Lower(a, ports))
             /\ Cardinality(Lower(a, ports)) \in Nat
             /\ Cardinality(Lower(a, ports)) < Cardinality(ports)
  <2>1. Lower(a, ports) \in SUBSET ports /\ a \notin Lower(a, ports)
    BY DEF Lower
  <2>. QED  BY <2>1, FS_Subset, FS_CardinalityType
<1>2. ASSUME NEW a \in ports, NEW b \in ports, a < b
      PROVE  Cardinality(Lower(a, ports)) # Cardinality(Lower(b, ports))
  <2>1. \A c \in ports : c < a => c < b
    BY <1>2
  <2>2. Lower(a, ports) \in SUBSET Lower(b, ports)
    BY <2>1 DEF Lower
  <2>3. a \in Lower(b, ports) /\ a \notin Lower(a, ports)
    BY <1>2 DEF Lower
  <2>. QED  BY <1>1, <2>2, <2>3, FS_Subset
<1>3. p = q \/ p < q \/ q < p
  OBVIOUS
<1>4. Cardinality(ports) \in Nat
  BY FS_CardinalityType
<1>. QED  BY <1>1, <1>2, <1>3, <1>4

\* Every rank below their number is the rank of a port.
LEMMA RankExists ==
    ASSUME NEW ports \in SUBSET Int, IsFiniteSet(ports),
           NEW k \in Nat, k < Cardinality(ports)
    PROVE  \E p \in ports : Cardinality(Lower(p, ports)) = k
<1>. DEFINE n == Cardinality(ports)
            ranks == 0 .. n - 1
            rank == [p \in ports |-> Cardinality(Lower(p, ports))]
<1>1. n \in Nat
  BY FS_CardinalityType
<1>2. rank \in Injection(ports, ranks)
  <2>1. rank \in [ports -> ranks]
    BY LowerCounts
  <2>2. \A p, q \in ports : rank[p] = rank[q] => p = q
    BY LowerCounts
  <2>. QED  BY <2>1, <2>2 DEF Injection, IsInjective
<1>3. IsFiniteSet(ranks) /\ Cardinality(ranks) = n
  <2>1. n - 1 \in Int /\ (0 > n - 1 => n = 0)
    BY <1>1
  <2>2. /\ IsFiniteSet(ranks)
        /\ Cardinality(ranks) = IF 0 > n - 1 THEN 0 ELSE (n - 1) - 0 + 1
    BY <2>1, FS_Interval
  <2>. QED  BY <1>1, <2>1, <2>2
<1>4. rank \in Surjection(ports, ranks)
  BY <1>2, <1>3, FS_Injection
<1>5. k \in ranks
  BY <1>1
<1>. QED  BY <1>4, <1>5 DEF Surjection

-----------------------------------------------------------------------------
(* Handing out ports in order                                              *)

\* The ports handed out are among those there are, each to one object.
LEMMA InOrderProperties ==
    ASSUME NEW objects \in SUBSET UID, NEW ports
    PROVE  LET map == InOrder(objects, ports) IN
           /\ DOMAIN map \subseteq objects
           /\ \A u \in DOMAIN map : map[u] \in ports
           /\ Injective(map)
<1>. DEFINE map == InOrder(objects, ports)
<1>1. DOMAIN map \subseteq objects
  BY DEF InOrder
<1>2. ASSUME NEW u \in DOMAIN map
      PROVE  map[u] \in ports /\ Paired(u, objects, map[u], ports)
  <2>1. \E p \in ports : Paired(u, objects, p, ports)
    BY DEF InOrder
  <2>2. map[u] = CHOOSE p \in ports : Paired(u, objects, p, ports)
    BY DEF InOrder
  <2>. QED  BY <2>1, <2>2
<1>3. ASSUME NEW u \in DOMAIN map, NEW v \in DOMAIN map, map[u] = map[v]
      PROVE  u = v
  <2>1. Cardinality(Earlier(u, objects)) = Cardinality(Earlier(v, objects))
    BY <1>2, <1>3 DEF Paired
  <2>2. u \in objects /\ v \in objects
    BY <1>1
  <2>. QED  BY <2>1, <2>2, EarlierCounts
<1>. QED  BY <1>1, <1>2, <1>3 DEF Injective

\* When there are as many ports as objects, nobody goes without.
LEMMA InOrderTotal ==
    ASSUME NEW objects \in SUBSET UID,
           NEW ports \in SUBSET Int, IsFiniteSet(ports),
           Cardinality(objects) <= Cardinality(ports)
    PROVE  DOMAIN InOrder(objects, ports) = objects
<1>1. IsFiniteSet(objects) /\ Cardinality(objects) \in Nat /\ Cardinality(ports) \in Nat
  BY UIDAssumption, FS_Subset, FS_CardinalityType
<1>2. ASSUME NEW u \in objects
      PROVE  \E p \in ports : Paired(u, objects, p, ports)
  <2>1. Earlier(u, objects) \in SUBSET objects /\ u \notin Earlier(u, objects)
    BY BeforeIsOrder DEF Earlier
  <2>2. /\ Cardinality(Earlier(u, objects)) \in Nat
        /\ Cardinality(Earlier(u, objects)) < Cardinality(objects)
    BY <1>1, <2>1, FS_Subset, FS_CardinalityType
  <2>3. \E p \in ports : Cardinality(Lower(p, ports)) = Cardinality(Earlier(u, objects))
    BY <1>1, <2>2, RankExists
  <2>. QED  BY <2>3 DEF Paired
<1>. QED  BY <1>2 DEF InOrder

\* An injective map has as many ports as keys.
LEMMA PortsOfCardinality ==
    ASSUME NEW map, DOMAIN map \subseteq UID, Injective(map)
    PROVE  /\ IsFiniteSet(PortsOf(map))
           /\ Cardinality(PortsOf(map)) = Cardinality(DOMAIN map)
<1>. DEFINE f == [u \in DOMAIN map |-> map[u]]
<1>1. IsFiniteSet(DOMAIN map)
  BY UIDAssumption, FS_Subset
<1>2. f \in Surjection(DOMAIN map, PortsOf(map))
  BY DEF Surjection, PortsOf
<1>3. f \in Injection(DOMAIN map, PortsOf(map))
  BY <1>2 DEF Surjection, Injection, IsInjective, Injective
<1>. QED  BY <1>1, <1>2, <1>3, FS_Surjection

-----------------------------------------------------------------------------
(* ReconcilePorts                                                          *)

\* Two requests without a pin never keep the same port: the first one in
\* order has it.
LEMMA KeptDistinct ==
    ASSUME NEW existing, NEW requested, DOMAIN requested \subseteq UID,
           NEW start, NEW end,
           NEW u \in KeptBy(existing, requested, start, end),
           NEW v \in KeptBy(existing, requested, start, end),
           existing[u] = existing[v]
    PROVE  u = v
<1>1. u \in UID /\ v \in UID /\ ~Before(u, v) /\ ~Before(v, u)
  BY DEF KeptBy
<1>. QED  BY <1>1, BeforeIsOrder

\* The first two loops: distinct ports of the range.
LEMMA SettledProperties ==
    ASSUME NEW existing, NEW requested, DOMAIN requested \subseteq UID,
           NEW start, NEW end, PinsValid(requested, start, end)
    PROVE  LET settled == Settled(existing, requested, start, end) IN
           /\ DOMAIN settled \subseteq DOMAIN requested
           /\ \A u \in DOMAIN settled : settled[u] \in start .. end
           /\ Injective(settled)
<1>. DEFINE settled == Settled(existing, requested, start, end)
            pinned == PinnedBy(requested)
            kept == KeptBy(existing, requested, start, end)
<1>1. DOMAIN settled = pinned \cup kept
  BY DEF Settled
<1>2. pinned \subseteq DOMAIN requested /\ kept \subseteq DOMAIN requested \ pinned
  BY DEF PinnedBy, KeptBy
<1>3. \A u \in pinned : settled[u] = requested[u] /\ settled[u] \in start .. end
  BY DEF Settled, PinsValid
<1>4. \A u \in kept : settled[u] = existing[u] /\ settled[u] \in start .. end
  BY <1>2 DEF Settled, KeptBy
<1>5. ASSUME NEW u \in DOMAIN settled, NEW v \in DOMAIN settled,
             settled[u] = settled[v]
      PROVE  u = v
  <2>1. CASE u \in pinned /\ v \in pinned
    BY <1>3, <1>5, <2>1 DEF PinsValid
  <2>2. CASE u \in kept /\ v \in kept
    BY <1>4, <1>5, <2>2, KeptDistinct
  <2>3. \A k \in kept, p \in pinned : existing[k] # requested[p]
    BY DEF KeptBy
  <2>. QED  BY <1>1, <1>3, <1>4, <1>5, <2>1, <2>2, <2>3
<1>. QED  BY <1>1, <1>2, <1>3, <1>4, <1>5 DEF Injective

\* README, "Each TiProxyMachinePort allocates one frontend port from
\* spec.portRange": when ReconcilePorts returns no error, every request has a
\* port of the range, no two have the same, and a pin has the port it asks for.
THEOREM ReconcilePortsCorrect ==
    ASSUME NEW existing, NEW requested, DOMAIN requested \subseteq UID,
           NEW start, NEW end,
           ReconcilePortsOK(existing, requested, start, end)
    PROVE  LET map == ReconcilePorts(existing, requested, start, end) IN
           /\ DOMAIN map = DOMAIN requested
           /\ \A u \in DOMAIN map : map[u] \in start .. end
           /\ Injective(map)
           /\ \A u \in PinnedBy(requested) : map[u] = requested[u]
<1>. DEFINE settled == Settled(existing, requested, start, end)
            filled == Filled(existing, requested, start, end)
            map == ReconcilePorts(existing, requested, start, end)
<1>1. /\ DOMAIN settled \subseteq DOMAIN requested
      /\ \A u \in DOMAIN settled : settled[u] \in start .. end
      /\ Injective(settled)
  BY SettledProperties DEF ReconcilePortsOK
<1>2. /\ DOMAIN filled = DOMAIN requested \ DOMAIN settled
      /\ \A u \in DOMAIN filled : filled[u] \in (start .. end) \ PortsOf(settled)
      /\ Injective(filled)
  <2>1. DOMAIN requested \ DOMAIN settled \in SUBSET UID
    OBVIOUS
  <2>. QED
    BY <2>1, InOrderProperties DEF Filled, ReconcilePortsOK
<1>3. DOMAIN map = DOMAIN requested
  BY DEF ReconcilePorts
<1>4. /\ \A u \in DOMAIN settled : map[u] = settled[u]
      /\ \A u \in DOMAIN requested \ DOMAIN settled : map[u] = filled[u]
  BY <1>1 DEF ReconcilePorts
<1>5. \A u \in DOMAIN map : map[u] \in start .. end
  BY <1>1, <1>2, <1>3, <1>4
<1>6. \A u \in DOMAIN settled, v \in DOMAIN filled : settled[u] # filled[v]
  BY <1>2 DEF PortsOf
<1>7. Injective(map)
  BY <1>1, <1>2, <1>3, <1>4, <1>6 DEF Injective
<1>8. \A u \in PinnedBy(requested) : u \in DOMAIN settled /\ settled[u] = requested[u]
  BY DEF Settled
<1>. QED  BY <1>3, <1>4, <1>5, <1>7, <1>8

\* "ReconcilePorts keeps existing valid allocations": a request that may keep
\* its port, because it is in the range and neither pinned nor held by another
\* request, has it in the result.
THEOREM ReconcilePortsKeeps ==
    ASSUME NEW existing, NEW requested,
           NEW start, NEW end,
           NEW u \in DOMAIN requested \cap DOMAIN existing,
           requested[u] \in {NoPort, existing[u]},
           existing[u] \in start .. end,
           \A v \in DOMAIN requested \ {u} :
                /\ requested[v] # existing[u]
                /\ v \in DOMAIN existing => existing[v] # existing[u],
           DOMAIN requested \subseteq UID
    PROVE  ReconcilePorts(existing, requested, start, end)[u] = existing[u]
<1>. DEFINE settled == Settled(existing, requested, start, end)
<1>1. CASE requested[u] # NoPort
  BY <1>1 DEF ReconcilePorts, Settled, PinnedBy
<1>2. CASE requested[u] = NoPort
  <2>1. u \notin PinnedBy(requested)
    BY <1>2 DEF PinnedBy
  <2>2. ~Before(u, u)
    BY BeforeIsOrder
  <2>3. u \in KeptBy(existing, requested, start, end)
    BY <2>1, <2>2 DEF KeptBy, PinnedBy
  <2>4. u \in DOMAIN settled /\ settled[u] = existing[u]
    BY <2>1, <2>3 DEF Settled
  <2>. QED  BY <2>4 DEF ReconcilePorts
<1>. QED  BY <1>1, <1>2

\* ReconcilePorts never fails for want of ports while the range has enough: with
\* a valid range and valid pins it succeeds exactly when there are no more
\* requests than ports, wherever the existing allocations lie.
THEOREM ReconcilePortsSucceeds ==
    ASSUME NEW existing, NEW requested, DOMAIN requested \subseteq UID,
           NEW start \in Int, NEW end \in Int, start > 0, end >= start,
           PinsValid(requested, start, end)
    PROVE  ReconcilePortsOK(existing, requested, start, end)
             <=> Cardinality(DOMAIN requested) <= end - start + 1
<1>. DEFINE settled == Settled(existing, requested, start, end)
            filled == Filled(existing, requested, start, end)
            map == ReconcilePorts(existing, requested, start, end)
            free == (start .. end) \ PortsOf(settled)
            rest == DOMAIN requested \ DOMAIN settled
<1>1. IsFiniteSet(start .. end) /\ Cardinality(start .. end) = end - start + 1
  BY FS_Interval
<1>2. IsFiniteSet(DOMAIN requested) /\ Cardinality(DOMAIN requested) \in Nat
  BY UIDAssumption, FS_Subset, FS_CardinalityType
<1>3. ASSUME ReconcilePortsOK(existing, requested, start, end)
      PROVE  Cardinality(DOMAIN requested) <= end - start + 1
  <2>1. /\ DOMAIN map = DOMAIN requested /\ Injective(map)
        /\ \A u \in DOMAIN map : map[u] \in start .. end
    BY <1>3, ReconcilePortsCorrect
  <2>2. PortsOf(map) \in SUBSET (start .. end)
    BY <2>1 DEF PortsOf
  <2>3. Cardinality(PortsOf(map)) = Cardinality(DOMAIN requested)
    BY <2>1, PortsOfCardinality
  <2>. QED  BY <1>1, <2>2, <2>3, FS_Subset
<1>4. ASSUME Cardinality(DOMAIN requested) <= end - start + 1
      PROVE  ReconcilePortsOK(existing, requested, start, end)
  <2>1. /\ DOMAIN settled \subseteq DOMAIN requested /\ Injective(settled)
        /\ \A u \in DOMAIN settled : settled[u] \in start .. end
    BY SettledProperties
  <2>2. PortsOf(settled) \subseteq start .. end
    BY <2>1 DEF PortsOf
  <2>3. Cardinality(PortsOf(settled)) = Cardinality(DOMAIN settled)
    BY <2>1, PortsOfCardinality
  <2>4. /\ IsFiniteSet(free)
        /\ Cardinality(free) = Cardinality(start .. end) - Cardinality(PortsOf(settled))
    BY <1>1, <2>2, RestCardinality, Zenon
  <2>5. Cardinality(rest) = Cardinality(DOMAIN requested) - Cardinality(DOMAIN settled)
    BY <1>2, <2>1, RestCardinality, Zenon
  <2>6. Cardinality(DOMAIN settled) \in Nat
    BY <1>2, <2>1, FS_Subset, FS_CardinalityType
  <2>7. Cardinality(rest) <= Cardinality(free)
    BY <1>1, <1>2, <1>4, <2>3, <2>4, <2>5, <2>6
  <2>8. rest \in SUBSET UID /\ free \in SUBSET Int
    OBVIOUS
  <2>9. DOMAIN filled = rest
    BY <2>4, <2>7, <2>8, InOrderTotal DEF Filled
  <2>. QED  BY <2>9 DEF ReconcilePortsOK
<1>. QED  BY <1>3, <1>4

\* What ReconcilePorts returns is a fixed point: called again with the same
\* requests it succeeds and moves no port.
THEOREM ReconcilePortsFixedPoint ==
    ASSUME NEW existing, NEW requested, DOMAIN requested \subseteq UID,
           NEW start, NEW end,
           ReconcilePortsOK(existing, requested, start, end)
    PROVE  LET map == ReconcilePorts(existing, requested, start, end) IN
           /\ ReconcilePortsOK(map, requested, start, end)
           /\ ReconcilePorts(map, requested, start, end) = map
<1>. DEFINE map == ReconcilePorts(existing, requested, start, end)
            pinned == PinnedBy(requested)
            settled == Settled(map, requested, start, end)
            filled == Filled(map, requested, start, end)
<1>1. /\ DOMAIN map = DOMAIN requested
      /\ \A u \in DOMAIN map : map[u] \in start .. end
      /\ Injective(map)
      /\ \A u \in pinned : map[u] = requested[u]
  BY ReconcilePortsCorrect
<1>2. KeptBy(map, requested, start, end) = DOMAIN requested \ pinned
  <2>. SUFFICES ASSUME NEW u \in DOMAIN requested \ pinned
                PROVE  u \in KeptBy(map, requested, start, end)
    BY DEF KeptBy
  <2>1. \A v \in pinned : v \in DOMAIN map /\ v # u /\ requested[v] = map[v]
    BY <1>1 DEF PinnedBy
  <2>2. \A v \in pinned : requested[v] # map[u]
    BY <1>1, <2>1 DEF Injective
  <2>3. \A v \in DOMAIN map : map[v] = map[u] => ~Before(v, u)
    BY <1>1, BeforeIsOrder DEF Injective
  <2>. QED  BY <1>1, <2>2, <2>3 DEF KeptBy
<1>3. pinned \subseteq DOMAIN requested
  BY DEF PinnedBy
<1>4. DOMAIN settled = DOMAIN requested
  BY <1>2, <1>3 DEF Settled
<1>5. \A u \in DOMAIN requested : settled[u] = map[u]
  BY <1>1, <1>2, <1>3 DEF Settled
<1>6. DOMAIN filled = {}
  BY <1>4 DEF Filled, InOrder
<1>7. ReconcilePortsOK(map, requested, start, end)
  BY <1>4, <1>6 DEF ReconcilePortsOK
<1>8. ReconcilePorts(map, requested, start, end) = [u \in DOMAIN requested |-> map[u]]
  BY <1>4, <1>5 DEF ReconcilePorts
<1>9. map = [u \in DOMAIN requested |-> map[u]]
  BY DEF ReconcilePorts
<1>. QED  BY <1>7, <1>8, <1>9

-----------------------------------------------------------------------------
(* assignPortsToLinks                                                      *)

\* Names tell the links apart: two live objects of a kind differ in name.
NamesDiffer(objects) == \A k, l \in objects : NameOf[k] = NameOf[l] => k = l

\* The first pass gives every link with a machine port of its name that port.
LEMMA NamedPortsProperties ==
    ASSUME NEW links, NamesDiffer(links),
           NEW allocated, Injective(allocated)
    PROVE  LET named == NamedPorts(links, allocated) IN
           /\ DOMAIN named = Named(links, allocated)
           /\ \A l \in DOMAIN named : named[l] \in PortsOf(allocated)
           /\ Injective(named)
<1>. DEFINE named == NamedPorts(links, allocated)
<1>1. DOMAIN named = Named(links, allocated)
  BY DEF NamedPorts
<1>2. ASSUME NEW l \in DOMAIN named
      PROVE  \E u \in DOMAIN allocated : NameOf[u] = NameOf[l] /\ named[l] = allocated[u]
  <2>1. SameNamePorts(l, allocated) # {}
    BY <1>1 DEF Named
  <2>2. named[l] \in SameNamePorts(l, allocated)
    BY <2>1 DEF NamedPorts
  <2>. QED  BY <2>2 DEF SameNamePorts
<1>3. \A l \in DOMAIN named : named[l] \in PortsOf(allocated)
  BY <1>2 DEF PortsOf
<1>4. ASSUME NEW k \in DOMAIN named, NEW l \in DOMAIN named, named[k] = named[l]
      PROVE  k = l
  <2>1. PICK u \in DOMAIN allocated : NameOf[u] = NameOf[k] /\ named[k] = allocated[u]
    BY <1>2
  <2>2. PICK v \in DOMAIN allocated : NameOf[v] = NameOf[l] /\ named[l] = allocated[v]
    BY <1>2
  <2>3. u = v
    BY <1>4, <2>1, <2>2 DEF Injective
  <2>4. k \in links /\ l \in links
    BY <1>1 DEF Named
  <2>. QED  BY <2>1, <2>2, <2>3, <2>4 DEF NamesDiffer
<1>. QED  BY <1>1, <1>3, <1>4 DEF Injective

\* assignPortsToLinks: no two links are routed on one frontend port, and each
\* on a port that is allocated to a machine port.
THEOREM LinksGetDistinctPorts ==
    ASSUME NEW links \in SUBSET UID, NamesDiffer(links),
           NEW allocated, Injective(allocated)
    PROVE  LET map == AssignPortsToLinks(links, allocated) IN
           /\ DOMAIN map \subseteq links
           /\ \A l \in DOMAIN map : map[l] \in PortsOf(allocated)
           /\ Injective(map)
<1>. DEFINE named == NamedPorts(links, allocated)
            others == OtherPorts(links, allocated)
            map == AssignPortsToLinks(links, allocated)
<1>1. /\ DOMAIN named \subseteq links
      /\ \A l \in DOMAIN named : named[l] \in PortsOf(allocated)
      /\ Injective(named)
  BY NamedPortsProperties DEF Named
<1>2. /\ DOMAIN others \subseteq links \ Named(links, allocated)
      /\ \A l \in DOMAIN others : others[l] \in PortsOf(allocated) \ PortsOf(named)
      /\ Injective(others)
  <2>1. links \ Named(links, allocated) \in SUBSET UID
    OBVIOUS
  <2>. QED  BY <2>1, InOrderProperties DEF OtherPorts
<1>3. DOMAIN map = DOMAIN named \cup DOMAIN others
  BY DEF AssignPortsToLinks
<1>4. /\ \A l \in DOMAIN named : map[l] = named[l]
      /\ \A l \in DOMAIN map \ DOMAIN named : l \in DOMAIN others /\ map[l] = others[l]
  BY DEF AssignPortsToLinks
<1>5. \A k \in DOMAIN named, l \in DOMAIN others : named[k] # others[l]
  BY <1>2 DEF PortsOf
<1>. QED  BY <1>1, <1>2, <1>3, <1>4, <1>5 DEF Injective

\* Links are left in linkErrors exactly when there are more of them than
\* machine ports.
THEOREM UnresolvedForWantOfPorts ==
    ASSUME NEW links \in SUBSET UID, NamesDiffer(links),
           NEW allocated, Injective(allocated), DOMAIN allocated \subseteq UID,
           \A u \in DOMAIN allocated : allocated[u] \in Int
    PROVE  Unresolved(links, allocated) = {}
             <=> Cardinality(links) <= Cardinality(DOMAIN allocated)
<1>. DEFINE named == NamedPorts(links, allocated)
            others == OtherPorts(links, allocated)
            map == AssignPortsToLinks(links, allocated)
            rest == links \ Named(links, allocated)
            left == PortsOf(allocated) \ PortsOf(named)
<1>1. /\ IsFiniteSet(links) /\ Cardinality(links) \in Nat
      /\ IsFiniteSet(PortsOf(allocated)) /\ Cardinality(PortsOf(allocated)) \in Nat
      /\ Cardinality(PortsOf(allocated)) = Cardinality(DOMAIN allocated)
  BY UIDAssumption, FS_Subset, FS_CardinalityType, PortsOfCardinality
<1>2. /\ DOMAIN map \subseteq links /\ Injective(map)
      /\ \A l \in DOMAIN map : map[l] \in PortsOf(allocated)
  BY LinksGetDistinctPorts
<1>3. ASSUME Unresolved(links, allocated) = {}
      PROVE  Cardinality(links) <= Cardinality(DOMAIN allocated)
  <2>1. DOMAIN map = links
    BY <1>2, <1>3 DEF Unresolved
  <2>2. PortsOf(map) \in SUBSET PortsOf(allocated)
    BY <1>2 DEF PortsOf
  <2>3. Cardinality(PortsOf(map)) = Cardinality(links)
    BY <1>2, <2>1, PortsOfCardinality
  <2>. QED  BY <1>1, <2>2, <2>3, FS_Subset
<1>4. ASSUME Cardinality(links) <= Cardinality(DOMAIN allocated)
      PROVE  Unresolved(links, allocated) = {}
  <2>1. /\ DOMAIN named = Named(links, allocated) /\ Injective(named)
        /\ \A l \in DOMAIN named : named[l] \in PortsOf(allocated)
    BY NamedPortsProperties
  <2>2. DOMAIN named \subseteq links
    BY <2>1 DEF Named
  <2>3. PortsOf(named) \subseteq PortsOf(allocated)
    BY <2>1 DEF PortsOf
  <2>4. Cardinality(PortsOf(named)) = Cardinality(DOMAIN named)
    BY <2>1, <2>2, PortsOfCardinality
  <2>5. /\ IsFiniteSet(left)
        /\ Cardinality(left) = Cardinality(PortsOf(allocated)) - Cardinality(PortsOf(named))
    BY <1>1, <2>3, RestCardinality, Zenon
  <2>6. Cardinality(rest) = Cardinality(links) - Cardinality(DOMAIN named)
    BY <1>1, <2>1, <2>2, RestCardinality, Zenon
  <2>7. Cardinality(DOMAIN named) \in Nat
    BY <1>1, <2>2, FS_Subset, FS_CardinalityType
  <2>8. Cardinality(rest) <= Cardinality(left)
    BY <1>1, <1>4, <2>4, <2>5, <2>6, <2>7
  <2>9. rest \in SUBSET UID /\ left \in SUBSET Int
    BY DEF PortsOf
  <2>10. DOMAIN others = rest
    BY <2>5, <2>8, <2>9, InOrderTotal DEF OtherPorts
  <2>. QED  BY <2>1, <2>10 DEF Unresolved, AssignPortsToLinks
<1>. QED  BY <1>3, <1>4

=============================================================================
