--------------------------- MODULE LinkAssignment ---------------------------
(***************************************************************************)
(* assignPortsToLinks: which allocated frontend port each link is routed   *)
(* on. Links and machine ports are known by UID; NameOf compares their     *)
(* namespace/name keys.                                                    *)
(***************************************************************************)
EXTENDS PortAllocator

\* The ports allocated to a machine port with the link's own name. There is
\* at most one: two live objects of a kind have different names.
SameNamePorts(link, allocated) ==
    {allocated[u] : u \in {v \in DOMAIN allocated : NameOf[v] = NameOf[link]}}

Named(links, allocated) ==
    {l \in links : SameNamePorts(l, allocated) # {}}

\* First pass: the machine port with the same name.
NamedPorts(links, allocated) ==
    [l \in Named(links, allocated) |->
        CHOOSE p \in SameNamePorts(l, allocated) : TRUE]

\* Mutant: the ports the first pass used are handed out again.
OtherPortsReused(links, allocated) ==
    InOrder(links \ Named(links, allocated), PortsOf(allocated))

\* Second pass: the remaining ports in ascending order, to the other links in
\* name order, until one of the two runs out.
OtherPorts(links, allocated) ==
    InOrder(links \ Named(links, allocated),
            PortsOf(allocated) \ PortsOf(NamedPorts(links, allocated)))

\* The map linkPorts; buildResolvedLinks lists it, one entry per link.
AssignPortsToLinks(links, allocated) ==
    LET named == NamedPorts(links, allocated)
        others == OtherPorts(links, allocated)
    IN  [l \in DOMAIN named \cup DOMAIN others |->
            IF l \in DOMAIN named THEN named[l] ELSE others[l]]

\* The links in linkErrors.
Unresolved(links, allocated) ==
    links \ DOMAIN AssignPortsToLinks(links, allocated)

=============================================================================
