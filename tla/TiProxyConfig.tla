--------------------------- MODULE TiProxyConfig ----------------------------
(***************************************************************************)
(* What the agent derives from its TiProxyMachineGroup: the runtime        *)
(* settings, and the TiProxy configuration rendered from                   *)
(* status.resolvedLinks and spec.portRange.                                *)
(*                                                                         *)
(* A group is a record of the fields the agent reads: links (a set of      *)
(* resolved links), start, end, api, image, base, version, path. Names are *)
(* sequences of their dot-separated parts, images pairs of repository and  *)
(* tag; "" and <<>> stand for what is empty once spaces are trimmed.       *)
(***************************************************************************)
EXTENDS Integers, Sequences, FiniteSets, FiniteSetsExt

-----------------------------------------------------------------------------
(* runtimeSettings                                                         *)

NoImage == <<"", "">>

\* imageBase: the repository of the fallback image.
ImageBase(image) == IF image = NoImage THEN "pingcap/tiproxy" ELSE image[1]

ResolveTiProxyImage(group, fallback) ==
    CASE group.image # NoImage -> group.image
      [] group.image = NoImage /\ group.base = "" /\ group.version = "" -> fallback
      [] OTHER -> <<IF group.base = "" THEN ImageBase(fallback) ELSE group.base,
                    group.version>>

\* An unset port is 3080, in runtimeSettings and again in BuildTiProxyConfig.
APIPort(group) == IF group.api = 0 THEN 3080 ELSE group.api

-----------------------------------------------------------------------------
(* BuildTiProxyConfig                                                      *)

\* The controller's buildResolvedLinks has the same default; a name that is
\* empty in the status gets it here. (A namespace has no dots: two links with
\* default names never share one.)
ClusterName(link) ==
    IF link.cluster # <<>> THEN link.cluster ELSE link.namespace \o link.name

PDAddrs(link) == SelectSeq(link.pds, LAMBDA a : a # "")

\* buildBackendClusters succeeds: one bad link is an error for all of them.
BackendClustersOK(links) ==
    \A k \in links :
        /\ k.port > 0
        /\ \A l \in links \ {k} : ClusterName(l) # ClusterName(k)
        /\ PDAddrs(k) # <<>>

\* Sorted by their names, which differ: a set. A link's port is not rendered.
BackendClusters(links) ==
    {[name |-> ClusterName(l), pds |-> PDAddrs(l), servers |-> l.servers] : l \in links}

\* inferPortRange, for links whose ports are positive; <<0, 0>> without links.
InferPortRange(links) ==
    LET ports == {l.port : l \in links}
    IN  IF ports = {} THEN <<0, 0>> ELSE <<Min(ports), Max(ports)>>

ValidRange(range) == range[1] > 0 /\ range[2] >= range[1]

\* The range of the spec, of the links, or the one default port, which
\* syncOnce sets to the start of the spec's range.
PortRange(group) ==
    LET wanted == <<group.start, group.end>>
        inferred == InferPortRange(group.links)
        default == IF group.start <= 0 THEN 6000 ELSE group.start
    IN  CASE ValidRange(wanted) -> wanted
          [] ~ValidRange(wanted) /\ ValidRange(inferred) -> inferred
          [] OTHER -> <<default, default>>

\* BuildTiProxyConfig returns no error ...
BuildTiProxyConfigOK(group) == APIPort(group) > 0 /\ BackendClustersOK(group.links)

\* ... and what the text says. HashBytes tells two texts apart.
BuildTiProxyConfig(group) ==
    [clusters |-> BackendClusters(group.links), range |-> PortRange(group),
     api |-> APIPort(group)]

=============================================================================
