------------------------- MODULE PortAllocatorLoop -------------------------
(***************************************************************************)
(* The loops of portallocator.ReconcilePorts, one action per iteration.    *)
(* Ports are int32 in the code: the cursor of findNext is incremented with *)
(* wrap-around at MaxInt32.                                                *)
(***************************************************************************)
EXTENDS PortAllocator

CONSTANTS MaxInt32,   \* the largest value of the port type
          PortValue,  \* the numbers that occur as allocated or requested port
          PortRanges  \* the spec.portRange values: records [start, end]

ASSUME LoopAssumption ==
    /\ MaxInt32 \in Nat \ {0}
    /\ PortValue \subseteq -MaxInt32 .. MaxInt32
    /\ PortRanges \subseteq [start : -MaxInt32 .. MaxInt32,
                             end : -MaxInt32 .. MaxInt32]

VARIABLES existing,   \* argument: the allocations of the last reconcile
          requested,  \* argument: the requests, without duplicates
          range,      \* argument: start and end
          loop,       \* "pin", "keep", "fill"; or "done", "error"
          todo,       \* the requests this loop has not looked at yet
          result,     \* the map being built
          used,       \* the ports it uses
          next        \* the cursor of findNext

vars == <<existing, requested, range, loop, todo, result, used, next>>
args == <<existing, requested, range>>

\* x++ on an int32.
Increment(x) == IF x = MaxInt32 THEN -MaxInt32 - 1 ELSE x + 1

\* Mutant: the result starts as a copy of the existing allocations.
InitCopiesExisting ==
    /\ existing \in UNION {[D -> PortValue \ {NoPort}] : D \in SUBSET UID}
    /\ requested \in UNION {[D -> PortValue \cup {NoPort}] : D \in SUBSET UID}
    /\ range \in PortRanges
    /\ loop = IF range.start <= 0 \/ range.end < range.start
              THEN "error" ELSE "pin"
    /\ todo = DOMAIN requested
    /\ result = existing
    /\ used = {}
    /\ next = range.start

Init ==
    /\ existing \in UNION {[D -> PortValue \ {NoPort}] : D \in SUBSET UID}
    /\ requested \in UNION {[D -> PortValue \cup {NoPort}] : D \in SUBSET UID}
    /\ range \in PortRanges
    /\ loop = IF range.start <= 0 \/ range.end < range.start
              THEN "error" ELSE "pin"
    /\ todo = DOMAIN requested
    /\ result = EmptyMap
    /\ used = {}
    /\ next = range.start

\* u is the request this iteration looks at: they are sorted by name.
Current(u) ==
    /\ u \in todo
    /\ \A v \in todo \ {u} : Before(u, v)

\* Mutant: the port is not recorded as used.
AssignUnrecorded(u, p) ==
    /\ result' = [v \in DOMAIN result \cup {u} |->
                    IF v = u THEN p ELSE result[v]]
    /\ used' = used

Assign(u, p) ==
    /\ result' = [v \in DOMAIN result \cup {u} |->
                    IF v = u THEN p ELSE result[v]]
    /\ used' = used \cup {p}

Skip == UNCHANGED <<result, used>>

InRange(p) == p \in range.start .. range.end

\* requestedByPort: every port in result was put there by a pin.
PinStep(u) ==
    /\ loop = "pin"
    /\ Current(u)
    /\ \/ /\ requested[u] = NoPort
          /\ Skip
          /\ todo' = todo \ {u}
          /\ UNCHANGED loop
       \/ /\ requested[u] # NoPort
          /\ InRange(requested[u])
          /\ requested[u] \notin used
          /\ Assign(u, requested[u])
          /\ todo' = todo \ {u}
          /\ UNCHANGED loop
       \/ /\ requested[u] # NoPort
          /\ ~InRange(requested[u]) \/ requested[u] \in used
          /\ loop' = "error"
          /\ Skip
          /\ UNCHANGED todo
    /\ UNCHANGED <<args, next>>

\* Mutant: an allocation of an earlier portRange is kept.
KeepableOutOfRange(u) ==
    /\ u \notin DOMAIN result
    /\ u \in DOMAIN existing
    /\ existing[u] \notin used

Keepable(u) ==
    /\ u \notin DOMAIN result
    /\ u \in DOMAIN existing
    /\ InRange(existing[u])
    /\ existing[u] \notin used

\* Mutant: the second loop is skipped, every port is allocated afresh.
KeepStepNever(u) ==
    /\ loop = "keep"
    /\ Current(u)
    /\ Skip
    /\ todo' = todo \ {u}
    /\ UNCHANGED <<args, loop, next>>

KeepStep(u) ==
    /\ loop = "keep"
    /\ Current(u)
    /\ \/ Keepable(u) /\ Assign(u, existing[u])
       \/ ~Keepable(u) /\ Skip
    /\ todo' = todo \ {u}
    /\ UNCHANGED <<args, loop, next>>

FillSkip(u) ==
    /\ loop = "fill"
    /\ Current(u)
    /\ u \in DOMAIN result
    /\ todo' = todo \ {u}
    /\ UNCHANGED <<args, loop, result, used, next>>

\* Mutant: the cursor stays on a port in use.
FillScanStuck(u) ==
    /\ loop = "fill"
    /\ Current(u)
    /\ u \notin DOMAIN result
    /\ next <= range.end
    /\ next \in used
    /\ UNCHANGED vars

\* findNext passes over a port in use ...
FillScan(u) ==
    /\ loop = "fill"
    /\ Current(u)
    /\ u \notin DOMAIN result
    /\ next <= range.end
    /\ next \in used
    /\ next' = Increment(next)
    /\ UNCHANGED <<args, loop, todo, result, used>>

\* ... and returns the first one that is free.
FillTake(u) ==
    /\ loop = "fill"
    /\ Current(u)
    /\ u \notin DOMAIN result
    /\ next <= range.end
    /\ next \notin used
    /\ Assign(u, next)
    /\ next' = Increment(next)
    /\ todo' = todo \ {u}
    /\ UNCHANGED <<args, loop>>

\* Mutant: the last port of the range is never given out.
FillFailEarly(u) ==
    /\ loop = "fill"
    /\ Current(u)
    /\ u \notin DOMAIN result
    /\ next >= range.end
    /\ loop' = "error"
    /\ UNCHANGED <<args, todo, result, used, next>>

FillFail(u) ==
    /\ loop = "fill"
    /\ Current(u)
    /\ u \notin DOMAIN result
    /\ next > range.end
    /\ loop' = "error"
    /\ UNCHANGED <<args, todo, result, used, next>>

NextLoop ==
    /\ todo = {}
    /\ \/ loop = "pin"  /\ loop' = "keep" /\ todo' = DOMAIN requested
       \/ loop = "keep" /\ loop' = "fill" /\ todo' = DOMAIN requested
       \/ loop = "fill" /\ loop' = "done" /\ UNCHANGED todo
    /\ UNCHANGED <<args, result, used, next>>

Next ==
    \/ \E u \in UID : \/ PinStep(u) \/ KeepStep(u)
                      \/ FillSkip(u) \/ FillScan(u) \/ FillTake(u) \/ FillFail(u)
    \/ NextLoop

Spec == Init /\ [][Next]_vars /\ WF_vars(Next)

-----------------------------------------------------------------------------
(* Properties                                                              *)

\* The arguments are maps over UIDs, the loop variables have their types.
TypeOK ==
    /\ DOMAIN existing \subseteq UID
    /\ existing \in [DOMAIN existing -> Int]
    /\ DOMAIN requested \subseteq UID
    /\ requested \in [DOMAIN requested -> Int]
    /\ range \in PortRanges
    /\ loop \in {"pin", "keep", "fill", "done", "error"}
    /\ todo \subseteq DOMAIN requested
    /\ DOMAIN result \subseteq DOMAIN requested
    /\ result \in [DOMAIN result -> Int]
    /\ used \subseteq Int
    /\ next \in Int

\* All ports of a range that ends at the largest int32 are in use: the cursor of
\* findNext wraps around instead of passing the end.
Exhausted == range.end = MaxInt32 /\ range.start .. range.end \subseteq used

\* README: "Each TiProxyMachinePort allocates one frontend port from
\* spec.portRange": no loop of ReconcilePorts gives out a port outside it, but
\* for the wrap-around, where it should have failed for want of ports.
AllocatesFromRange == Exhausted \/ \A u \in DOMAIN result : InRange(result[u])

\* No two requests ever hold the same port, whichever loops gave it to them
\* (the "used" set and the cursor of findNext together rule it out).
NoSharedPort == Injective(result)

\* "ReconcilePorts keeps existing valid allocations": when it returns, a
\* request without a pin whose port is in range, not pinned by another request
\* and held by no other request still has that port.
KeepsExisting ==
    loop = "done" =>
        \A u \in DOMAIN requested \cap DOMAIN existing :
            (/\ requested[u] = NoPort
             /\ InRange(existing[u])
             /\ \A v \in DOMAIN requested \ {u} :
                    /\ requested[v] # existing[u]
                    /\ v \in DOMAIN existing => existing[v] # existing[u])
            => result[u] = existing[u]

\* The loops return an error or a map exactly when the definition of
\* ReconcilePorts in PortAllocator does, and the same map.
AgreesWithDefinition ==
    LET ok == ReconcilePortsOK(existing, requested, range.start, range.end) IN
    ~Exhausted =>
    /\ loop = "error" => ~ok
    /\ loop = "done" =>
        /\ ok
        /\ result = ReconcilePorts(existing, requested, range.start, range.end)

\* A reconcile that follows a successful one with the same requests moves no
\* port and fails for none: what ReconcilePorts returns is a fixed point.
FixedPoint ==
    loop = "done" /\ ~Exhausted =>
        /\ ReconcilePortsOK(result, requested, range.start, range.end)
        /\ ReconcilePorts(result, requested, range.start, range.end) = result

\* The scan for a free port ends: the call returns.
Terminates == <>(loop \in {"done", "error"})

=============================================================================
